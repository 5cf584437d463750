---------------------------- MODULE UploadProofs ----------------------------
(***************************************************************************)
(* UploadAsSent, for every upload of well-formed parts: parse_request,     *)
(* extract_boundary and parse_multipart_form give back the parts that the  *)
(* client wrote, whatever their number, names and contents.  Each piece of *)
(* the text is found where the client put it, so each round reads its part *)
(* and stops at the next boundary; the invariant says which part is next.  *)
(***************************************************************************)
EXTENDS IntakeProofs

-----------------------------------------------------------------------------
(***************************************************************************)
(* The text of a part as a client writes it, and where its pieces stand.   *)
(***************************************************************************)

Quote == "\""
DispositionWords == <<"Content-Disposition", ":", " ", "form-data", ";", " ", "name", "=", Quote>>
FileWords == <<";", " ", "file", "name", "=">>
FileText(part) ==
  IF IsEmpty(part.filename) THEN <<>>
  ELSE IF part.quoted THEN <<";", " ", "file", "name", "=", Quote>> \o part.filename \o <<Quote>>
  ELSE FileWords \o part.filename
Disposition(part) == ((DispositionWords \o part.name) \o <<Quote>>) \o FileText(part)

PartShape(part) == IsSeq(part.name) /\ IsSeq(part.filename) /\ IsSeq(part.content)

LEMMA WordShapes ==
  /\ IsSeq(DispositionWords) /\ Len(DispositionWords) = 9
  /\ IsSeq(FileWords) /\ Len(FileWords) = 5
  /\ IsSeq(<<";", " ", "file", "name", "=", Quote>>) /\ Len(<<";", " ", "file", "name", "=", Quote>>) = 6
  /\ IsSeq(Marker(Boundary)) /\ Len(Marker(Boundary)) = 4
  /\ Marker(Boundary) = <<"-", "-", "-", "b">>
<1>. DEFINE h == <<"Content-Disposition", ":", " ", "form-data", ";", " ", "name", "=", Quote>>
            f1 == <<";", " ", "file", "name", "=", Quote>>
            f2 == <<";", " ", "file", "name", "=">>
            m == <<"-", "-", "-", "b">>
<1>1. h \in Seq({"Content-Disposition", ":", " ", "form-data", ";", "name", "=", Quote})
  OBVIOUS
<1>2. f1 \in Seq({";", " ", "file", "name", "=", Quote})
  OBVIOUS
<1>3. f2 \in Seq({";", " ", "file", "name", "="})
  OBVIOUS
<1>4. m \in Seq({"-", "b"})
  OBVIOUS
<1>5. Len(h) = 9
  OBVIOUS
<1>6. Len(f1) = 6 /\ Len(f2) = 5 /\ Len(m) = 4
  OBVIOUS
<1>7. Marker(Boundary) = m
  <2>. DEFINE a == <<"-", "-">>
              b == <<"-", "b">>
              z == a \o b
  <2>0. Len(a) = 2 /\ Len(b) = 2
    OBVIOUS
  <2>1. IsSeq(a) /\ IsSeq(b) /\ Len(a) = 2 /\ Len(b) = 2 /\ IsSeq(m)
    BY <1>4, TupleShape, SeqIs
  <2>2. a[1] = "-" /\ a[2] = "-" /\ b[1] = "-" /\ b[2] = "b" /\ m[1] = "-" /\ m[2] = "-" /\ m[3] = "-" /\ m[4] = "b"
    OBVIOUS
  <2>3. Marker(Boundary) = z
    BY DEF Marker, Boundary
  <2>. HIDE DEF a, b, m
  <2>8. IsSeq(z) /\ Len(z) = Len(a) + Len(b)
        /\ \A i \in 1 .. Len(a) + Len(b) : z[i] = IF i <= Len(a) THEN a[i] ELSE b[i - Len(a)]
    BY <2>1, ConcatShape
  <2>. HIDE DEF z
  <2>9. Len(a) + Len(b) = 4
    BY <2>1
  <2>4. IsSeq(z) /\ Len(z) = 4 /\ \A i \in 1 .. 4 : z[i] = IF i <= 2 THEN a[i] ELSE b[i - 2]
    BY <2>1, <2>8, <2>9
  <2>5. \A i \in 1 .. 4 : i = 1 \/ i = 2 \/ i = 3 \/ i = 4
    OBVIOUS
  <2>6. \A i \in 1 .. 4 : z[i] = m[i]
    BY <2>2, <2>4, <2>5
  <2>7. z = m
    BY <1>6, <2>1, <2>4, <2>6, SameShape
  <2>. QED
    BY <2>3, <2>7
<1>. HIDE DEF h, f1, f2, m
<1>8. IsSeq(h) /\ IsSeq(f1) /\ IsSeq(f2) /\ IsSeq(m)
  BY <1>1, <1>2, <1>3, <1>4, SeqIs
<1>. QED
  BY <1>5, <1>6, <1>7, <1>8 DEF DispositionWords, FileWords, h, f1, f2, m

LEMMA DispositionShape ==
  ASSUME NEW part, PartShape(part)
  PROVE  IsSeq(FileText(part)) /\ IsSeq(Disposition(part))
<1>. DEFINE q == <<Quote>>
            w == <<";", " ", "file", "name", "=", Quote>>
            none == <<>>
<1>1. IsSeq(q) /\ IsSeq(none)
  BY TupleShape
<1>2. IsSeq(w) /\ IsSeq(FileWords) /\ IsSeq(DispositionWords)
  BY WordShapes
<1>3. FileText(part) = IF IsEmpty(part.filename) THEN none ELSE IF part.quoted THEN (w \o part.filename) \o q ELSE FileWords \o part.filename
  BY DEF FileText
<1>4. Disposition(part) = ((DispositionWords \o part.name) \o q) \o FileText(part)
  BY DEF Disposition
<1>. HIDE DEF q, w, none
<1>5. IsSeq(FileText(part))
  BY <1>1, <1>2, <1>3, ConcatsAre DEF PartShape
<1>6. IsSeq(Disposition(part))
  BY <1>1, <1>2, <1>4, <1>5, ConcatsAre DEF PartShape
<1>. QED
  BY <1>5, <1>6

(* Where the pieces of a part stand that starts at position p. *)
Stands(t, p, disposition, content, eol) ==
  LET e == Len(eol)
      s == p + 4 + e
      d == s + Len(disposition)
      c == d + e + e
  IN /\ At(t, p, Marker(Boundary)) /\ At(t, p + 4, eol) /\ At(t, s, disposition)
     /\ At(t, d, eol) /\ At(t, d + e, eol)
     /\ At(t, c, content) /\ At(t, c + Len(content), eol)

PartLength(disposition, content, eol) == 4 + Len(disposition) + Len(content) + 4 * Len(eol)

LEMMA PartStands ==
  ASSUME NEW t, IsSeq(t), NEW p \in Nat, p >= 1, NEW part, PartShape(part), NEW eol, IsSeq(eol),
         At(t, p, PartText(part, eol))
  PROVE  /\ Stands(t, p, Disposition(part), part.content, eol)
         /\ Len(PartText(part, eol)) = PartLength(Disposition(part), part.content, eol)
<1>. DEFINE e == Len(eol)
            nm == part.name
            ct == part.content
            m == Marker(Boundary)
            dw == DispositionWords
            q == <<Quote>>
            f == FileText(part)
            D == Disposition(part)
            h1 == m \o eol
            h2 == h1 \o dw
            h3 == h2 \o nm
            h4 == h3 \o q
            h5 == h4 \o f
            h6 == h5 \o eol
            h7 == h6 \o eol
            h8 == h7 \o ct
            h9 == h8 \o eol
            x1 == dw \o nm
            x2 == x1 \o q
<1>1. PartText(part, eol) = h9
  BY DEF PartText, Marker, DispositionWords, FileText, FileWords, Quote
<1>2. IsSeq(m) /\ Len(m) = 4 /\ IsSeq(dw) /\ IsSeq(q) /\ IsSeq(f) /\ IsSeq(D) /\ IsSeq(nm) /\ IsSeq(ct)
  BY WordShapes, TupleShape, DispositionShape DEF PartShape
<1>3. D = x2 \o f
  BY DEF Disposition
<1>. HIDE DEF m, dw, q, f, D, nm, ct
<1>4. /\ IsSeq(h1) /\ Len(h1) = Len(m) + Len(eol)
      /\ IsSeq(x1) /\ IsSeq(x2)
  BY <1>2, ConcatShape
<1>. HIDE DEF h1, x1, x2
<1>5. IsSeq(h2) /\ Len(h2) = Len(h1) + Len(dw) /\ Len(x1) = Len(dw) + Len(nm)
  BY <1>2, <1>4, ConcatShape DEF x1
<1>. HIDE DEF h2
<1>6. IsSeq(h3) /\ Len(h3) = Len(h2) + Len(nm) /\ Len(x2) = Len(x1) + Len(q)
  BY <1>2, <1>4, <1>5, ConcatShape DEF x2
<1>. HIDE DEF h3
<1>7. IsSeq(h4) /\ Len(h4) = Len(h3) + Len(q) /\ Len(D) = Len(x2) + Len(f)
  BY <1>2, <1>3, <1>4, <1>6, ConcatShape
<1>. HIDE DEF h4
<1>8. IsSeq(h5) /\ Len(h5) = Len(h4) + Len(f)
  BY <1>2, <1>7, ConcatShape
<1>. HIDE DEF h5
<1>9. IsSeq(h6) /\ Len(h6) = Len(h5) + Len(eol)
  BY <1>2, <1>8, ConcatShape
<1>. HIDE DEF h6
<1>10. IsSeq(h7) /\ Len(h7) = Len(h6) + Len(eol)
  BY <1>2, <1>9, ConcatShape
<1>. HIDE DEF h7
<1>11. IsSeq(h8) /\ Len(h8) = Len(h7) + Len(ct)
  BY <1>2, <1>10, ConcatShape
<1>. HIDE DEF h8
<1>12. Len(h9) = Len(h8) + Len(eol)
  BY <1>2, <1>11, ConcatShape
<1>13. /\ Len(eol) \in Nat /\ Len(dw) \in Nat /\ Len(nm) \in Nat /\ Len(q) \in Nat /\ Len(f) \in Nat
       /\ Len(D) \in Nat /\ Len(ct) \in Nat /\ Len(x1) \in Nat /\ Len(x2) \in Nat
       /\ Len(h1) \in Nat /\ Len(h2) \in Nat /\ Len(h3) \in Nat /\ Len(h4) \in Nat /\ Len(h5) \in Nat
       /\ Len(h6) \in Nat /\ Len(h7) \in Nat /\ Len(h8) \in Nat
  BY <1>2, <1>4, <1>5, <1>6, <1>7, <1>8, <1>9, <1>10, <1>11, SeqShape
<1>28. Len(h2) = Len(h1) + Len(dw) /\ Len(h3) = Len(h1) + Len(x1)
  BY <1>5, <1>6, <1>13
<1>29. Len(h4) = Len(h1) + Len(x2) /\ Len(h5) = Len(h1) + Len(D)
  <2>2. Len(h4) = Len(h3) + Len(q)
    BY <1>7
  <2>3. Len(x2) = Len(x1) + Len(q)
    BY <1>6
  <2>4. Len(h3) = Len(h1) + Len(x1)
    BY <1>28
  <2>5. Len(h1) \in Nat /\ Len(x1) \in Nat /\ Len(q) \in Nat
    BY <1>13
  <2>1. Len(h4) = Len(h1) + Len(x2)
    BY <2>2, <2>3, <2>4, <2>5
  <2>6. Len(h5) = Len(h4) + Len(f)
    BY <1>8
  <2>7. Len(D) = Len(x2) + Len(f)
    BY <1>7
  <2>8. Len(x2) \in Nat /\ Len(f) \in Nat
    BY <1>13
  <2>. QED
    BY <2>1, <2>5, <2>6, <2>7, <2>8
<1>14. /\ Len(h1) = 4 + e /\ Len(h5) = 4 + e + Len(D) /\ Len(h6) = 4 + e + Len(D) + e
       /\ Len(h7) = 4 + e + Len(D) + e + e /\ Len(h8) = 4 + e + Len(D) + e + e + Len(ct)
  <2>1. Len(h5) = Len(h1) + Len(D)
    BY <1>13, <1>29
  <2>. QED
    BY <2>1, <1>2, <1>4, <1>9, <1>10, <1>11, <1>13
<1>15. At(t, p, h8) /\ At(t, p + Len(h8), eol)
  <2>1. At(t, p, h8 \o eol)
    BY <1>1
  <2>. QED
    BY <1>11, <2>1, AtOfTwo
<1>16. At(t, p, h7) /\ At(t, p + Len(h7), ct)
  BY <1>2, <1>10, <1>15, AtOfTwo DEF h8
<1>17. At(t, p, h6) /\ At(t, p + Len(h6), eol)
  BY <1>9, <1>16, AtOfTwo DEF h7
<1>18. At(t, p, h5) /\ At(t, p + Len(h5), eol)
  BY <1>8, <1>17, AtOfTwo DEF h6
<1>19. At(t, p, h4) /\ At(t, p + Len(h4), f)
  BY <1>2, <1>7, <1>18, AtOfTwo DEF h5
<1>20. At(t, p, h3) /\ At(t, p + Len(h3), q)
  BY <1>2, <1>6, <1>19, AtOfTwo DEF h4
<1>21. At(t, p, h2) /\ At(t, p + Len(h2), nm)
  BY <1>2, <1>5, <1>20, AtOfTwo DEF h3
<1>22. At(t, p, h1) /\ At(t, p + Len(h1), dw)
  BY <1>2, <1>4, <1>21, AtOfTwo DEF h2
<1>23. At(t, p, m) /\ At(t, p + Len(m), eol)
  BY <1>2, <1>22, AtOfTwo DEF h1
<1>24. At(t, p + Len(h1), D)
  <2>. DEFINE s == p + Len(h1)
  <2>0. s \in Nat /\ s >= 1 /\ p + Len(h2) = s + Len(dw) /\ p + Len(h3) = s + Len(x1) /\ p + Len(h4) = s + Len(x2)
    BY <1>13, <1>28, <1>29
  <2>. HIDE DEF s
  <2>1. At(t, s, x1)
    BY <1>2, <1>21, <1>22, <2>0, AtOfTwo DEF x1, s
  <2>2. At(t, s, x2)
    BY <1>2, <1>4, <1>20, <2>0, <2>1, AtOfTwo DEF x2
  <2>3. At(t, s, x2 \o f)
    BY <1>2, <1>4, <1>19, <2>0, <2>2, AtOfTwo
  <2>. QED
    BY <1>3, <2>3 DEF s
<1>25. Len(PartText(part, eol)) = PartLength(D, ct, eol)
  <2>1. Len(h9) = 4 + Len(D) + Len(ct) + 4 * e
    BY <1>12, <1>13, <1>14
  <2>. QED
    BY <1>1, <2>1 DEF PartLength
<1>. DEFINE s == p + 4 + e
            d == s + Len(D)
            c == d + e + e
<1>26. /\ p + Len(m) = p + 4 /\ p + Len(h1) = s /\ p + Len(h5) = d /\ p + Len(h6) = d + e
       /\ p + Len(h7) = c /\ p + Len(h8) = c + Len(ct)
  BY <1>2, <1>13, <1>14
<1>27. At(t, p, m) /\ At(t, p + 4, eol) /\ At(t, s, D) /\ At(t, d, eol) /\ At(t, d + e, eol)
       /\ At(t, c, ct) /\ At(t, c + Len(ct), eol)
  BY <1>15, <1>16, <1>17, <1>18, <1>23, <1>24, <1>26
<1>. QED
  BY <1>25, <1>27 DEF Stands, m, D, ct, nm

IsLineEnd(eol) == eol = CRLF \/ eol = <<LF>>

LEMMA LineEndShape ==
  ASSUME NEW eol, IsLineEnd(eol)
  PROVE  /\ IsSeq(eol) /\ Len(eol) \in 1 .. 2
         /\ CR # LF /\ Len(CRLF) = 2 /\ CRLF[1] = CR /\ CRLF[2] = LF /\ IsSeq(CRLF)
         /\ Len(<<LF>>) = 1 /\ <<LF>>[1] = LF /\ IsSeq(<<LF>>)
         /\ \A k \in 1 .. Len(eol) : eol[k] \in {CR, LF}
<1>1. CR # LF
  BY DEF CR, LF
<1>2. IsSeq(CRLF) /\ IsSeq(<<LF>>)
  BY TupleShape DEF CRLF
<1>3. Len(CRLF) = 2 /\ CRLF[1] = CR /\ CRLF[2] = LF
  BY DEF CRLF
<1>4. Len(<<LF>>) = 1 /\ <<LF>>[1] = LF
  OBVIOUS
<1>5. CASE eol = CRLF
  <2>1. \A k \in 1 .. 2 : k = 1 \/ k = 2
    OBVIOUS
  <2>2. \A k \in 1 .. 2 : eol[k] \in {CR, LF}
    BY <1>3, <1>5, <2>1
  <2>3. Len(eol) = 2 /\ 2 \in 1 .. 2
    BY <1>3, <1>5
  <2>. QED
    BY <1>1, <1>2, <1>3, <1>4, <1>5, <2>2, <2>3
<1>6. CASE eol = <<LF>>
  BY <1>1, <1>2, <1>3, <1>4, <1>6
<1>. QED
  BY <1>5, <1>6 DEF IsLineEnd

LEMMA LineEndSkipped ==
  ASSUME NEW t, IsSeq(t), NEW p \in Nat, p >= 1, NEW eol, IsLineEnd(eol), At(t, p, eol),
         NEW w, IsSeq(w), Len(w) > 0, w[1] \notin {CR, LF}, At(t, p + Len(eol), w)
  PROVE  SkipLineEnd(t, p) = p + Len(eol)
<1>. DEFINE s == p + Len(eol)
<1>1. IsSeq(eol) /\ Len(eol) \in 1 .. 2 /\ CR # LF
  BY LineEndShape
<1>2. Len(t) \in Nat /\ s \in Nat /\ s >= 1 /\ Len(w) \in Nat
  BY <1>1, SeqShape
<1>3. s \in 1 .. Len(t) /\ t[s] = w[1] /\ t[s] \notin {CR, LF}
  <2>1. 1 \in 1 .. Len(w) /\ s + 1 - 1 = s /\ s + Len(w) - 1 <= Len(t)
    BY <1>2 DEF At
  <2>2. t[s + 1 - 1] = w[1]
    BY <2>1 DEF At
  <2>. QED
    BY <1>2, <2>1, <2>2
<1>4. \A i \in 1 .. Len(t), c \in {CR, LF} : StartsWith(t, i, <<c>>) <=> t[i] = c
  BY CharAt
<1>5. CASE eol = CRLF
  <2>1. Len(eol) = 2 /\ eol[1] = CR /\ eol[2] = LF
    BY <1>5, LineEndShape
  <2>2. p \in 1 .. Len(t) /\ p + 1 \in 1 .. Len(t) /\ t[p] = CR /\ t[p + 1] = LF /\ s = p + 2
    <3>1. 1 \in 1 .. Len(eol) /\ 2 \in 1 .. Len(eol) /\ p + 1 - 1 = p /\ p + 2 - 1 = p + 1
      BY <2>1
    <3>2. t[p + 1 - 1] = eol[1] /\ t[p + 2 - 1] = eol[2]
      BY <3>1 DEF At
    <3>. QED
      BY <1>3, <2>1, <3>1, <3>2
  <2>3. StartsWith(t, p, <<CR>>) /\ StartsWith(t, p + 1, <<LF>>)
    BY <1>4, <2>2
  <2>. QED
    BY <1>2, <2>2, <2>3 DEF SkipLineEnd
<1>6. CASE eol = <<LF>>
  <2>1. Len(eol) = 1 /\ eol[1] = LF
    BY <1>6, LineEndShape
  <2>2. p \in 1 .. Len(t) /\ t[p] = LF /\ s = p + 1
    <3>1. 1 \in 1 .. Len(eol) /\ p + 1 - 1 = p
      BY <2>1
    <3>2. t[p + 1 - 1] = eol[1]
      BY <3>1 DEF At
    <3>. QED
      BY <1>3, <2>1, <3>1, <3>2
  <2>3. ~StartsWith(t, p, <<CR>>) /\ StartsWith(t, p, <<LF>>)
    BY <1>1, <1>4, <2>2
  <2>. QED
    BY <2>2, <2>3 DEF SkipLineEnd
<1>. QED
  BY <1>5, <1>6 DEF IsLineEnd

NoLineEnd(w) == \A k \in 1 .. Len(w) : w[k] \notin {CR, LF}
NoBlankCrLf(t) == \A i \in 1 .. Len(t) : ~At(t, i, CRLF \o CRLF)

LEMMA BlankWords ==
  LET w == CRLF \o CRLF
  IN /\ IsSeq(w) /\ Len(w) = 4 /\ w[1] = CR /\ w[2] = LF /\ w[3] = CR /\ w[4] = LF
     /\ <<LF>> \o <<LF>> = <<LF, LF>> /\ IsSeq(<<LF, LF>>) /\ Len(<<LF, LF>>) = 2
     /\ <<LF, LF>>[1] = LF /\ <<LF, LF>>[2] = LF
<1>. DEFINE w == CRLF \o CRLF
            v == <<LF>> \o <<LF>>
            l == <<LF, LF>>
            o == <<LF>>
<1>1. IsLineEnd(CRLF)
  BY DEF IsLineEnd
<1>2. IsSeq(CRLF) /\ Len(CRLF) = 2 /\ CRLF[1] = CR /\ CRLF[2] = LF /\ IsSeq(o) /\ Len(o) = 1 /\ o[1] = LF
  BY <1>1, LineEndShape
<1>3. Len(CRLF) + Len(CRLF) = 4 /\ Len(o) + Len(o) = 2
  BY <1>2
<1>4. IsSeq(l) /\ Len(l) = 2 /\ l[1] = LF /\ l[2] = LF
  BY TupleShape
<1>5. /\ IsSeq(w) /\ Len(w) = Len(CRLF) + Len(CRLF)
      /\ \A i \in 1 .. Len(CRLF) + Len(CRLF) : w[i] = IF i <= Len(CRLF) THEN CRLF[i] ELSE CRLF[i - Len(CRLF)]
  BY <1>2, ConcatShape
<1>. HIDE DEF o, l
<1>6. /\ IsSeq(v) /\ Len(v) = Len(o) + Len(o)
      /\ \A i \in 1 .. Len(o) + Len(o) : v[i] = IF i <= Len(o) THEN o[i] ELSE o[i - Len(o)]
  BY <1>2, ConcatShape DEF o
<1>. HIDE DEF w, v
<1>7. Len(w) = 4 /\ \A i \in 1 .. 4 : w[i] = IF i <= 2 THEN CRLF[i] ELSE CRLF[i - 2]
  BY <1>2, <1>3, <1>5
<1>8. w[1] = CR /\ w[2] = LF /\ w[3] = CR /\ w[4] = LF
  BY <1>2, <1>7
<1>9. Len(v) = 2 /\ \A i \in 1 .. 2 : v[i] = IF i <= 1 THEN o[i] ELSE o[i - 1]
  BY <1>2, <1>3, <1>6
<1>10. v[1] = LF /\ v[2] = LF
  BY <1>2, <1>9
<1>11. \A i \in 1 .. 2 : v[i] = l[i]
  <2>1. \A i \in 1 .. 2 : i = 1 \/ i = 2
    OBVIOUS
  <2>. QED
    BY <1>4, <1>10, <2>1
<1>12. v = l
  BY <1>4, <1>6, <1>9, <1>11, SameShape
<1>. QED
  BY <1>4, <1>5, <1>7, <1>8, <1>12 DEF w, v, l

LEMMA HeadersEndRead ==
  ASSUME NEW t, IsSeq(t), NEW s \in Nat, s >= 1, NEW w, IsSeq(w), At(t, s, w), NoLineEnd(w),
         NEW eol, IsLineEnd(eol), At(t, s + Len(w), eol), At(t, s + Len(w) + Len(eol), eol),
         eol = <<LF>> => NoBlankCrLf(t)
  PROVE  HeadersEnd(t, s) = s + Len(w) + Len(eol) + Len(eol)
<1>. DEFINE d == s + Len(w)
            b == CRLF \o CRLF
            l == <<LF, LF>>
<1>1. IsSeq(eol) /\ Len(eol) \in 1 .. 2
  BY LineEndShape
<1>2. Len(t) \in Nat /\ Len(w) \in Nat /\ d \in Nat /\ d >= s /\ d >= 1 /\ d # npos
  BY SeqShape DEF npos
<1>3. At(t, d, eol \o eol)
  BY <1>1, <1>2, AtOfTwo
<1>4. \A i \in s .. d - 1 : t[i] \notin {CR, LF}
  <2>1. \A i \in s .. s + Len(w) - 1 : i - s + 1 \in 1 .. Len(w) /\ t[i] = w[i - s + 1]
    BY AtChars
  <2>. QED
    BY <2>1 DEF NoLineEnd
<1>5. IsSeq(b) /\ Len(b) = 4 /\ b[1] = CR /\ IsSeq(l) /\ Len(l) = 2 /\ l[1] = LF /\ <<LF>> \o <<LF>> = l
  BY BlankWords
<1>. HIDE DEF b, l
<1>9. Len(b) > 0 /\ Len(l) > 0
  BY <1>5
<1>10. ASSUME NEW v, IsSeq(v), Len(v) > 0, At(t, d, v), \A i \in s .. d - 1 : ~At(t, i, v) PROVE Find(t, v, s) = d
  <2>. HIDE DEF d
  <2>. QED
    BY <1>2, <1>10, FindAt
<1>6. \A i \in s .. d - 1 : ~At(t, i, b) /\ ~At(t, i, l)
  <2>. SUFFICES ASSUME NEW i \in s .. d - 1, At(t, i, b) \/ At(t, i, l) PROVE FALSE
    OBVIOUS
  <2>1. 1 \in 1 .. Len(b) /\ 1 \in 1 .. Len(l) /\ i \in Nat /\ i + 1 - 1 = i
    BY <1>2, <1>5
  <2>2. t[i + 1 - 1] = b[1] \/ t[i + 1 - 1] = l[1]
    BY <2>1 DEF At
  <2>. QED
    BY <1>4, <1>5, <2>1, <2>2
<1>7. CASE eol = CRLF
  <2>1. Find(t, b, s) = d
    <3>1. At(t, d, b)
      BY <1>3, <1>7 DEF b
    <3>. QED
      BY <1>5, <1>6, <1>9, <1>10, <3>1
  <2>2. Len(eol) = 2
    BY <1>7, LineEndShape
  <2>. QED
    BY <1>2, <2>1, <2>2 DEF HeadersEnd, b
<1>8. CASE eol = <<LF>>
  <2>1. Find(t, b, s) = npos
    <3>1. \A i \in s .. Len(t) : ~At(t, i, b)
      BY <1>2, <1>8 DEF NoBlankCrLf, b
    <3>. QED
      BY <1>5, <1>9, <3>1, FindAt
  <2>2. Find(t, l, s) = d
    <3>1. At(t, d, l)
      BY <1>3, <1>5, <1>8
    <3>. QED
      BY <1>5, <1>6, <1>9, <1>10, <3>1
  <2>3. Len(eol) = 1
    BY <1>8, LineEndShape
  <2>. QED
    BY <1>2, <2>1, <2>2, <2>3 DEF HeadersEnd, b, l
<1>. QED
  BY <1>7, <1>8 DEF IsLineEnd

HasNoMarker(w) == \A i \in 1 .. Len(w) : ~At(w, i, Marker(Boundary))

LEMMA MarkerFound ==
  ASSUME NEW t, IsSeq(t), NEW c \in Nat, c >= 1, NEW w, IsSeq(w), At(t, c, w), HasNoMarker(w),
         NEW eol, IsLineEnd(eol), At(t, c + Len(w), eol),
         At(t, c + Len(w) + Len(eol), Marker(Boundary))
  PROVE  Find(t, Marker(Boundary), c) = c + Len(w) + Len(eol)
<1>. DEFINE m == Marker(Boundary)
            z == c + Len(w) + Len(eol)
<1>1. IsSeq(eol) /\ Len(eol) \in 1 .. 2 /\ \A k \in 1 .. Len(eol) : eol[k] \in {CR, LF}
  BY LineEndShape
<1>2. IsSeq(m) /\ Len(m) = 4 /\ m[1] = "-" /\ m[2] = "-" /\ m[3] = "-" /\ m[4] = "b"
  <2>. DEFINE v == <<"-", "-", "-", "b">>
  <2>1. v[1] = "-" /\ v[2] = "-" /\ v[3] = "-" /\ v[4] = "b"
    OBVIOUS
  <2>2. m = v
    BY WordShapes
  <2>. HIDE DEF v
  <2>. QED
    BY <2>1, <2>2, WordShapes
<1>3. \A k \in 1 .. 4 : m[k] \notin {CR, LF}
  <2>1. \A k \in 1 .. 4 : k = 1 \/ k = 2 \/ k = 3 \/ k = 4
    OBVIOUS
  <2>2. "-" \notin {CR, LF} /\ "b" \notin {CR, LF}
    BY DEF CR, LF
  <2>. HIDE DEF m
  <2>. QED
    BY <1>2, <2>1, <2>2
<1>. HIDE DEF m
<1>4. Len(t) \in Nat /\ Len(w) \in Nat /\ z \in Nat /\ c <= z /\ c + Len(w) \in Nat /\ c + Len(w) >= 1
  BY <1>1, SeqShape
<1>5. \A i \in c .. c + Len(w) - 1 : i - c + 1 \in 1 .. Len(w) /\ t[i] = w[i - c + 1]
  BY AtChars
<1>6. \A i \in c + Len(w) .. z - 1 : t[i] \in {CR, LF}
  <2>1. \A i \in c + Len(w) .. c + Len(w) + Len(eol) - 1 :
          i - (c + Len(w)) + 1 \in 1 .. Len(eol) /\ t[i] = eol[i - (c + Len(w)) + 1]
    BY <1>1, <1>4, AtChars
  <2>. QED
    BY <1>1, <2>1
<1>7. ASSUME NEW i \in c .. z - 1, At(t, i, m) PROVE FALSE
  <2>1. i \in Nat /\ i >= 1
    BY <1>4
  <2>2. i + 3 <= Len(t) /\ \A k \in 1 .. 4 : t[i + k - 1] = m[k]
    BY <1>2, <1>7, <2>1 DEF At
  <2>3. CASE i + 3 <= c + Len(w) - 1
    <3>. DEFINE j == i - c + 1
    <3>1. j \in Nat /\ j \in 1 .. Len(w) /\ j + 4 - 1 <= Len(w)
      BY <1>4, <2>1, <2>3
    <3>2. ASSUME NEW k \in 1 .. 4 PROVE w[j + k - 1] = m[k]
      <4>1. i + k - 1 \in c .. c + Len(w) - 1 /\ (i + k - 1) - c + 1 = j + k - 1
        BY <1>4, <2>1, <2>3
      <4>2. t[i + k - 1] = w[(i + k - 1) - c + 1]
        BY <1>5, <4>1
      <4>. QED
        BY <2>2, <4>1, <4>2
    <3>3. At(w, j, m)
      BY <1>2, <3>1, <3>2 DEF At
    <3>. QED
      BY <3>1, <3>3 DEF HasNoMarker, m
  <2>4. CASE ~(i + 3 <= c + Len(w) - 1)
    <3>1. \E k \in 1 .. 4 : i + k - 1 \in c + Len(w) .. z - 1
      <4>1. CASE i >= c + Len(w)
        <5>1. 1 \in 1 .. 4 /\ i + 1 - 1 \in c + Len(w) .. z - 1
          BY <1>4, <2>1, <4>1
        <5>. QED
          BY <5>1
      <4>2. CASE ~(i >= c + Len(w))
        <5>. DEFINE k == c + Len(w) - i + 1
        <5>1. k \in 1 .. 4 /\ i + k - 1 = c + Len(w) /\ c + Len(w) \in c + Len(w) .. z - 1
          BY <1>1, <1>4, <2>1, <2>4, <4>2
        <5>. QED
          BY <5>1
      <4>. QED
        BY <4>1, <4>2
    <3>. QED
      BY <1>3, <1>6, <2>2, <3>1
  <2>. QED
    BY <2>3, <2>4
<1>8. Find(t, m, c) = z
  <2>1. At(t, z, m)
    BY DEF m
  <2>. HIDE DEF z
  <2>. QED
    BY <1>2, <1>4, <1>7, <2>1, FindAt
<1>. QED
  BY <1>8 DEF m

-----------------------------------------------------------------------------
(***************************************************************************)
(* The line Content-Disposition of a part, and its content.                *)
(***************************************************************************)

(* What getline leaves of the end of a line. *)
LineTail(eol) == IF eol = CRLF THEN <<CR>> ELSE <<>>
DispositionKey == <<"Content-Disposition", ":">>

LEMMA LineRead ==
  ASSUME NEW t, IsSeq(t), NEW s \in Nat, s >= 1, NEW w, IsSeq(w), At(t, s, w), NoLineEnd(w),
         At(w, 1, DispositionKey),
         NEW eol, IsLineEnd(eol), At(t, s + Len(w), eol)
  PROVE  /\ IsSeq(LineTail(eol)) /\ \A i \in 1 .. Len(LineTail(eol)) : LineTail(eol)[i] = CR
         /\ HeaderLine(SubSeq(t, s, s + Len(w) + Len(eol) + Len(eol) - 3), DispositionKey) = w \o LineTail(eol)
<1>. DEFINE key == DispositionKey
            h == SubSeq(t, s, s + Len(w) + Len(eol) + Len(eol) - 3)
            cr == <<CR>>
            lf == <<LF>>
            none == <<>>
            tail == LineTail(eol)
<1>1. IsSeq(eol) /\ IsSeq(cr) /\ IsSeq(lf) /\ IsSeq(none) /\ IsSeq(key) /\ Len(key) = 2 /\ Len(cr) = 1
      /\ cr[1] = CR /\ Len(none) = 0
  BY LineEndShape, TupleShape DEF DispositionKey
<1>2. IsSeq(tail) /\ \A i \in 1 .. Len(tail) : tail[i] = CR
  <2>1. \A i \in 1 .. 1 : i = 1
    OBVIOUS
  <2>2. tail = cr \/ tail = none
    BY DEF LineTail
  <2>3. \A i \in 1 .. Len(cr) : cr[i] = CR
    BY <1>1, <2>1
  <2>4. \A i \in 1 .. Len(none) : none[i] = CR
    BY <1>1
  <2>. HIDE DEF tail, cr, none
  <2>. QED
    BY <1>1, <2>2, <2>3, <2>4
<1>. HIDE DEF cr, lf, none, tail, key
<1>3. Len(w) \in Nat /\ Len(key) > 0 /\ 1 \in Nat
  BY <1>1, SeqShape
<1>4. ASSUME NEW v, IsSeq(v), At(v, 1, key) PROVE Find(v, key, 1) = 1
  <2>. DEFINE p == 1
  <2>1. p \in Nat /\ p >= 1 /\ p <= p /\ At(v, p, key) /\ \A i \in p .. p - 1 : ~At(v, i, key)
    BY <1>4
  <2>. HIDE DEF p
  <2>2. Find(v, key, p) = p
    BY <1>1, <1>3, <1>4, <2>1, FindAt
  <2>. QED
    BY <2>2 DEF p
<1>5. CASE eol = CRLF
  <2>1. Len(eol) = 2 /\ s + Len(w) + Len(eol) + Len(eol) - 3 = s + (Len(w) + Len(eol)) - 1
    <3>1. Len(eol) = 2
      BY <1>5, LineEndShape
    <3>. QED
      BY <1>3, <3>1
  <2>2. h = w \o eol
    <3>1. At(t, s, w \o eol)
      BY <1>1, AtOfTwo
    <3>2. IsSeq(w \o eol) /\ Len(w \o eol) = Len(w) + Len(eol)
      BY <1>1, ConcatShape
    <3>3. SubSeq(t, s, s + Len(w \o eol) - 1) = w \o eol
      BY <3>1, <3>2, AtCut
    <3>. QED
      BY <2>1, <3>2, <3>3
  <2>. HIDE DEF h
  <2>3. /\ IsSeq(h) /\ Len(h) = Len(w) + 2 /\ (\A i \in 1 .. Len(w) : h[i] = w[i])
        /\ h[Len(w) + 1] = CR /\ h[Len(w) + 2] = LF
    <3>1. /\ IsSeq(h) /\ Len(h) = Len(w) + Len(eol)
          /\ \A i \in 1 .. Len(w) + Len(eol) : h[i] = IF i <= Len(w) THEN w[i] ELSE eol[i - Len(w)]
      BY <1>1, <2>2, ConcatShape
    <3>2. eol[1] = CR /\ eol[2] = LF
      BY <1>5, LineEndShape
    <3>3. Len(w) + 1 \in 1 .. Len(w) + Len(eol) /\ Len(w) + 2 \in 1 .. Len(w) + Len(eol)
          /\ ~(Len(w) + 1 <= Len(w)) /\ ~(Len(w) + 2 <= Len(w)) /\ Len(w) + 1 - Len(w) = 1 /\ Len(w) + 2 - Len(w) = 2
          /\ \A i \in 1 .. Len(w) : i \in 1 .. Len(w) + Len(eol) /\ i <= Len(w)
      BY <1>3, <2>1
    <3>4. h[Len(w) + 1] = eol[1] /\ h[Len(w) + 2] = eol[2]
      BY <3>1, <3>3
    <3>5. \A i \in 1 .. Len(w) : h[i] = w[i]
      BY <3>1, <3>3
    <3>. QED
      BY <2>1, <3>1, <3>2, <3>4, <3>5
  <2>4. Find(h, key, 1) = 1
    <3>1. At(w \o eol, 1, key)
      BY <1>1, <1>3, AtOfLonger DEF key
    <3>. QED
      BY <1>4, <2>2, <2>3, <3>1
  <2>5. Find(h, lf, 1) = Len(w) + 2
    <3>. DEFINE p == Len(w) + 2
    <3>1. p \in Nat /\ 1 <= p /\ p \in 1 .. Len(h) /\ \A i \in 1 .. p - 1 : i \in 1 .. Len(h) /\ (i \in 1 .. Len(w) \/ i = Len(w) + 1)
      BY <1>3, <2>3
    <3>2. \A i \in 1 .. p - 1 : h[i] # LF
      BY <2>3, <3>1, LineEndShape DEF NoLineEnd
    <3>3. \A i \in 1 .. Len(h) : At(h, i, lf) <=> h[i] = LF
      BY <2>3, CharAt DEF lf
    <3>4. At(h, p, lf) /\ \A i \in 1 .. p - 1 : ~At(h, i, lf)
      BY <2>3, <3>1, <3>2, <3>3
    <3>5. Len(lf) > 0
      BY DEF lf
    <3>. HIDE DEF p
    <3>6. Find(h, lf, 1) = p
      BY <1>1, <1>3, <2>3, <3>1, <3>4, <3>5, FindAt
    <3>. QED
      BY <3>6 DEF p
  <2>6. tail = cr
    BY <1>5 DEF tail, LineTail, cr
  <2>7. SubSeq(h, 1, Len(w) + 1) = w \o cr
    <3>. DEFINE q == SubSeq(h, 1, Len(w) + 1)
                r == w \o cr
    <3>1. IsSeq(q) /\ Len(q) = Len(w) + 1 /\ \A i \in 1 .. Len(w) + 1 : q[i] = h[i]
      <4>1. Len(w) + 1 \in 0 .. Len(h)
        BY <1>3, <2>3
      <4>. QED
        BY <2>3, <4>1, FirstShape
    <3>2. IsSeq(r) /\ Len(r) = Len(w) + Len(cr) /\ \A i \in 1 .. Len(w) + Len(cr) : r[i] = IF i <= Len(w) THEN w[i] ELSE cr[i - Len(w)]
      BY <1>1, ConcatShape
    <3>. HIDE DEF q, r
    <3>3. ASSUME NEW i \in 1 .. Len(w) + 1 PROVE q[i] = r[i]
      <4>1. i \in 1 .. Len(w) + Len(cr) /\ (i <= Len(w) => i \in 1 .. Len(w))
            /\ (~(i <= Len(w)) => i = Len(w) + 1 /\ i - Len(w) = 1)
        BY <1>1, <1>3
      <4>. QED
        BY <1>1, <2>3, <3>1, <3>2, <4>1
    <3>4. Len(r) = Len(w) + 1
      BY <1>1, <3>2
    <3>5. q = r
      BY <3>1, <3>2, <3>3, <3>4, SameShape
    <3>. QED
      BY <3>5 DEF q, r
  <2>8. OrEnd(Find(h, lf, 1), h) - 1 = Len(w) + 1 /\ Find(h, key, 1) # npos
    BY <1>3, <2>4, <2>5 DEF OrEnd, npos
  <2>9. HeaderLine(h, key) = SubSeq(h, Find(h, key, 1), OrEnd(Find(h, lf, Find(h, key, 1)), h) - 1)
    BY <2>8 DEF HeaderLine, lf
  <2>10. HeaderLine(h, key) = w \o tail
    BY <2>4, <2>6, <2>7, <2>8, <2>9
  <2>. QED
    BY <1>2, <2>10 DEF h, key, tail
<1>6. CASE eol = lf
  <2>1. Len(eol) = 1 /\ s + Len(w) + Len(eol) + Len(eol) - 3 = s + Len(w) - 1
    <3>1. Len(eol) = 1
      BY <1>6, LineEndShape DEF lf
    <3>. QED
      BY <1>3, <3>1
  <2>2. h = w
    <3>1. SubSeq(t, s, s + Len(w) - 1) = w
      BY AtCut
    <3>. QED
      BY <2>1, <3>1
  <2>. HIDE DEF h
  <2>3. Find(h, key, 1) = 1
    BY <1>4, <2>2 DEF key
  <2>4. Find(h, lf, 1) = npos
    <3>1. \A i \in 1 .. Len(w) : w[i] # LF
      BY DEF NoLineEnd
    <3>2. \A i \in 1 .. Len(w) : At(w, i, lf) <=> w[i] = LF
      BY CharAt DEF lf
    <3>3. \A i \in 1 .. Len(w) : ~At(w, i, lf)
      BY <3>1, <3>2
    <3>4. Len(lf) > 0
      BY DEF lf
    <3>. QED
      BY <1>1, <1>3, <2>2, <3>3, <3>4, FindAt
  <2>5. tail = none /\ w \o none = w
    <3>1. Len(lf) # Len(CRLF)
      BY LineEndShape DEF lf
    <3>2. tail = none
      BY <1>6, <3>1 DEF tail, LineTail, none
    <3>. QED
      BY <3>2, ConcatOfNone DEF none
  <2>6. OrEnd(Find(h, lf, 1), h) - 1 = Len(w) /\ Find(h, key, 1) # npos
    BY <1>3, <2>2, <2>3, <2>4 DEF OrEnd, npos
  <2>7. HeaderLine(h, key) = SubSeq(h, Find(h, key, 1), OrEnd(Find(h, lf, Find(h, key, 1)), h) - 1)
    BY <2>6 DEF HeaderLine, lf
  <2>8. SubSeq(w, 1, Len(w)) = w
    <3>1. At(w, 1, w) /\ 1 + Len(w) - 1 = Len(w)
      BY <1>3 DEF At
    <3>. QED
      BY <1>3, <3>1, AtCut
  <2>9. HeaderLine(h, key) = w \o tail
    BY <2>2, <2>3, <2>5, <2>6, <2>7, <2>8
  <2>. QED
    BY <1>2, <2>9 DEF h, key, tail
<1>. QED
  BY <1>5, <1>6 DEF IsLineEnd, lf

(* The content of a part is what stands before the line end of its boundary. *)
LEMMA ContentRead ==
  ASSUME NEW w, IsSeq(w), NEW eol, IsLineEnd(eol), eol = <<LF>> => ~EndsIn(w, CR)
  PROVE  ContentOf(w \o eol) = w
<1>. DEFINE z == w \o eol
            n == Len(z)
            lf == <<LF>>
<1>1. IsSeq(eol) /\ CR # LF /\ Len(w) \in Nat /\ IsSeq(lf) /\ Len(lf) = 1
  BY LineEndShape, SeqShape
<1>2. /\ IsSeq(z) /\ n = Len(w) + Len(eol)
      /\ \A i \in 1 .. Len(w) + Len(eol) : z[i] = IF i <= Len(w) THEN w[i] ELSE eol[i - Len(w)]
  BY <1>1, ConcatShape
<1>. HIDE DEF z, lf
<1>3. ASSUME NEW v, IsSeq(v), NEW k \in Nat, k <= Len(v), k <= Len(w), \A i \in 1 .. k : v[i] = w[i], k = Len(w) PROVE SubSeq(v, 1, k) = w
  <2>1. Len(v) \in Nat /\ k \in 0 .. Len(v)
    BY <1>3, SeqShape
  <2>2. IsSeq(SubSeq(v, 1, k)) /\ Len(SubSeq(v, 1, k)) = k /\ \A i \in 1 .. k : SubSeq(v, 1, k)[i] = v[i]
    BY <1>3, <2>1, FirstShape
  <2>. QED
    BY <1>3, <2>2, SameShape
<1>4. \A i \in 1 .. Len(w) : z[i] = w[i]
  <2>1. Len(eol) \in Nat
    BY <1>1, SeqShape
  <2>2. \A i \in 1 .. Len(w) : i \in 1 .. Len(w) + Len(eol) /\ i <= Len(w)
    BY <1>1, <2>1
  <2>. QED
    BY <1>2, <2>2
<1>5. CASE eol = CRLF
  <2>1. Len(eol) = 2 /\ eol[1] = CR /\ eol[2] = LF
    BY <1>5, LineEndShape
  <2>2. n = Len(w) + 2 /\ n - 1 = Len(w) + 1 /\ n - 2 = Len(w) /\ n - 1 \in 0 .. Len(z)
    BY <1>1, <1>2, <2>1
  <2>3. z[n] = LF /\ z[n - 1] = CR
    <3>1. /\ n \in 1 .. Len(w) + Len(eol) /\ ~(n <= Len(w)) /\ n - Len(w) = 2
          /\ n - 1 \in 1 .. Len(w) + Len(eol) /\ ~(n - 1 <= Len(w)) /\ n - 1 - Len(w) = 1
      BY <1>1, <2>1, <2>2
    <3>2. z[n] = eol[n - Len(w)] /\ z[n - 1] = eol[n - 1 - Len(w)]
      BY <1>2, <3>1
    <3>. QED
      BY <2>1, <3>1, <3>2
  <2>4. z # <<>> /\ EndsIn(z, LF)
    <3>1. z # <<>>
      BY <1>1, <1>2, <2>2, SeqShape
    <3>. QED
      BY <2>3, <3>1 DEF EndsIn, IsEmpty
  <2>. DEFINE v == SubSeq(z, 1, n - 1)
  <2>5. Without(z, LF) = v
    BY <2>4 DEF Without
  <2>6. IsSeq(v) /\ Len(v) = n - 1 /\ \A i \in 1 .. n - 1 : v[i] = z[i]
    BY <1>2, <2>2, FirstShape
  <2>. HIDE DEF v
  <2>7. v # <<>> /\ v[Len(v)] = CR
    <3>1. n - 1 \in 1 .. n - 1 /\ Len(v) > 0
      BY <1>1, <2>2, <2>6
    <3>2. v # <<>>
      BY <2>6, <3>1, SeqShape
    <3>. QED
      BY <2>3, <2>6, <3>1, <3>2
  <2>8. EndsIn(Without(z, LF), CR) /\ EndsIn(z, LF)
    BY <2>4, <2>5, <2>7 DEF EndsIn, IsEmpty
  <2>9. ContentOf(z) = SubSeq(z, 1, n - 2)
    BY <2>8 DEF ContentOf
  <2>10. SubSeq(z, 1, n - 2) = w
    <3>1. Len(w) \in Nat /\ Len(w) <= Len(z) /\ Len(w) <= Len(w)
      BY <1>1, <2>2
    <3>2. SubSeq(z, 1, Len(w)) = w
      BY <1>2, <1>3, <1>4, <3>1
    <3>. QED
      BY <2>2, <3>2
  <2>. QED
    BY <2>9, <2>10 DEF z
<1>6. CASE eol = lf
  <2>1. Len(eol) = 1 /\ eol[1] = LF
    BY <1>6 DEF lf
  <2>2. n = Len(w) + 1 /\ n - 1 = Len(w)
    BY <1>1, <1>2, <2>1
  <2>3. z[n] = LF
    <3>1. n \in 1 .. Len(w) + Len(eol) /\ ~(n <= Len(w)) /\ n - Len(w) = 1
      BY <1>1, <2>1, <2>2
    <3>2. z[n] = eol[n - Len(w)]
      BY <1>2, <3>1
    <3>. QED
      BY <2>1, <3>1, <3>2
  <2>4. z # <<>> /\ EndsIn(z, LF)
    <3>1. z # <<>>
      BY <1>1, <1>2, <2>2, SeqShape
    <3>. QED
      BY <2>3, <3>1 DEF EndsIn, IsEmpty
  <2>5. Without(z, LF) = SubSeq(z, 1, n - 1)
    BY <2>4 DEF Without
  <2>6. SubSeq(z, 1, n - 1) = w
    <3>1. Len(w) \in Nat /\ Len(w) <= Len(z) /\ Len(w) <= Len(w)
      BY <1>1, <2>2
    <3>2. SubSeq(z, 1, Len(w)) = w
      BY <1>2, <1>3, <1>4, <3>1
    <3>. QED
      BY <2>2, <3>2
  <2>7. ~EndsIn(Without(z, LF), CR)
    BY <1>6, <2>5, <2>6 DEF lf
  <2>. QED
    BY <2>5, <2>6, <2>7 DEF ContentOf, z
<1>. QED
  BY <1>5, <1>6 DEF IsLineEnd, lf

LEMMA QuoteIs ==
  /\ Quote # CR /\ Quote # LF /\ Quote # "file" /\ Quote # "name" /\ Quote # "=" /\ Quote # ";" /\ Quote # " " /\ Quote # "\t"
<1>1. Quote # CR
  BY Zenon DEF Quote, CR
<1>2. Quote # LF
  BY Zenon DEF Quote, LF
<1>3. Quote # "file" /\ Quote # "name" /\ Quote # "=" /\ Quote # ";" /\ Quote # " " /\ Quote # "\t"
  BY Zenon DEF Quote
<1>. QED
  BY <1>1, <1>2, <1>3

NameKey == <<"name", "=">>
FileKey == <<"file", "name", "=">>

(* The pieces of the header line of a part: the name, the text of the file name, and what getline leaves. *)
LineOf(name, f, tail) == (((DispositionWords \o name) \o <<Quote>>) \o f) \o tail

LEMMA LinePieces ==
  ASSUME NEW name, IsSeq(name), NEW f, IsSeq(f), NEW tail, IsSeq(tail)
  PROVE  LET l == LineOf(name, f, tail)
         IN /\ IsSeq(l) /\ Len(l) = 10 + Len(name) + Len(f) + Len(tail)
            /\ Len(name) \in Nat /\ Len(f) \in Nat /\ Len(tail) \in Nat
            /\ At(l, 1, DispositionWords) /\ At(l, 10, name) /\ At(l, 10 + Len(name), <<Quote>>)
            /\ At(l, 11 + Len(name), f) /\ At(l, 11 + Len(name) + Len(f), tail)
<1>. DEFINE a == DispositionWords
            q == <<Quote>>
            x1 == a \o name
            x2 == x1 \o q
            x3 == x2 \o f
            l == x3 \o tail
<1>1. IsSeq(a) /\ Len(a) = 9 /\ IsSeq(q) /\ Len(q) = 1
  BY WordShapes, TupleShape
<1>2. LineOf(name, f, tail) = l
  BY DEF LineOf
<1>. HIDE DEF a, q
<1>3. Len(name) \in Nat /\ Len(f) \in Nat /\ Len(tail) \in Nat
  BY SeqShape
<1>4. IsSeq(x1) /\ Len(x1) = Len(a) + Len(name)
  BY <1>1, ConcatShape
<1>. HIDE DEF x1
<1>5. IsSeq(x2) /\ Len(x2) = Len(x1) + Len(q)
  BY <1>1, <1>4, ConcatShape
<1>. HIDE DEF x2
<1>6. IsSeq(x3) /\ Len(x3) = Len(x2) + Len(f)
  BY <1>5, ConcatShape
<1>. HIDE DEF x3
<1>7. IsSeq(l) /\ Len(l) = Len(x3) + Len(tail)
  BY <1>6, ConcatShape
<1>. HIDE DEF l
<1>8. Len(x1) = 9 + Len(name) /\ Len(x2) = 10 + Len(name) /\ Len(x3) = 10 + Len(name) + Len(f)
      /\ Len(l) = 10 + Len(name) + Len(f) + Len(tail)
  BY <1>1, <1>3, <1>4, <1>5, <1>6, <1>7
<1>. DEFINE p == 1
<1>9. At(l, p, l) /\ p \in Nat /\ p >= 1
  BY <1>7, SeqShape DEF At
<1>. HIDE DEF p
<1>10. At(l, p, x3) /\ At(l, p + Len(x3), tail)
  BY <1>6, <1>7, <1>9, AtOfTwo DEF l
<1>11. At(l, p, x2) /\ At(l, p + Len(x2), f)
  BY <1>5, <1>7, <1>9, <1>10, AtOfTwo DEF x3
<1>12. At(l, p, x1) /\ At(l, p + Len(x1), q)
  BY <1>1, <1>4, <1>7, <1>9, <1>11, AtOfTwo DEF x2
<1>13. At(l, p, a) /\ At(l, p + Len(a), name)
  BY <1>1, <1>7, <1>9, <1>12, AtOfTwo DEF x1
<1>14. /\ p = 1 /\ p + Len(a) = 10 /\ p + Len(x1) = 10 + Len(name) /\ p + Len(x2) = 11 + Len(name)
       /\ p + Len(x3) = 11 + Len(name) + Len(f)
  BY <1>1, <1>3, <1>8 DEF p
<1>. QED
  BY <1>2, <1>3, <1>7, <1>8, <1>10, <1>11, <1>12, <1>13, <1>14 DEF a, q

LEMMA DispositionChars ==
  /\ DispositionWords[1] = "Content-Disposition" /\ DispositionWords[2] = ":" /\ DispositionWords[3] = " "
  /\ DispositionWords[4] = "form-data" /\ DispositionWords[5] = ";" /\ DispositionWords[6] = " "
  /\ DispositionWords[7] = "name" /\ DispositionWords[8] = "=" /\ DispositionWords[9] = Quote
  /\ \A i \in 1 .. 9 : i \in {1, 2, 3, 4, 5, 6, 7, 8, 9}
  /\ \A i \in 1 .. 9 : DispositionWords[i] \notin {"file", CR, LF}
  /\ \A i \in 1 .. 6 : DispositionWords[i] # "name"
<1>. DEFINE w == DispositionWords
<1>1. /\ w[1] = "Content-Disposition" /\ w[2] = ":" /\ w[3] = " "
      /\ w[4] = "form-data" /\ w[5] = ";" /\ w[6] = " "
      /\ w[7] = "name" /\ w[8] = "=" /\ w[9] = Quote
  BY DEF DispositionWords
<1>. HIDE DEF w
<1>2. \A i \in 1 .. 9 : i \in {1, 2, 3, 4, 5, 6, 7, 8, 9}
  OBVIOUS
<1>3. \A i \in 1 .. 9 : w[i] \notin {"file", CR, LF}
  BY <1>1, <1>2, QuoteIs DEF CR, LF
<1>4. \A i \in 1 .. 6 : i \in {1, 2, 3, 4, 5, 6}
  OBVIOUS
<1>5. \A i \in 1 .. 6 : w[i] # "name"
  BY <1>1, <1>4
<1>. QED
  BY <1>1, <1>2, <1>3, <1>5 DEF w

LEMMA KeyShapes ==
  /\ IsSeq(NameKey) /\ Len(NameKey) = 2 /\ NameKey[1] = "name" /\ NameKey[2] = "="
  /\ IsSeq(FileKey) /\ Len(FileKey) = 3 /\ FileKey[1] = "file" /\ FileKey[2] = "name" /\ FileKey[3] = "="
  /\ IsSeq(DispositionKey) /\ Len(DispositionKey) = 2
  /\ DispositionKey[1] = "Content-Disposition" /\ DispositionKey[2] = ":"
<1>1. IsSeq(NameKey) /\ IsSeq(FileKey) /\ IsSeq(DispositionKey)
  BY TupleShape DEF NameKey, FileKey, DispositionKey
<1>2. Len(NameKey) = 2 /\ NameKey[1] = "name" /\ NameKey[2] = "="
  BY DEF NameKey
<1>3. Len(FileKey) = 3 /\ FileKey[1] = "file" /\ FileKey[2] = "name" /\ FileKey[3] = "="
  BY DEF FileKey
<1>4. Len(DispositionKey) = 2 /\ DispositionKey[1] = "Content-Disposition" /\ DispositionKey[2] = ":"
  BY DEF DispositionKey
<1>. QED
  BY <1>1, <1>2, <1>3, <1>4

LEMMA KeysStand ==
  ASSUME NEW l, IsSeq(l), At(l, 1, DispositionWords)
  PROVE  /\ At(l, 7, NameKey) /\ At(l, 1, DispositionKey)
         /\ \A i \in 1 .. 9 : i \in 1 .. Len(l) /\ l[i] = DispositionWords[i]
<1>1. IsSeq(DispositionWords) /\ Len(DispositionWords) = 9
  BY WordShapes
<1>2. 1 \in Nat /\ 1 >= 1 /\ 1 + 9 - 1 = 9 /\ \A i \in 1 .. 9 : i - 1 + 1 = i
  OBVIOUS
<1>3. Len(l) \in Nat /\ 9 <= Len(l) /\ \A i \in 1 .. 9 : l[i] = DispositionWords[i]
  <2>1. Len(l) \in Nat
    BY SeqShape
  <2>2. 9 <= Len(l)
    BY <1>1, <1>2, <2>1 DEF At
  <2>3. ASSUME NEW i \in 1 .. 9 PROVE l[i] = DispositionWords[i]
    <3>1. l[1 + i - 1] = DispositionWords[i]
      BY <1>1 DEF At
    <3>. QED
      BY <3>1
  <2>. QED
    BY <2>1, <2>2, <2>3
<1>4. l[7] = "name" /\ l[8] = "=" /\ l[1] = "Content-Disposition" /\ l[2] = ":"
  <2>1. 1 \in 1 .. 9 /\ 2 \in 1 .. 9 /\ 7 \in 1 .. 9 /\ 8 \in 1 .. 9
    OBVIOUS
  <2>. QED
    BY <1>3, <2>1, DispositionChars
<1>5. \A k \in 1 .. 2 : k = 1 \/ k = 2
  OBVIOUS
<1>6. At(l, 7, NameKey)
  <2>1. \A k \in 1 .. 2 : l[7 + k - 1] = NameKey[k]
    BY <1>4, <1>5, KeyShapes
  <2>. QED
    BY <1>3, <2>1, KeyShapes DEF At
<1>7. At(l, 1, DispositionKey)
  <2>1. \A k \in 1 .. 2 : l[1 + k - 1] = DispositionKey[k]
    BY <1>4, <1>5, KeyShapes
  <2>. QED
    BY <1>3, <2>1, KeyShapes DEF At
<1>. QED
  BY <1>3, <1>6, <1>7

-----------------------------------------------------------------------------
(***************************************************************************)
(* The name and the file name, in quotes and without.                      *)
(***************************************************************************)

(* The value in quotes that stands behind the key. *)
LEMMA QuotedRead ==
  ASSUME NEW l, IsSeq(l), NEW key, IsSeq(key), NEW p \in Nat, p >= 1, Find(l, key, 1) = p,
         NEW w, IsSeq(w), \A k \in 1 .. Len(w) : w[k] # Quote,
         At(l, p + Len(key), <<Quote>>), At(l, p + Len(key) + 1, w), At(l, p + Len(key) + 1 + Len(w), <<Quote>>)
  PROVE  Parameter(l, key) = w
<1>. DEFINE q == <<Quote>>
            s == p + Len(key)
            e == s + 1 + Len(w)
<1>1. Len(l) \in Nat /\ Len(key) \in Nat /\ Len(w) \in Nat /\ IsSeq(q) /\ Len(q) = 1
  BY SeqShape, TupleShape
<1>2. s \in Nat /\ s >= 1 /\ e \in Nat /\ s + 1 \in Nat /\ s + 1 >= 1 /\ s + 1 <= e /\ e >= 1
  BY <1>1
<1>3. \A i \in 1 .. Len(l) : At(l, i, q) <=> l[i] = Quote
  BY CharAt
<1>4. At(l, s, q) /\ At(l, s + 1, w) /\ At(l, e, q)
  OBVIOUS
<1>. HIDE DEF q
<1>5. s \in 1 .. Len(l) /\ e \in 1 .. Len(l)
  BY <1>1, <1>2, <1>4 DEF At
<1>6. l[s] = Quote
  BY <1>3, <1>4, <1>5
<1>. HIDE DEF s
<1>7. \A i \in s + 1 .. e - 1 : ~At(l, i, q)
  <2>1. \A i \in s + 1 .. s + 1 + Len(w) - 1 : i \in 1 .. Len(l) /\ i - (s + 1) + 1 \in 1 .. Len(w) /\ l[i] = w[i - (s + 1) + 1]
    <3>. DEFINE a == s + 1
    <3>1. a \in Nat /\ a >= 1 /\ At(l, a, w)
      BY <1>2, <1>4
    <3>. HIDE DEF a
    <3>2. \A i \in a .. a + Len(w) - 1 : i \in 1 .. Len(l) /\ i - a + 1 \in 1 .. Len(w) /\ l[i] = w[i - a + 1]
      BY <3>1, AtChars
    <3>. QED
      BY <3>2 DEF a
  <2>3. e = s + 1 + Len(w)
    OBVIOUS
  <2>2. \A i \in s + 1 .. e - 1 : i \in 1 .. Len(l) /\ l[i] # Quote
    <3>. SUFFICES ASSUME NEW i \in s + 1 .. e - 1 PROVE i \in 1 .. Len(l) /\ l[i] # Quote
      OBVIOUS
    <3>1. i \in s + 1 .. s + 1 + Len(w) - 1
      BY <1>1, <1>2, <2>3
    <3>2. i \in 1 .. Len(l) /\ i - (s + 1) + 1 \in 1 .. Len(w) /\ l[i] = w[i - (s + 1) + 1]
      BY <2>1, <3>1
    <3>. QED
      BY <3>2
  <2>. QED
    BY <1>3, <2>2
<1>8. Find(l, q, s + 1) = e
  <2>. DEFINE r == s + 1
  <2>1. r \in Nat /\ r >= 1 /\ r <= e /\ At(l, e, q) /\ e \in Nat /\ Len(q) > 0 /\ \A i \in r .. e - 1 : ~At(l, i, q)
    BY <1>1, <1>2, <1>4, <1>7
  <2>. HIDE DEF r, e
  <2>2. Find(l, q, r) = e
    BY <1>1, <2>1, FindAt
  <2>. QED
    BY <2>2 DEF r
<1>9. SubSeq(l, s + 1, e - 1) = w
  <2>1. SubSeq(l, s + 1, s + 1 + Len(w) - 1) = w
    BY <1>2, <1>4, AtCut
  <2>2. s + 1 + Len(w) - 1 = e - 1
    BY <1>1, <1>2
  <2>. QED
    BY <2>1, <2>2
<1>10. p # npos /\ ~(s > Len(l)) /\ e # npos
  BY <1>1, <1>2, <1>5 DEF npos
<1>11. Parameter(l, key) =
         IF p = npos \/ s > Len(l) THEN <<>>
         ELSE IF l[s] = Quote THEN IF Find(l, q, s + 1) = npos THEN <<>> ELSE SubSeq(l, s + 1, Find(l, q, s + 1) - 1)
         ELSE Trim(SubSeq(l, s, OrEnd(Find(l, <<";">>, s), l) - 1))
  BY Zenon DEF Parameter, q, s, Quote
<1>. HIDE DEF e
<1>. QED
  BY <1>6, <1>8, <1>9, <1>10, <1>11

LEMMA NameRead ==
  ASSUME NEW name, IsSeq(name), NEW f, IsSeq(f), NEW tail, IsSeq(tail), \A k \in 1 .. Len(name) : name[k] # Quote
  PROVE  Parameter(LineOf(name, f, tail), NameKey) = name
<1>. DEFINE l == LineOf(name, f, tail)
            p == 7
<1>1. /\ IsSeq(l) /\ At(l, 1, DispositionWords) /\ At(l, 10, name) /\ At(l, 10 + Len(name), <<Quote>>)
      /\ Len(name) \in Nat
  BY LinePieces
<1>. HIDE DEF l
<1>2. At(l, p, NameKey) /\ \A i \in 1 .. 9 : i \in 1 .. Len(l) /\ l[i] = DispositionWords[i]
  BY <1>1, KeysStand
<1>3. IsSeq(NameKey) /\ Len(NameKey) = 2 /\ NameKey[1] = "name" /\ Len(NameKey) > 0
  BY KeyShapes
<1>4. \A i \in 1 .. p - 1 : ~At(l, i, NameKey)
  <2>. SUFFICES ASSUME NEW i \in 1 .. p - 1, At(l, i, NameKey) PROVE FALSE
    OBVIOUS
  <2>1. i \in 1 .. 6 /\ i \in 1 .. 9 /\ i + 1 - 1 = i /\ 1 \in 1 .. Len(NameKey)
    BY <1>3
  <2>2. l[i + 1 - 1] = NameKey[1]
    BY <2>1 DEF At
  <2>. QED
    BY <1>2, <1>3, <2>1, <2>2, DispositionChars
<1>5. p \in Nat /\ p >= 1 /\ 1 <= p /\ p + Len(NameKey) = 9 /\ p + Len(NameKey) + 1 = 10
  BY <1>3
<1>6. Find(l, NameKey, 1) = p
  <2>. HIDE DEF p
  <2>1. 1 \in Nat /\ 1 >= 1
    OBVIOUS
  <2>. QED
    BY <1>1, <1>2, <1>3, <1>4, <1>5, <2>1, FindAt
<1>7. At(l, 9, <<Quote>>)
  <2>1. 9 \in 1 .. 9
    OBVIOUS
  <2>2. l[9] = Quote /\ 9 \in 1 .. Len(l)
    BY <1>2, <2>1, DispositionChars
  <2>. QED
    BY <1>1, <2>2, CharAt
<1>8. At(l, p + Len(NameKey), <<Quote>>) /\ At(l, p + Len(NameKey) + 1, name) /\ At(l, p + Len(NameKey) + 1 + Len(name), <<Quote>>)
  BY <1>1, <1>5, <1>7
<1>. HIDE DEF p
<1>. QED
  BY <1>1, <1>3, <1>5, <1>6, <1>8, QuotedRead DEF l

LEMMA NoFileKey ==
  ASSUME NEW name, IsSeq(name), NEW f, IsSeq(f), NEW tail, IsSeq(tail), \A i \in 1 .. Len(name) : ~At(name, i, FileKey)
  PROVE  \A i \in 1 .. 10 + Len(name) : ~At(LineOf(name, f, tail), i, FileKey)
<1>. DEFINE l == LineOf(name, f, tail)
<1>1. /\ IsSeq(l) /\ At(l, 1, DispositionWords) /\ At(l, 10, name) /\ At(l, 10 + Len(name), <<Quote>>)
      /\ Len(name) \in Nat
  BY LinePieces
<1>. HIDE DEF l
<1>. SUFFICES ASSUME NEW i \in 1 .. 10 + Len(name), At(l, i, FileKey) PROVE FALSE
  BY DEF l
<1>2. Len(FileKey) = 3 /\ FileKey[1] = "file" /\ FileKey[2] = "name" /\ FileKey[3] = "="
  BY KeyShapes
<1>3. l[i] = "file" /\ l[i + 1] = "name" /\ l[i + 2] = "="
  <2>1. 1 \in 1 .. Len(FileKey) /\ 2 \in 1 .. Len(FileKey) /\ 3 \in 1 .. Len(FileKey)
        /\ i + 1 - 1 = i /\ i + 2 - 1 = i + 1 /\ i + 3 - 1 = i + 2
    BY <1>1, <1>2
  <2>2. l[i + 1 - 1] = FileKey[1] /\ l[i + 2 - 1] = FileKey[2] /\ l[i + 3 - 1] = FileKey[3]
    BY <2>1 DEF At
  <2>. QED
    BY <1>2, <2>1, <2>2
<1>4. l[10 + Len(name)] = Quote
  <2>1. 10 + Len(name) \in 1 .. Len(l)
    <3>1. Len(l) \in Nat /\ Len(<<Quote>>) = 1
      BY <1>1, SeqShape
    <3>. QED
      BY <1>1, <3>1 DEF At
  <2>. QED
    BY <1>1, <2>1, CharAt
<1>5. ~(i \in 1 .. 9)
  <2>1. \A j \in 1 .. 9 : l[j] = DispositionWords[j]
    BY <1>1, KeysStand
  <2>. QED
    BY <1>3, <2>1, DispositionChars
<1>6. i # 10 + Len(name) /\ i + 1 # 10 + Len(name) /\ i + 2 # 10 + Len(name)
  BY <1>3, <1>4, QuoteIs
<1>. DEFINE j == i - 9
<1>7. /\ j \in Nat /\ j \in 1 .. Len(name) /\ j + 3 - 1 <= Len(name)
      /\ 10 + j - 1 = i /\ 10 + (j + 1) - 1 = i + 1 /\ 10 + (j + 2) - 1 = i + 2
      /\ j + 1 \in 1 .. Len(name) /\ j + 2 \in 1 .. Len(name)
  BY <1>1, <1>5, <1>6
<1>8. name[j] = "file" /\ name[j + 1] = "name" /\ name[j + 2] = "="
  <2>1. l[10 + j - 1] = name[j] /\ l[10 + (j + 1) - 1] = name[j + 1] /\ l[10 + (j + 2) - 1] = name[j + 2]
    BY <1>1, <1>7 DEF At
  <2>. QED
    BY <1>3, <1>7, <2>1
<1>. HIDE DEF j
<1>9. At(name, j, FileKey)
  <2>1. \A k \in 1 .. 3 : k = 1 \/ k = 2 \/ k = 3
    OBVIOUS
  <2>2. j + 1 - 1 = j /\ j + 2 - 1 = j + 1 /\ j + 3 - 1 = j + 2
    BY <1>7
  <2>3. \A k \in 1 .. 3 : name[j + k - 1] = FileKey[k]
    BY <1>2, <1>8, <2>1, <2>2
  <2>. QED
    BY <1>2, <1>7, <2>3 DEF At
<1>. QED
  BY <1>7, <1>9

LEMMA LineLength ==
  ASSUME NEW name, IsSeq(name), NEW f, IsSeq(f), NEW tail, IsSeq(tail)
  PROVE  Len(LineOf(name, f, tail)) = 10 + Len(name) + Len(f) + Len(tail)
<1>. DEFINE l == LineOf(name, f, tail)
<1>1. Len(l) = 10 + Len(name) + Len(f) + Len(tail)
  BY LinePieces
<1>. QED
  BY <1>1

(* The line of a part without a file name. *)
LEMMA FileNone ==
  ASSUME NEW name, IsSeq(name), NEW none, IsSeq(none), Len(none) = 0, NEW tail, IsSeq(tail),
         \A i \in 1 .. Len(name) : ~At(name, i, FileKey), \A i \in 1 .. Len(tail) : tail[i] = CR
  PROVE  Parameter(LineOf(name, none, tail), FileKey) = <<>>
<1>. DEFINE l == LineOf(name, none, tail)
            b == 11 + Len(name)
<1>1. Len(none) = 0
  OBVIOUS
<1>2. /\ IsSeq(l) /\ Len(l) = 10 + Len(name) + Len(none) + Len(tail) /\ Len(name) \in Nat /\ Len(tail) \in Nat
      /\ At(l, 11 + Len(name) + Len(none), tail)
  <2>1. IsSeq(l)
    BY LinePieces
  <2>2. Len(l) = 10 + Len(name) + Len(none) + Len(tail)
    BY LineLength
  <2>3. At(l, 11 + Len(name) + Len(none), tail)
    BY LinePieces
  <2>4. Len(name) \in Nat /\ Len(tail) \in Nat
    BY LinePieces
  <2>. QED
    BY <2>1, <2>2, <2>3, <2>4
<1>3. \A i \in 1 .. 10 + Len(name) : ~At(l, i, FileKey)
  BY <1>1, NoFileKey
<1>. HIDE DEF l
<1>4. b \in Nat /\ b >= 1 /\ 11 + Len(name) + Len(none) = b /\ Len(l) = b + Len(tail) - 1
  BY <1>1, <1>2
<1>5. \A i \in b .. b + Len(tail) - 1 : i - b + 1 \in 1 .. Len(tail) /\ l[i] = tail[i - b + 1]
  <2>1. At(l, b, tail)
    BY <1>2, <1>4
  <2>. HIDE DEF b
  <2>. QED
    BY <1>2, <1>4, <2>1, AtChars
<1>6. Len(FileKey) = 3 /\ FileKey[1] = "file" /\ IsSeq(FileKey) /\ 1 \in 1 .. Len(FileKey) /\ Len(FileKey) > 0
  <2>1. Len(FileKey) = 3
    BY KeyShapes
  <2>2. 1 \in 1 .. Len(FileKey) /\ Len(FileKey) > 0
    BY <2>1
  <2>. QED
    BY <2>1, <2>2, KeyShapes
<1>7. ASSUME NEW i \in 1 .. Len(l), At(l, i, FileKey) PROVE FALSE
  <2>1. ~(i \in 1 .. 10 + Len(name))
    BY <1>3, <1>7
  <2>2. i \in b .. b + Len(tail) - 1
    BY <1>2, <1>4, <2>1
  <2>3. l[i] = CR
    BY <1>5, <2>2
  <2>4. l[i + 1 - 1] = FileKey[1] /\ i + 1 - 1 = i
    BY <1>6, <1>7 DEF At
  <2>5. "file" # CR
    BY DEF CR
  <2>. QED
    BY <1>6, <2>3, <2>4, <2>5
<1>8. Find(l, FileKey, 1) = npos
  <2>. DEFINE p == 1
  <2>1. p \in Nat /\ p >= 1 /\ \A i \in p .. Len(l) : ~At(l, i, FileKey)
    BY <1>7
  <2>. HIDE DEF p
  <2>2. Find(l, FileKey, p) = npos
    BY <1>2, <1>6, <2>1, FindAt
  <2>. QED
    BY <2>2 DEF p
<1>9. Parameter(l, FileKey) = <<>>
  BY <1>8 DEF Parameter
<1>. QED
  BY <1>9 DEF l

(* Where the file name of a line is found. *)
LEMMA FileKeyPlace ==
  ASSUME NEW name, IsSeq(name), NEW f, IsSeq(f), NEW tail, IsSeq(tail), \A i \in 1 .. Len(name) : ~At(name, i, FileKey),
         At(f, 1, FileWords)
  PROVE  Find(LineOf(name, f, tail), FileKey, 1) = 13 + Len(name)
<1>. DEFINE l == LineOf(name, f, tail)
            b == 11 + Len(name)
            w == FileWords
<1>1. /\ IsSeq(l) /\ Len(name) \in Nat /\ Len(tail) \in Nat /\ At(l, 11 + Len(name), f)
  BY LinePieces
<1>2. \A i \in 1 .. 10 + Len(name) : ~At(l, i, FileKey)
  BY NoFileKey
<1>. HIDE DEF l
<1>3. b \in Nat /\ b >= 1 /\ At(l, b, f) /\ 10 + Len(name) = b - 1 /\ 13 + Len(name) = b + 2
  BY <1>1
<1>. HIDE DEF b
<1>4. IsSeq(w) /\ Len(w) = 5
  BY WordShapes
<1>5. w[1] = ";" /\ w[2] = " " /\ w[3] = "file" /\ w[4] = "name" /\ w[5] = "="
  BY DEF FileWords
<1>. HIDE DEF w
<1>6. At(l, b, w)
  <2>. DEFINE q == 1
  <2>1. q \in Nat /\ q >= 1 /\ At(f, q, w) /\ b + q - 1 = b
    BY <1>3 DEF w
  <2>. HIDE DEF q
  <2>2. At(l, b + q - 1, w)
    BY <1>1, <1>3, <1>4, <2>1, AtWithin
  <2>. QED
    BY <2>1, <2>2
<1>8. l[b] = ";" /\ l[b + 1] = " " /\ l[b + 2] = "file" /\ l[b + 3] = "name" /\ l[b + 4] = "="
  <2>1. /\ 1 \in 1 .. Len(w) /\ 2 \in 1 .. Len(w) /\ 3 \in 1 .. Len(w) /\ 4 \in 1 .. Len(w) /\ 5 \in 1 .. Len(w)
        /\ b + 1 - 1 = b /\ b + 2 - 1 = b + 1 /\ b + 3 - 1 = b + 2 /\ b + 4 - 1 = b + 3 /\ b + 5 - 1 = b + 4
    BY <1>3, <1>4
  <2>2. /\ l[b + 1 - 1] = w[1] /\ l[b + 2 - 1] = w[2] /\ l[b + 3 - 1] = w[3]
        /\ l[b + 4 - 1] = w[4] /\ l[b + 5 - 1] = w[5]
    BY <1>6, <2>1 DEF At
  <2>. QED
    BY <1>5, <2>1, <2>2
<1>9. IsSeq(FileKey) /\ Len(FileKey) = 3 /\ FileKey[1] = "file" /\ FileKey[2] = "name" /\ FileKey[3] = "="
  BY KeyShapes
<1>10. At(l, b + 2, FileKey)
  <2>1. \A k \in 1 .. 3 : k = 1 \/ k = 2 \/ k = 3
    OBVIOUS
  <2>2. b + 2 + 1 - 1 = b + 2 /\ b + 2 + 2 - 1 = b + 3 /\ b + 2 + 3 - 1 = b + 4
    BY <1>3
  <2>3. \A k \in 1 .. 3 : l[b + 2 + k - 1] = FileKey[k]
    BY <1>8, <1>9, <2>1, <2>2
  <2>4. b + 2 + 3 - 1 <= Len(l)
    <3>1. b + 5 - 1 <= Len(l) /\ Len(l) \in Nat
      BY <1>1, <1>4, <1>6, SeqShape DEF At
    <3>. QED
      BY <1>3, <3>1
  <2>. QED
    BY <1>9, <2>3, <2>4 DEF At
<1>11. ASSUME NEW i \in 1 .. b + 2 - 1, At(l, i, FileKey) PROVE FALSE
  <2>1. ~(i \in 1 .. b - 1)
    BY <1>2, <1>3, <1>11
  <2>2. i = b \/ i = b + 1
    BY <1>3, <2>1
  <2>3. 1 \in 1 .. 3 /\ i + 1 - 1 = i
    BY <1>3
  <2>4. l[i + 1 - 1] = FileKey[1]
    BY <1>9, <1>11, <2>3 DEF At
  <2>. QED
    BY <1>8, <1>9, <2>2, <2>3, <2>4
<1>12. Find(l, FileKey, 1) = b + 2
  <2>. DEFINE q == 1
              p == b + 2
  <2>1. q \in Nat /\ q >= 1 /\ p \in Nat /\ q <= p /\ At(l, p, FileKey) /\ (\A i \in q .. p - 1 : ~At(l, i, FileKey))
        /\ Len(FileKey) > 0
    BY <1>3, <1>9, <1>10, <1>11
  <2>. HIDE DEF p, q
  <2>2. Find(l, FileKey, q) = p
    BY <1>1, <1>9, <2>1, FindAt
  <2>. QED
    BY <2>2 DEF p, q
<1>. QED
  BY <1>3, <1>12 DEF l

(* The words that stand before a file name, in quotes and without. *)
LEMMA FileTextPieces ==
  ASSUME NEW w, IsSeq(w)
  PROVE  LET f == FileWords \o w
             g == <<";", " ", "file", "name", "=", Quote>> \o w \o <<Quote>>
         IN /\ IsSeq(f) /\ At(f, 1, FileWords) /\ At(f, 6, w) /\ Len(f) = 5 + Len(w)
            /\ IsSeq(g) /\ At(g, 1, FileWords) /\ At(g, 6, <<Quote>>) /\ At(g, 7, w) /\ At(g, 7 + Len(w), <<Quote>>)
<1>. DEFINE a == FileWords
            q == <<Quote>>
            h == <<";", " ", "file", "name", "=", Quote>>
            f == a \o w
            x == h \o w
            g == x \o q
            one == 1
<1>1. IsSeq(a) /\ Len(a) = 5 /\ IsSeq(q) /\ Len(q) = 1 /\ IsSeq(h) /\ Len(h) = 6
  BY WordShapes, TupleShape
<1>2. h = a \o q
  <2>. DEFINE y == a \o q
  <2>1. /\ a[1] = ";" /\ a[2] = " " /\ a[3] = "file" /\ a[4] = "name" /\ a[5] = "="
        /\ h[1] = ";" /\ h[2] = " " /\ h[3] = "file" /\ h[4] = "name" /\ h[5] = "=" /\ h[6] = Quote /\ q[1] = Quote
    BY DEF FileWords
  <2>. HIDE DEF a, q, h
  <2>2. IsSeq(y) /\ Len(y) = Len(a) + Len(q) /\ \A i \in 1 .. Len(a) + Len(q) : y[i] = IF i <= Len(a) THEN a[i] ELSE q[i - Len(a)]
    BY <1>1, ConcatShape
  <2>. HIDE DEF y
  <2>3. Len(y) = 6 /\ \A i \in 1 .. 6 : y[i] = IF i <= 5 THEN a[i] ELSE q[i - 5]
    BY <1>1, <2>2
  <2>4. \A i \in 1 .. 6 : i = 1 \/ i = 2 \/ i = 3 \/ i = 4 \/ i = 5 \/ i = 6
    OBVIOUS
  <2>5. y[1] = a[1] /\ y[2] = a[2] /\ y[3] = a[3] /\ y[4] = a[4] /\ y[5] = a[5] /\ y[6] = q[1]
    BY <2>3
  <2>6. \A i \in 1 .. 6 : y[i] = h[i]
    BY <2>1, <2>4, <2>5
  <2>7. y = h
    BY <1>1, <2>2, <2>3, <2>6, SameShape
  <2>. QED
    BY <2>7 DEF y
<1>. HIDE DEF a, q, h
<1>3. IsSeq(f) /\ Len(f) = 5 + Len(w) /\ IsSeq(x) /\ IsSeq(g) /\ Len(x) = 6 + Len(w) /\ Len(w) \in Nat
  <2>1. IsSeq(f) /\ Len(f) = Len(a) + Len(w)
    BY <1>1, ConcatShape
  <2>2. IsSeq(x) /\ Len(x) = Len(h) + Len(w)
    BY <1>1, ConcatShape
  <2>. HIDE DEF f, x
  <2>3. IsSeq(g)
    BY <1>1, <2>2, ConcatShape
  <2>. QED
    BY <1>1, <2>1, <2>2, <2>3, SeqShape
<1>. HIDE DEF f, x, g
<1>4. one \in Nat /\ one >= 1
  OBVIOUS
<1>5. At(f, one, f) /\ At(g, one, g)
  BY <1>3, SeqShape DEF At
<1>. HIDE DEF one
<1>6. At(f, one, a) /\ At(f, one + Len(a), w)
  BY <1>1, <1>3, <1>4, <1>5, AtOfTwo DEF f
<1>7. At(g, one, x) /\ At(g, one + Len(x), q)
  BY <1>1, <1>3, <1>4, <1>5, AtOfTwo DEF g
<1>8. At(g, one, h) /\ At(g, one + Len(h), w)
  BY <1>1, <1>3, <1>4, <1>7, AtOfTwo DEF x
<1>9. At(g, one, a) /\ At(g, one + Len(a), q)
  BY <1>1, <1>2, <1>3, <1>4, <1>8, AtOfTwo
<1>10. one = 1 /\ one + Len(a) = 6 /\ one + Len(h) = 7 /\ one + Len(x) = 7 + Len(w)
  BY <1>1, <1>3 DEF one
<1>. QED
  BY <1>3, <1>6, <1>7, <1>8, <1>9, <1>10 DEF f, x, g, a, q, h

LEMMA FileQuoted ==
  ASSUME NEW name, IsSeq(name), NEW tail, IsSeq(tail), \A i \in 1 .. Len(name) : ~At(name, i, FileKey),
         NEW w, IsSeq(w), \A k \in 1 .. Len(w) : w[k] # Quote
  PROVE  Parameter(LineOf(name, <<";", " ", "file", "name", "=", Quote>> \o w \o <<Quote>>, tail), FileKey) = w
<1>. DEFINE g == <<";", " ", "file", "name", "=", Quote>> \o w \o <<Quote>>
            l == LineOf(name, g, tail)
            b == 11 + Len(name)
            p == b + 2
            q == <<Quote>>
<1>1. IsSeq(g) /\ At(g, 1, FileWords) /\ At(g, 6, q) /\ At(g, 7, w) /\ At(g, 7 + Len(w), q) /\ IsSeq(q)
  BY FileTextPieces, TupleShape
<1>. HIDE DEF g, q
<1>2. IsSeq(l) /\ Len(name) \in Nat /\ At(l, 11 + Len(name), g)
  BY <1>1, LinePieces
<1>3. Find(l, FileKey, 1) = 13 + Len(name)
  BY <1>1, FileKeyPlace
<1>. HIDE DEF l
<1>4. b \in Nat /\ b >= 1 /\ At(l, b, g) /\ 13 + Len(name) = b + 2
  BY <1>2
<1>. HIDE DEF b
<1>5. Len(w) \in Nat /\ Len(FileKey) = 3 /\ IsSeq(FileKey)
  BY KeyShapes, SeqShape
<1>6. ASSUME NEW k \in Nat, k >= 1, NEW v, IsSeq(v), At(g, k, v) PROVE At(l, b + k - 1, v)
  BY <1>1, <1>2, <1>4, <1>6, AtWithin
<1>7. At(l, b + 6 - 1, q) /\ At(l, b + 7 - 1, w) /\ At(l, b + (7 + Len(w)) - 1, q)
  <2>1. 6 \in Nat /\ 6 >= 1 /\ 7 \in Nat /\ 7 >= 1 /\ 7 + Len(w) \in Nat /\ 7 + Len(w) >= 1
    BY <1>5
  <2>. QED
    BY <1>1, <1>6, <2>1
<1>8. /\ b + 6 - 1 = p + Len(FileKey) /\ b + 7 - 1 = p + Len(FileKey) + 1
      /\ b + (7 + Len(w)) - 1 = p + Len(FileKey) + 1 + Len(w) /\ p \in Nat /\ p >= 1
  BY <1>4, <1>5
<1>9. At(l, p + Len(FileKey), q) /\ At(l, p + Len(FileKey) + 1, w) /\ At(l, p + Len(FileKey) + 1 + Len(w), q)
      /\ Find(l, FileKey, 1) = p
  BY <1>3, <1>4, <1>7, <1>8
<1>. HIDE DEF p
<1>10. Parameter(l, FileKey) = w
  BY <1>2, <1>5, <1>8, <1>9, QuotedRead DEF q
<1>. QED
  BY <1>10 DEF l, g

(* A text that neither starts nor ends with such characters, and some of them behind it. *)
LEMMA TrimRead ==
  ASSUME NEW w, IsSeq(w), NEW tail, IsSeq(tail), NEW chars, Len(w) > 0, w[1] \notin chars, w[Len(w)] \notin chars,
         \A i \in 1 .. Len(tail) : tail[i] \in chars
  PROVE  TrimOf(w \o tail, chars) = w
<1>. DEFINE z == w \o tail
            n == Len(w)
            kept == {i \in DOMAIN z : z[i] \notin chars}
<1>1. n \in Nat /\ Len(tail) \in Nat
  BY SeqShape
<1>2. IsSeq(z) /\ Len(z) = n + Len(tail) /\ DOMAIN z = 1 .. n + Len(tail)
      /\ \A i \in 1 .. n + Len(tail) : z[i] = IF i <= n THEN w[i] ELSE tail[i - n]
  <2>1. IsSeq(z) /\ Len(z) = n + Len(tail) /\ \A i \in 1 .. n + Len(tail) : z[i] = IF i <= n THEN w[i] ELSE tail[i - n]
    BY ConcatShape
  <2>. QED
    BY <2>1, SeqShape
<1>. HIDE DEF z
<1>3. 1 \in kept /\ n \in kept /\ kept \in SUBSET (1 .. n) /\ kept # {}
  <2>1. 1 \in DOMAIN z /\ n \in DOMAIN z /\ z[1] = w[1] /\ z[n] = w[n]
    BY <1>1, <1>2
  <2>2. ASSUME NEW i \in kept PROVE i \in 1 .. n
    <3>1. i \in 1 .. n + Len(tail) /\ z[i] \notin chars
      BY <1>2
    <3>2. CASE ~(i <= n)
      <4>1. i - n \in 1 .. Len(tail) /\ z[i] = tail[i - n]
        BY <1>1, <1>2, <3>1, <3>2
      <4>. QED
        BY <3>1, <4>1
    <3>. QED
      BY <1>1, <3>1, <3>2
  <2>3. 1 \in kept /\ n \in kept
    BY <2>1
  <2>4. \A i \in kept : i \in 1 .. n
    BY <2>2
  <2>. HIDE DEF kept
  <2>. QED
    BY <2>3, <2>4
<1>. HIDE DEF n
<1>4. Min(kept) = 1
  <2>. HIDE DEF kept
  <2>1. kept \in SUBSET Nat
    BY <1>1, <1>3
  <2>2. Min(kept) \in kept /\ Min(kept) <= 1
    BY <1>3, <2>1, MinIs
  <2>3. Min(kept) \in 1 .. n
    BY <1>3, <2>2
  <2>. QED
    BY <1>1, <2>2, <2>3
<1>5. Max(kept) = n
  <2>. HIDE DEF kept
  <2>1. \A y \in kept : y <= n
    BY <1>1, <1>3
  <2>. QED
    BY <1>1, <1>3, <2>1, MaxIs
<1>6. TrimOf(z, chars) = SubSeq(z, 1, n)
  BY <1>3, <1>4, <1>5 DEF TrimOf
<1>7. SubSeq(z, 1, n) = w
  <2>1. n \in 0 .. Len(z)
    BY <1>1, <1>2
  <2>. DEFINE q == SubSeq(z, 1, n)
  <2>2. IsSeq(q) /\ Len(q) = n /\ \A i \in 1 .. n : q[i] = z[i]
    BY <1>2, <2>1, FirstShape
  <2>3. \A i \in 1 .. n : z[i] = w[i]
    BY <1>1, <1>2
  <2>4. Len(w) = n
    BY DEF n
  <2>. HIDE DEF q
  <2>5. q = w
    BY <2>2, <2>3, <2>4, SameShape
  <2>. QED
    BY <2>5 DEF q
<1>. QED
  BY <1>6, <1>7 DEF z

Semicolon == ";"

(* A file name that is read back without quotes. *)
Bare(w) ==
  /\ Len(w) > 0 /\ \A k \in 1 .. Len(w) : w[k] \notin {CR, LF, Semicolon}
  /\ w[1] \notin {Quote, " ", "\t"} /\ w[Len(w)] \notin {" ", "\t"}

(* The value that stands behind the key without quotes, and nothing else but what getline leaves. *)
LEMMA BareRead ==
  ASSUME NEW l, IsSeq(l), NEW key, IsSeq(key), NEW p \in Nat, p >= 1, Find(l, key, 1) = p,
         NEW w, IsSeq(w), Bare(w), NEW tail, IsSeq(tail), \A i \in 1 .. Len(tail) : tail[i] = CR,
         At(l, p + Len(key), w), At(l, p + Len(key) + Len(w), tail),
         Len(l) = p + Len(key) + Len(w) + Len(tail) - 1
  PROVE  Parameter(l, key) = w
<1>. DEFINE s == p + Len(key)
            v == w \o tail
<1>0. Len(w) > 0 /\ (\A k \in 1 .. Len(w) : w[k] # Semicolon) /\ w[1] # Quote
  BY DEF Bare
<1>1. Len(w) \in Nat /\ Len(key) \in Nat
  BY SeqShape
<1>2. IsSeq(l) /\ Len(tail) \in Nat
  BY SeqShape
<1>6. s \in Nat /\ s >= 1 /\ Len(l) = s + Len(w) + Len(tail) - 1
  BY <1>1
<1>7. At(l, s, w)
  OBVIOUS
<1>8. At(l, s + Len(w), tail) /\ Find(l, key, 1) = p
  OBVIOUS
<1>9. At(l, s, v) /\ IsSeq(v) /\ Len(v) = Len(w) + Len(tail)
  <2>1. s \in Nat /\ s >= 1
    BY <1>6
  <2>. HIDE DEF s
  <2>. QED
    BY <1>2, <1>7, <1>8, <2>1, AtOfTwo, ConcatShape
<1>10. SubSeq(l, s, Len(l)) = v
  <2>1. s \in Nat /\ s >= 1 /\ s + Len(v) - 1 = Len(l)
    BY <1>1, <1>2, <1>6, <1>9
  <2>. HIDE DEF s, v
  <2>2. SubSeq(l, s, s + Len(v) - 1) = v
    BY <1>2, <1>9, <2>1, AtCut
  <2>. QED
    BY <2>1, <2>2
<1>11. \A i \in s .. Len(l) : i \in 1 .. Len(l) /\ l[i] # Semicolon
  <2>. SUFFICES ASSUME NEW i \in s .. Len(l) PROVE i \in 1 .. Len(l) /\ l[i] # Semicolon
    OBVIOUS
  <2>0. s \in Nat /\ s >= 1 /\ Len(l) = s + Len(w) + Len(tail) - 1 /\ Len(l) \in Nat
    BY <1>2, <1>6, SeqShape
  <2>. HIDE DEF s
  <2>1. i \in 1 .. Len(l) /\ i \in Int
    BY <2>0
  <2>2. CASE i <= s + Len(w) - 1
    <3>1. i \in s .. s + Len(w) - 1
      BY <1>1, <2>0, <2>2
    <3>2. i - s + 1 \in 1 .. Len(w) /\ l[i] = w[i - s + 1]
      BY <1>2, <1>7, <2>0, <3>1, AtChars
    <3>. QED
      BY <1>0, <2>1, <3>2
  <2>3. CASE ~(i <= s + Len(w) - 1)
    <3>. DEFINE e == s + Len(w)
    <3>1. e \in Nat /\ e >= 1 /\ i \in e .. e + Len(tail) - 1 /\ At(l, e, tail)
      BY <1>1, <1>2, <1>8, <2>0, <2>3
    <3>. HIDE DEF e
    <3>2. i - e + 1 \in 1 .. Len(tail) /\ l[i] = tail[i - e + 1]
      BY <1>2, <3>1, AtChars
    <3>3. Semicolon # CR
      BY Zenon DEF CR, Semicolon
    <3>. QED
      BY <2>1, <3>2, <3>3
  <2>. QED
    BY <2>2, <2>3
<1>12. Find(l, <<Semicolon>>, s) = npos
  <2>. DEFINE c == <<Semicolon>>
  <2>1. \A i \in 1 .. Len(l) : At(l, i, c) <=> l[i] = Semicolon
    BY <1>2, CharAt
  <2>2. IsSeq(c) /\ Len(c) > 0
    BY TupleShape
  <2>3. s \in Nat /\ s >= 1
    BY <1>6
  <2>. HIDE DEF c, s
  <2>4. \A i \in s .. Len(l) : ~At(l, i, c)
    BY <1>11, <2>1
  <2>5. Find(l, c, s) = npos
    BY <1>2, <2>2, <2>3, <2>4, FindAt
  <2>. QED
    BY <2>5 DEF c
<1>13. l[s] = w[1] /\ l[s] # Quote
  <2>1. 1 \in 1 .. Len(w) /\ s + 1 - 1 = s
    BY <1>0, <1>1, <1>6
  <2>2. l[s + 1 - 1] = w[1]
    BY <1>7, <2>1 DEF At
  <2>. QED
    BY <1>0, <2>1, <2>2
<1>14. Trim(v) = w
  <2>. DEFINE chars == {" ", "\t", CR, LF}
  <2>1. 1 \in 1 .. Len(w) /\ Len(w) \in 1 .. Len(w)
    BY <1>0, <1>1
  <2>4. w[1] \notin {CR, LF} /\ w[Len(w)] \notin {CR, LF}
    BY <2>1 DEF Bare
  <2>2. w[1] \notin chars /\ w[Len(w)] \notin chars /\ \A i \in 1 .. Len(tail) : tail[i] \in chars
    BY <2>4, Zenon DEF Bare
  <2>3. Trim(v) = TrimOf(v, chars)
    BY DEF Trim
  <2>. HIDE DEF chars
  <2>. QED
    BY <1>0, <2>2, <2>3, TrimRead
<1>15. OrEnd(npos, l) = Len(l) + 1 /\ Len(l) + 1 - 1 = Len(l) /\ p # npos /\ ~(s > Len(l))
  <2>1. Len(l) \in Nat
    BY <1>2, SeqShape
  <2>. QED
    BY <1>0, <1>1, <1>2, <1>6, <2>1 DEF OrEnd, npos
<1>16. Parameter(l, key) =
         IF p = npos \/ s > Len(l) THEN <<>>
         ELSE IF l[s] = Quote THEN IF Find(l, <<Quote>>, s + 1) = npos THEN <<>> ELSE SubSeq(l, s + 1, Find(l, <<Quote>>, s + 1) - 1)
         ELSE Trim(SubSeq(l, s, OrEnd(Find(l, <<Semicolon>>, s), l) - 1))
  BY <1>8, Zenon DEF Parameter, s, Quote, Semicolon
<1>. HIDE DEF s, v
<1>17. Parameter(l, key) = w
  <2>1. Parameter(l, key) = Trim(SubSeq(l, s, OrEnd(Find(l, <<Semicolon>>, s), l) - 1))
    BY <1>13, <1>15, <1>16, Zenon
  <2>2. OrEnd(Find(l, <<Semicolon>>, s), l) = Len(l) + 1
    BY <1>12, <1>15, Zenon
  <2>4. OrEnd(Find(l, <<Semicolon>>, s), l) - 1 = Len(l)
    BY <1>15, <2>2
  <2>3. Parameter(l, key) = Trim(SubSeq(l, s, Len(l)))
    BY <2>1, <2>4, Zenon
  <2>. QED
    BY <1>10, <1>14, <2>3, Zenon
<1>. QED
  BY <1>17

(* A file name without quotes, in front of what getline leaves. *)
LEMMA FileBare ==
  ASSUME NEW name, IsSeq(name), NEW tail, IsSeq(tail), \A i \in 1 .. Len(name) : ~At(name, i, FileKey),
         \A i \in 1 .. Len(tail) : tail[i] = CR,
         NEW w, IsSeq(w), Bare(w)
  PROVE  Parameter(LineOf(name, FileWords \o w, tail), FileKey) = w
<1>. DEFINE f == FileWords \o w
            l == LineOf(name, f, tail)
            b == 11 + Len(name)
            p == b + 2
            s == p + Len(FileKey)
<1>1. IsSeq(f) /\ At(f, 1, FileWords) /\ At(f, 6, w) /\ Len(f) = 5 + Len(w) /\ Len(w) \in Nat
  BY FileTextPieces, SeqShape
<1>. HIDE DEF f
<1>2. /\ IsSeq(l) /\ Len(name) \in Nat /\ Len(tail) \in Nat
      /\ At(l, 11 + Len(name), f) /\ At(l, 11 + Len(name) + Len(f), tail)
  BY <1>1, LinePieces
<1>3. Len(l) = 10 + Len(name) + Len(f) + Len(tail)
  <2>1. IsSeq(f)
    BY <1>1
  <2>. QED
    BY <2>1, LineLength
<1>4. Find(l, FileKey, 1) = 13 + Len(name)
  BY <1>1, FileKeyPlace
<1>. HIDE DEF l
<1>5. Len(FileKey) = 3 /\ IsSeq(FileKey)
  BY KeyShapes
<1>6. /\ b \in Nat /\ b >= 1 /\ At(l, b, f) /\ 13 + Len(name) = p /\ s = b + 6 - 1 /\ s \in Nat /\ s >= 1
      /\ 11 + Len(name) + Len(f) = s + Len(w) /\ Len(l) = s + Len(w) + Len(tail) - 1 /\ p \in Nat /\ p >= 1
  BY <1>1, <1>2, <1>3, <1>5
<1>7. At(l, s, w)
  <2>1. 6 \in Nat /\ 6 >= 1
    OBVIOUS
  <2>2. At(l, b + 6 - 1, w)
    BY <1>1, <1>2, <1>6, <2>1, AtWithin
  <2>. QED
    BY <1>6, <2>2
<1>8. At(l, s + Len(w), tail) /\ Find(l, FileKey, 1) = p
  BY <1>2, <1>4, <1>6
<1>. HIDE DEF b, p
<1>9. Parameter(l, FileKey) = w
  BY <1>2, <1>5, <1>6, <1>7, <1>8, BareRead
<1>. QED
  BY <1>9 DEF l, f

Holds(t, w) == \E i \in 1 .. Len(t) : At(t, i, w)

(* A part that a client may write as it stands between quotes, blanks and boundaries. *)
PartPlain(part) ==
  /\ PartShape(part)
  /\ NoLineEnd(part.name) /\ (\A k \in 1 .. Len(part.name) : part.name[k] # Quote)
  /\ ~Holds(part.name, FileKey)
  /\ \/ part.filename = <<>>
     \/ /\ part.filename # <<>> /\ part.quoted /\ NoLineEnd(part.filename)
        /\ \A k \in 1 .. Len(part.filename) : part.filename[k] # Quote
     \/ part.filename # <<>> /\ ~part.quoted /\ Bare(part.filename)
  /\ HasNoMarker(part.content)

LEMMA PlainOfTwo ==
  ASSUME NEW x, IsSeq(x), NoLineEnd(x), NEW y, IsSeq(y), NoLineEnd(y)
  PROVE  IsSeq(x \o y) /\ NoLineEnd(x \o y)
<1>. DEFINE z == x \o y
<1>1. Len(x) \in Nat /\ Len(y) \in Nat
  BY SeqShape
<1>2. IsSeq(z) /\ Len(z) = Len(x) + Len(y) /\ \A i \in 1 .. Len(x) + Len(y) : z[i] = IF i <= Len(x) THEN x[i] ELSE y[i - Len(x)]
  BY ConcatShape
<1>. HIDE DEF z
<1>3. ASSUME NEW i \in 1 .. Len(z) PROVE z[i] \notin {CR, LF}
  <2>1. i \in 1 .. Len(x) + Len(y)
    BY <1>2
  <2>2. (i <= Len(x) => i \in 1 .. Len(x)) /\ (~(i <= Len(x)) => i - Len(x) \in 1 .. Len(y))
    BY <1>1, <2>1
  <2>. QED
    BY <1>2, <2>1, <2>2 DEF NoLineEnd
<1>. QED
  BY <1>2, <1>3 DEF NoLineEnd, z

LEMMA WordsPlain ==
  /\ NoLineEnd(DispositionWords) /\ NoLineEnd(FileWords) /\ NoLineEnd(<<Quote>>)
  /\ NoLineEnd(<<";", " ", "file", "name", "=", Quote>>)
<1>. DEFINE q == <<Quote>>
            g == <<";", " ", "file", "name", "=", Quote>>
            f == FileWords
<1>1. /\ q[1] = Quote /\ Len(q) = 1 /\ g[1] = Semicolon /\ g[2] = " " /\ g[3] = "file" /\ g[4] = "name" /\ g[5] = "="
      /\ g[6] = Quote /\ Len(g) = 6
      /\ f[1] = Semicolon /\ f[2] = " " /\ f[3] = "file" /\ f[4] = "name" /\ f[5] = "=" /\ Len(f) = 5
  BY WordShapes DEF FileWords, Semicolon
<1>2. " " \notin {CR, LF} /\ "file" \notin {CR, LF} /\ "name" \notin {CR, LF} /\ "=" \notin {CR, LF}
  BY DEF CR, LF
<1>3. Quote \notin {CR, LF}
  BY QuoteIs
<1>4. Semicolon \notin {CR, LF}
  BY Zenon DEF Semicolon, CR, LF
<1>. HIDE DEF q, g, f
<1>5. NoLineEnd(q)
  <2>1. \A i \in 1 .. 1 : i = 1
    OBVIOUS
  <2>. QED
    BY <1>1, <1>3, <2>1 DEF NoLineEnd
<1>6. NoLineEnd(g)
  <2>1. \A i \in 1 .. 6 : i = 1 \/ i = 2 \/ i = 3 \/ i = 4 \/ i = 5 \/ i = 6
    OBVIOUS
  <2>. QED
    BY <1>1, <1>2, <1>3, <1>4, <2>1 DEF NoLineEnd
<1>7. NoLineEnd(f)
  <2>1. \A i \in 1 .. 5 : i = 1 \/ i = 2 \/ i = 3 \/ i = 4 \/ i = 5
    OBVIOUS
  <2>. QED
    BY <1>1, <1>2, <1>4, <2>1 DEF NoLineEnd
<1>8. NoLineEnd(DispositionWords)
  <2>1. Len(DispositionWords) = 9
    BY WordShapes
  <2>2. \A i \in 1 .. 9 : DispositionWords[i] \notin {CR, LF}
    BY DispositionChars
  <2>. QED
    BY <2>1, <2>2 DEF NoLineEnd
<1>. QED
  BY <1>5, <1>6, <1>7, <1>8 DEF q, g, f

LEMMA DispositionPlain ==
  ASSUME NEW part, PartPlain(part)
  PROVE  /\ IsSeq(FileText(part)) /\ IsSeq(Disposition(part)) /\ NoLineEnd(Disposition(part))
<1>. DEFINE q == <<Quote>>
            w == <<";", " ", "file", "name", "=", Quote>>
            none == <<>>
            nm == part.name
            fn == part.filename
            f == FileText(part)
<1>1. IsSeq(q) /\ IsSeq(none) /\ NoLineEnd(none) /\ NoLineEnd(q) /\ NoLineEnd(w) /\ NoLineEnd(FileWords)
  <2>1. Len(none) = 0
    OBVIOUS
  <2>2. NoLineEnd(none)
    BY <2>1 DEF NoLineEnd
  <2>. QED
    BY <2>2, TupleShape, WordsPlain
<1>2. IsSeq(w) /\ IsSeq(FileWords) /\ IsSeq(DispositionWords) /\ NoLineEnd(DispositionWords)
  BY WordShapes, WordsPlain
<1>3. f = IF fn = none THEN none ELSE IF part.quoted THEN (w \o fn) \o q ELSE FileWords \o fn
  BY DEF FileText, IsEmpty
<1>4. Disposition(part) = ((DispositionWords \o nm) \o q) \o f
  BY DEF Disposition
<1>5. IsSeq(nm) /\ IsSeq(fn) /\ NoLineEnd(nm) /\ NoLineEnd(fn)
  <2>1. IsSeq(nm) /\ IsSeq(fn) /\ NoLineEnd(nm)
    BY DEF PartPlain, PartShape
  <2>2. fn = none \/ NoLineEnd(fn)
    <3>1. fn = none \/ NoLineEnd(fn) \/ Bare(fn)
      BY DEF PartPlain
    <3>2. Bare(fn) => NoLineEnd(fn)
      BY DEF Bare, NoLineEnd
    <3>. QED
      BY <3>1, <3>2
  <2>. QED
    BY <1>1, <2>1, <2>2
<1>. HIDE DEF q, w, none, nm, fn, f
<1>6. IsSeq(f) /\ NoLineEnd(f)
  <2>1. IsSeq(w \o fn) /\ NoLineEnd(w \o fn) /\ IsSeq(FileWords \o fn) /\ NoLineEnd(FileWords \o fn)
    BY <1>1, <1>2, <1>5, PlainOfTwo
  <2>2. IsSeq((w \o fn) \o q) /\ NoLineEnd((w \o fn) \o q)
    BY <1>1, <2>1, PlainOfTwo
  <2>. QED
    BY <1>1, <1>3, <2>1, <2>2
<1>7. IsSeq(Disposition(part)) /\ NoLineEnd(Disposition(part))
  <2>1. IsSeq(DispositionWords \o nm) /\ NoLineEnd(DispositionWords \o nm)
    BY <1>2, <1>5, PlainOfTwo
  <2>2. IsSeq((DispositionWords \o nm) \o q) /\ NoLineEnd((DispositionWords \o nm) \o q)
    BY <1>1, <2>1, PlainOfTwo
  <2>. QED
    BY <1>4, <1>6, <2>2, PlainOfTwo
<1>. QED
  BY <1>6, <1>7 DEF f

(* The name and the file name that are read from the line of a part. *)
LEMMA LineNames ==
  ASSUME NEW part, PartPlain(part), NEW tail, IsSeq(tail), \A i \in 1 .. Len(tail) : tail[i] = CR
  PROVE  /\ Parameter(Disposition(part) \o tail, NameKey) = part.name
         /\ Parameter(Disposition(part) \o tail, FileKey) = part.filename
<1>. DEFINE nm == part.name
            fn == part.filename
            f == FileText(part)
            none == <<>>
            g == <<";", " ", "file", "name", "=", Quote>> \o fn \o <<Quote>>
            h == FileWords \o fn
<1>1. Disposition(part) \o tail = LineOf(nm, f, tail)
  BY DEF Disposition, LineOf
<1>2. IsSeq(nm) /\ IsSeq(fn) /\ IsSeq(f) /\ \A k \in 1 .. Len(nm) : nm[k] # Quote
  BY DispositionPlain DEF PartPlain, PartShape
<1>3. \A i \in 1 .. Len(nm) : ~At(nm, i, FileKey)
  BY DEF PartPlain, Holds
<1>4. /\ fn = none => f = none
      /\ fn # none /\ part.quoted => f = g
      /\ fn # none /\ ~part.quoted => f = h
  BY DEF FileText, IsEmpty
<1>5. /\ fn # none /\ part.quoted => \A k \in 1 .. Len(fn) : fn[k] # Quote
      /\ fn # none /\ ~part.quoted => Bare(fn)
  BY DEF PartPlain
<1>. HIDE DEF nm, fn, f
<1>6. Parameter(LineOf(nm, f, tail), NameKey) = nm
  BY <1>2, NameRead
<1>7. CASE fn = none
  <2>1. IsSeq(none) /\ Len(none) = 0
    BY TupleShape
  <2>2. Parameter(LineOf(nm, none, tail), FileKey) = <<>>
    <3>. HIDE DEF none
    <3>. QED
      BY <1>2, <1>3, <2>1, FileNone
  <2>3. Parameter(LineOf(nm, f, tail), FileKey) = fn
    BY <1>4, <1>7, <2>2
  <2>. QED
    BY <1>1, <1>6, <2>3 DEF nm, fn
<1>8. CASE fn # none /\ part.quoted
  <2>2. Parameter(LineOf(nm, g, tail), FileKey) = fn
    BY <1>2, <1>3, <1>5, <1>8, FileQuoted
  <2>3. Parameter(LineOf(nm, f, tail), FileKey) = fn
    BY <1>4, <1>8, <2>2
  <2>. QED
    BY <1>1, <1>6, <2>3 DEF nm, fn
<1>9. CASE fn # none /\ ~part.quoted
  <2>2. Parameter(LineOf(nm, h, tail), FileKey) = fn
    BY <1>2, <1>3, <1>5, <1>9, FileBare
  <2>3. Parameter(LineOf(nm, f, tail), FileKey) = fn
    BY <1>4, <1>9, <2>2
  <2>. QED
    BY <1>1, <1>6, <2>3 DEF nm, fn
<1>. QED
  BY <1>7, <1>8, <1>9

(* One round of parse_multipart_form, on a part as a client writes it. *)
LEMMA PartRead ==
  ASSUME NEW t, IsSeq(t), NEW p \in Nat, p >= 1, NEW part, PartPlain(part), NEW eol, IsLineEnd(eol),
         At(t, p, PartText(part, eol)), NEW next, next = p + Len(PartText(part, eol)), At(t, next, Marker(Boundary)),
         eol = <<LF>> => NoBlankCrLf(t) /\ ~EndsIn(part.content, CR)
  PROVE  PartAt(t, Boundary, p + 4) =
           [found |-> TRUE, name |-> part.name, filename |-> part.filename, content |-> part.content,
            last |-> StartsWith(t, next, Marker(Boundary) \o <<"-", "-">>), behind |-> next + 4]
<1>. DEFINE m == Marker(Boundary)
            w == Disposition(part)
            ct == part.content
            e == Len(eol)
            s == p + 4 + e
            d == s + Len(w)
            c == d + e + e
            z == c + Len(ct)
            tail == LineTail(eol)
            line == w \o tail
<1>1. IsSeq(eol) /\ e \in 1 .. 2 /\ IsSeq(m) /\ Len(m) = 4
  BY LineEndShape, WordShapes
<1>2. IsSeq(w) /\ NoLineEnd(w) /\ IsSeq(ct) /\ HasNoMarker(ct) /\ PartShape(part)
  BY DispositionPlain DEF PartPlain, PartShape
<1>3. /\ At(t, p, m) /\ At(t, p + 4, eol) /\ At(t, s, w) /\ At(t, d, eol) /\ At(t, d + e, eol)
      /\ At(t, c, ct) /\ At(t, c + Len(ct), eol) /\ next = p + PartLength(w, ct, eol)
  <2>1. Stands(t, p, w, ct, eol) /\ Len(PartText(part, eol)) = PartLength(w, ct, eol)
    BY <1>1, <1>2, PartStands
  <2>2. At(t, p, m) /\ At(t, p + 4, eol) /\ At(t, s, w) /\ At(t, d, eol) /\ At(t, d + e, eol)
    <3>. HIDE DEF w, ct
    <3>. QED
      BY <2>1 DEF Stands
  <2>3. At(t, c, ct) /\ At(t, c + Len(ct), eol)
    <3>. HIDE DEF w, ct
    <3>. QED
      BY <2>1 DEF Stands
  <2>. QED
    BY <2>1, <2>2, <2>3
<1>4. At(w, 1, DispositionKey) /\ w[1] \notin {CR, LF} /\ Len(w) > 0
  <2>. DEFINE l == LineOf(part.name, FileText(part), <<>>)
  <2>1. IsSeq(part.name) /\ IsSeq(FileText(part)) /\ IsSeq(<<>>)
    BY DispositionPlain, TupleShape DEF PartPlain, PartShape
  <2>2. IsSeq(l) /\ At(l, 1, DispositionWords)
    BY <2>1, LinePieces
  <2>3. l = w
    <3>1. l = w \o <<>>
      BY DEF LineOf, Disposition
    <3>. QED
      BY <1>2, <3>1, ConcatOfNone
  <2>. HIDE DEF l, w
  <2>4. At(w, 1, DispositionKey) /\ \A i \in 1 .. 9 : i \in 1 .. Len(w) /\ w[i] = DispositionWords[i]
    BY <1>2, <2>2, <2>3, KeysStand
  <2>5. 1 \in 1 .. 9
    OBVIOUS
  <2>6. w[1] = "Content-Disposition" /\ 1 \in 1 .. Len(w)
    BY <2>4, <2>5, DispositionChars
  <2>7. "Content-Disposition" \notin {CR, LF}
    BY DEF CR, LF
  <2>8. Len(w) \in Nat
    BY <1>2, SeqShape
  <2>. QED
    BY <2>4, <2>6, <2>7, <2>8
<1>. HIDE DEF m, w, ct, tail
<1>5. Len(w) \in Nat /\ Len(ct) \in Nat /\ Len(t) \in Nat
  BY <1>2, SeqShape
<1>6. s \in Nat /\ s >= 1 /\ d \in Nat /\ d >= 1 /\ c \in Nat /\ c >= 1 /\ z \in Nat /\ z >= 1
      /\ next = z + e /\ c = d + e + e /\ c # npos /\ p + 4 \in Nat /\ p + 4 >= 1 /\ s = p + 4 + e
  BY <1>1, <1>3, <1>5 DEF PartLength, npos
<1>7. SkipLineEnd(t, p + 4) = s
  <2>. DEFINE a == p + 4
  <2>1. a \in Nat /\ a >= 1 /\ At(t, a, eol) /\ At(t, a + Len(eol), w) /\ s = a + Len(eol)
    BY <1>3, <1>6
  <2>. HIDE DEF a, s
  <2>2. SkipLineEnd(t, a) = a + Len(eol)
    BY <1>2, <1>4, <2>1, LineEndSkipped
  <2>. QED
    BY <2>1, <2>2 DEF a
<1>8. HeadersEnd(t, s) = c
  <2>. HIDE DEF s
  <2>1. HeadersEnd(t, s) = s + Len(w) + Len(eol) + Len(eol)
    BY <1>2, <1>3, <1>6, HeadersEndRead
  <2>. QED
    BY <2>1
<1>9. HeaderLine(SubSeq(t, s, c - 3), DispositionKey) = line /\ IsSeq(tail) /\ \A i \in 1 .. Len(tail) : tail[i] = CR
  <2>. HIDE DEF s
  <2>1. /\ IsSeq(tail) /\ \A i \in 1 .. Len(tail) : tail[i] = CR
        /\ HeaderLine(SubSeq(t, s, s + Len(w) + Len(eol) + Len(eol) - 3), DispositionKey) = line
    <3>. DEFINE k == s + Len(w) + Len(eol) + Len(eol) - 3
    <3>1. At(t, s, w) /\ At(t, s + Len(w), eol) /\ s \in Nat /\ s >= 1
      BY <1>3, <1>6
    <3>2. NoLineEnd(w) /\ At(w, 1, DispositionKey) /\ IsSeq(w) /\ IsLineEnd(eol) /\ IsSeq(t)
      BY <1>2, <1>4
    <3>3. IsSeq(LineTail(eol)) /\ (\A i \in 1 .. Len(LineTail(eol)) : LineTail(eol)[i] = CR)
          /\ HeaderLine(SubSeq(t, s, s + Len(w) + Len(eol) + Len(eol) - 3), DispositionKey) = w \o LineTail(eol)
      BY <3>1, <3>2, LineRead
    <3>. QED
      BY <3>3 DEF tail
  <2>2. s + Len(w) + Len(eol) + Len(eol) - 3 = c - 3
    BY <1>6
  <2>. HIDE DEF c
  <2>. QED
    BY <2>1, <2>2
<1>10. Find(t, m, c) = next /\ At(t, next, m)
  <2>1. Find(t, m, c) = c + Len(ct) + Len(eol)
    <3>1. At(t, c, ct) /\ At(t, c + Len(ct), eol) /\ At(t, c + Len(ct) + Len(eol), m)
      BY <1>3, <1>6 DEF m
    <3>. HIDE DEF c
    <3>. QED
      BY <1>2, <1>6, <3>1, MarkerFound DEF m
  <2>. QED
    BY <1>6, <2>1 DEF m
<1>11. ContentOf(SubSeq(t, c, next - 1)) = ct
  <2>. DEFINE v == ct \o eol
  <2>1. At(t, c, v) /\ IsSeq(v) /\ Len(v) = Len(ct) + Len(eol)
    <3>1. IsSeq(ct) /\ IsSeq(eol) /\ IsSeq(t) /\ c \in Nat /\ c >= 1 /\ At(t, c, ct) /\ At(t, c + Len(ct), eol)
      BY <1>1, <1>2, <1>3, <1>6
    <3>. HIDE DEF c
    <3>2. At(t, c, v)
      BY <3>1, AtOfTwo
    <3>. QED
      BY <3>1, <3>2, ConcatShape
  <2>2. ContentOf(v) = ct
    <3>1. eol = <<LF>> => ~EndsIn(ct, CR)
      BY DEF ct
    <3>. QED
      BY <1>2, <3>1, ContentRead
  <2>3. c + Len(v) - 1 = next - 1
    BY <1>1, <1>5, <1>6, <2>1
  <2>. HIDE DEF v, c
  <2>4. SubSeq(t, c, c + Len(v) - 1) = v
    BY <1>6, <2>1, AtCut
  <2>. QED
    BY <2>2, <2>3, <2>4
<1>12. Parameter(line, NameKey) = part.name /\ Parameter(line, FileKey) = part.filename
  BY <1>9, LineNames DEF w
<1>13. ~(p + 4 > Len(t)) /\ next # npos
  <2>1. next + 4 - 1 <= Len(t)
    BY <1>1, <1>10 DEF At
  <2>. QED
    BY <1>1, <1>5, <1>6, <2>1 DEF npos
<1>. HIDE DEF s, c, d, z, line
<1>14. PartAt(t, Boundary, p + 4) =
         IF p + 4 > Len(t) \/ c = npos \/ next = npos THEN NoPart
         ELSE [found |-> TRUE, name |-> Parameter(line, NameKey), filename |-> Parameter(line, FileKey),
               content |-> ContentOf(SubSeq(t, c, next - 1)),
               last |-> StartsWith(t, next, m \o <<"-", "-">>), behind |-> next + Len(m)]
  BY <1>7, <1>8, <1>9, <1>10, Zenon DEF PartAt, NameKey, FileKey, DispositionKey, m
<1>. QED
  BY <1>1, <1>6, <1>11, <1>12, <1>13, <1>14, Zenon DEF m, ct

-----------------------------------------------------------------------------
(***************************************************************************)
(* The text of the request: its lines, its headers and its body.           *)
(***************************************************************************)

(* The last piece of a text grows with the text. *)
LastGrows(front, last, c, sep) == WithChar(Append(front, last), c, sep) = Append(front, Append(last, c))

LEMMA LastPieceGrows ==
  ASSUME NEW Elem, NEW sep, NEW front \in Seq(Seq(Elem)), NEW last \in Seq(Elem), NEW c \in Elem, c # sep
  PROVE  LastGrows(front, last, c, sep)
<1>. DEFINE Row == Seq(Elem)
            n == Len(front)
            old == Append(front, last)
            more == Append(last, c)
            new == Append(front, more)
            w == WithChar(old, c, sep)
<1>1. more \in Row /\ last \in Row /\ front \in Seq(Row)
  BY AppendProperties
<1>. HIDE DEF more, Row
<1>2. old \in Seq(Row) /\ Len(old) = n + 1 /\ old[n + 1] = last /\ (\A i \in 1 .. n : old[i] = front[i]) /\ n \in Nat
  BY <1>1, AppendProperties, LenProperties
<1>3. new \in Seq(Row) /\ Len(new) = n + 1 /\ new[n + 1] = more /\ \A i \in 1 .. n : new[i] = front[i]
  BY <1>1, AppendProperties
<1>. HIDE DEF old, new, n
<1>4. old # <<>>
  <2>1. IsSeq(old) /\ Len(old) > 0
    BY <1>2, SeqIs
  <2>. QED
    BY <2>1, SeqShape
<1>5. w \in Seq(Row) /\ Grown(w, old, c, sep)
  <2>1. old \in Parts(Elem)
    BY <1>2, <1>4 DEF Parts, Row
  <2>2. w \in Parts(Elem) /\ Grown(w, old, c, sep)
    BY <2>1, WithCharIs
  <2>. QED
    BY <2>2 DEF Parts, Row
<1>. HIDE DEF w
<1>6. Len(w) = n + 1 /\ w[n + 1] = more /\ \A i \in 1 .. n : w[i] = front[i]
  <2>1. Len(w) = Len(old) /\ w[Len(old)] = Append(old[Len(old)], c) /\ \A i \in 1 .. Len(old) - 1 : w[i] = old[i]
    BY <1>5 DEF Grown
  <2>2. (n + 1) - 1 = n
    BY <1>2
  <2>. QED
    BY <1>2, <2>1, <2>2 DEF more
<1>7. \A i \in 1 .. n + 1 : i \in 1 .. n \/ i = n + 1
  BY <1>2
<1>8. \A i \in 1 .. n + 1 : w[i] = new[i]
  BY <1>3, <1>6, <1>7
<1>9. w = new
  BY <1>3, <1>5, <1>6, <1>8, SameSequence
<1>. QED
  BY <1>9 DEF w, new, old, more, LastGrows

(* The pieces of a text, each with the separator behind it, are the text with one more. *)
LEMMA Rejoined ==
  ASSUME NEW Elem, NEW sep, sep \in Elem, NEW t \in Seq(Elem)
  PROVE  FlattenSeq([i \in DOMAIN SplitAt(t, sep) |-> SplitAt(t, sep)[i] \o <<sep>>]) = t \o <<sep>>
<1>. DEFINE Row == Seq(Elem)
            F == [r \in Row |-> r \o <<sep>>]
            In(u, front, last) == SplitAt(u, sep) = Append(front, last) /\ Spread(front, F) \o last = u
            S == {u \in Seq(Elem) : \E front \in Seq(Row), last \in Row : In(u, front, last)}
<1>1. <<sep>> \in Row /\ <<>> \in Row
  BY OneTuple, EmptySeq
<1>2. IsMap(F, Row, Row)
  <2>1. \A r \in Row : r \o <<sep>> \in Row
    BY <1>1, ConcatProperties
  <2>. HIDE DEF Row
  <2>. QED
    BY <2>1 DEF IsMap
<1>3. \A r \in Row : F[r] = r \o <<sep>>
  OBVIOUS
<1>. HIDE DEF F
<1>4. \A front \in Seq(Row) : \A e \in Row : /\ Spread(front, F) \in Row /\ Spread(<<>>, F) = <<>>
                                             /\ Spread(Append(front, e), F) = Spread(front, F) \o F[e]
  BY <1>2, SpreadGrows
<1>5. <<>> \in Seq(Row)
  BY EmptySeq
<1>14. \A x, y, z \in Row : Associate(x, y, z)
  BY ConcatsAssociate
<1>15. \A front \in Seq(Row) : \A last \in Row : \A c \in Elem : c # sep => LastGrows(front, last, c, sep)
  BY LastPieceGrows
<1>16. \A e \in Elem : <<e>> \in Row
  BY OneTuple
<1>17. \A front \in Seq(Row) : \A last \in Row : Append(front, last) \in Seq(Row)
  <2>. HIDE DEF Row
  <2>. QED
    BY AppendProperties
<1>6. <<>> \in S
  <2>1. SplitAt(<<>>, sep) = Append(<<>>, <<>>)
    BY SplitOfEmpty, AppendToNone
  <2>2. Spread(<<>>, F) \o <<>> = <<>>
    <3>1. Spread(<<>>, F) = <<>>
      BY <1>1, <1>4, <1>5
    <3>2. <<>> \o <<>> = <<>>
      BY <1>1, ConcatEmptySeq
    <3>. QED
      BY <3>1, <3>2
  <2>3. In(<<>>, <<>>, <<>>)
    BY <2>1, <2>2
  <2>. HIDE DEF In
  <2>. QED
    BY <1>1, <1>5, <2>3
<1>7. ASSUME NEW u \in Seq(Elem), NEW c \in Elem, u \in S PROVE Append(u, c) \in S
  <2>1. PICK front \in Seq(Row), last \in Row : In(u, front, last)
    BY <1>7
  <2>. DEFINE flat == Spread(front, F)
  <2>2. /\ SplitAt(u, sep) = Append(front, last) /\ flat \o last = u /\ flat \in Row
        /\ Append(u, c) \in Row /\ Append(u, c) = u \o <<c>>
        /\ SplitAt(Append(u, c), sep) = WithChar(Append(front, last), c, sep)
    <3>1. SplitAt(Append(u, c), sep) = WithChar(SplitAt(u, sep), c, sep)
      BY SplitGrows
    <3>2. flat \in Row /\ Append(u, c) \in Row /\ Append(u, c) = u \o <<c>>
      BY <1>4, AppendProperties, AppendIsConcat
    <3>. QED
      BY <2>1, <3>1, <3>2
  <2>3. CASE c = sep
    <3>. DEFINE longer == Append(front, last)
    <3>1. longer \in Seq(Row)
      <4>. HIDE DEF Row
      <4>. QED
        BY AppendProperties
    <3>2. SplitAt(Append(u, c), sep) = Append(longer, <<>>)
      BY <2>2, <2>3 DEF WithChar
    <3>3. Spread(longer, F) = flat \o (last \o <<sep>>)
      BY <1>3, <1>4
    <3>4. flat \o (last \o <<sep>>) = (flat \o last) \o <<sep>>
      <4>. HIDE DEF flat, Row
      <4>1. flat \in Row
        BY <2>2
      <4>. QED
        BY <1>1, <1>14, <1>16, <4>1 DEF Associate
    <3>5. (u \o <<sep>>) \o <<>> = u \o <<sep>>
      BY <2>2, <2>3, ConcatEmptySeq
    <3>. HIDE DEF longer, flat
    <3>6. Spread(longer, F) \o <<>> = Append(u, c)
      BY <2>2, <2>3, <3>3, <3>4, <3>5
    <3>7. In(Append(u, c), longer, <<>>)
      BY <3>2, <3>6
    <3>. HIDE DEF In
    <3>. QED
      BY <1>1, <2>2, <3>1, <3>7
  <2>4. CASE c # sep
    <3>. DEFINE more == Append(last, c)
    <3>1. more \in Row /\ more = last \o <<c>>
      BY AppendProperties, AppendIsConcat
    <3>2. SplitAt(Append(u, c), sep) = Append(front, more)
      <4>1. WithChar(Append(front, last), c, sep) = Append(front, Append(last, c))
        BY <1>15, <2>4 DEF LastGrows
      <4>. QED
        BY <2>2, <4>1
    <3>3. <<c>> \in Row
      BY OneTuple
    <3>4. flat \o (last \o <<c>>) = (flat \o last) \o <<c>>
      <4>. HIDE DEF flat, Row
      <4>1. flat \in Row
        BY <2>2
      <4>. QED
        BY <1>1, <1>14, <1>16, <4>1 DEF Associate
    <3>. HIDE DEF more, flat
    <3>5. flat \o more = Append(u, c)
      BY <2>2, <3>1, <3>4
    <3>6. In(Append(u, c), front, more)
      BY <3>2, <3>5 DEF flat
    <3>. HIDE DEF In
    <3>. QED
      BY <2>2, <3>1, <3>6
  <2>. QED
    BY <2>3, <2>4
<1>8. t \in S
  <2>1. Seq(Elem) \subseteq S
    <3>. HIDE DEF S
    <3>. QED
      BY <1>6, <1>7, SequenceInduction
  <2>. QED
    BY <2>1
<1>9. PICK front \in Seq(Row), last \in Row : In(t, front, last)
  BY <1>8
<1>. DEFINE pieces == Append(front, last)
            flat == Spread(front, F)
<1>10. SplitAt(t, sep) = pieces /\ flat \o last = t /\ flat \in Row
  BY <1>4, <1>9
<1>11. [i \in DOMAIN pieces |-> pieces[i] \o <<sep>>] = Mapped(pieces, F)
  <2>1. pieces \in Seq(Row)
    <3>. HIDE DEF Row
    <3>. QED
      BY AppendProperties
  <2>2. \A i \in DOMAIN pieces : pieces[i] \in Row
    <3>. HIDE DEF pieces, Row
    <3>. QED
      BY <2>1, LenProperties, ElementOfSeq
  <2>. HIDE DEF pieces
  <2>. QED
    BY <1>3, <2>2 DEF Mapped
<1>12. FlattenSeq(Mapped(pieces, F)) = flat \o (last \o <<sep>>)
  <2>1. Spread(pieces, F) = flat \o F[last]
    BY <1>4
  <2>. QED
    BY <1>3, <2>1 DEF Spread
<1>13. flat \o (last \o <<sep>>) = (flat \o last) \o <<sep>>
  BY <1>1, <1>10, <1>14 DEF Associate
<1>. HIDE DEF pieces, flat
<1>. QED
  BY <1>10, <1>11, <1>12, <1>13

LEMMA EolIs ==
  ASSUME NEW eol, IsLineEnd(eol)
  PROVE  IsSeq(LineTail(eol)) /\ IsSeq(eol) /\ eol = LineTail(eol) \o <<LF>>
<1>. DEFINE cr == <<CR>>
            lf == <<LF>>
            none == <<>>
<1>1. IsSeq(cr) /\ IsSeq(lf) /\ IsSeq(none) /\ none \o lf = lf
  BY TupleShape, ConcatOfNone
<1>2. CRLF = cr \o lf
  <2>1. CRLF = Append(cr, LF)
    BY AppendToOne DEF CRLF
  <2>2. Append(cr, LF) = cr \o lf
    BY <1>1, AppendIsConcatShape
  <2>. QED
    BY <2>1, <2>2
<1>3. IsSeq(eol)
  BY LineEndShape
<1>. HIDE DEF cr, lf, none
<1>4. LineTail(eol) = IF eol = CRLF THEN cr ELSE none
  BY DEF LineTail, cr, none
<1>5. eol = CRLF \/ eol = lf
  BY DEF IsLineEnd, lf
<1>6. CASE eol = CRLF
  BY <1>1, <1>2, <1>3, <1>4, <1>6 DEF lf
<1>7. CASE eol = lf
  <2>1. eol # CRLF
    <3>1. Len(lf) = 1 /\ Len(CRLF) = 2
      BY LineEndShape DEF lf
    <3>. QED
      BY <1>7, <3>1
  <2>. QED
    BY <1>1, <1>3, <1>4, <1>7, <2>1 DEF lf
<1>. QED
  BY <1>5, <1>6, <1>7

LEMMA ConcatsRegroup ==
  \A a, b, c : IsSeq(a) /\ IsSeq(b) /\ IsSeq(c) => Associate(a, b, c)
BY ConcatOfThree DEF Associate

(* A line y that ends behind the text x. *)
EndedBy(x, y, eol) == (x \o y) \o eol = Append(x \o (y \o LineTail(eol)), LF)

LEMMA LineEnds ==
  ASSUME NEW x, IsSeq(x), NEW y, IsSeq(y), NEW eol, IsLineEnd(eol)
  PROVE  EndedBy(x, y, eol)
<1>. DEFINE tail == LineTail(eol)
            lf == <<LF>>
            xy == x \o y
            yt == y \o tail
            xyt == x \o yt
<1>1. IsSeq(tail) /\ IsSeq(lf) /\ eol = tail \o lf
  BY EolIs, TupleShape
<1>. HIDE DEF tail, lf
<1>2. IsSeq(xy) /\ IsSeq(yt)
  BY <1>1, ConcatShape
<1>3. xy \o tail = xyt
  <2>1. Associate(x, y, tail)
    BY <1>1, ConcatsRegroup
  <2>. QED
    BY <2>1 DEF Associate
<1>. HIDE DEF xy, yt
<1>4. IsSeq(xyt)
  BY <1>2, ConcatShape
<1>5. (xy \o tail) \o lf = xy \o (tail \o lf)
  <2>1. Associate(xy, tail, lf)
    BY <1>1, <1>2, ConcatsRegroup
  <2>. QED
    BY <2>1 DEF Associate
<1>. HIDE DEF xyt
<1>6. Append(xyt, LF) = xyt \o lf
  BY <1>4, AppendIsConcatShape DEF lf
<1>7. xy \o eol = Append(xyt, LF)
  BY <1>1, <1>3, <1>5, <1>6
<1>. QED
  BY <1>7 DEF EndedBy, xyt, xy, yt, tail

(* Four lines behind each other and what follows. *)
Lined(r1, r2, r3, r4) == Append(Append(Append(r1, LF) \o r2, LF) \o r3, LF) \o r4

IsLined(f, g, h, eol) ==
  (((((f \o eol) \o g) \o eol) \o h) \o eol) \o eol =
    Append(Lined(f \o LineTail(eol), g \o LineTail(eol), h \o LineTail(eol), LineTail(eol)), LF)

LEMMA LinedIs ==
  ASSUME NEW f, IsSeq(f), NEW g, IsSeq(g), NEW h, IsSeq(h), NEW eol, IsLineEnd(eol)
  PROVE  IsLined(f, g, h, eol)
<1>. DEFINE tail == LineTail(eol)
            none == <<>>
            r1 == f \o tail
            r2 == g \o tail
            r3 == h \o tail
            e1 == Append(r1, LF)
            t2 == e1 \o r2
            e2 == Append(t2, LF)
            t3 == e2 \o r3
            e3 == Append(t3, LF)
            t4 == e3 \o tail
<1>1. IsSeq(tail) /\ IsSeq(none)
  BY EolIs, TupleShape
<1>2. IsSeq(r1) /\ IsSeq(r2) /\ IsSeq(r3)
  BY <1>1, ConcatShape
<1>3. none \o f = f /\ none \o r1 = r1 /\ none \o tail = tail
  BY <1>1, <1>2, ConcatOfNone
<1>4. (none \o f) \o eol = Append(none \o r1, LF)
  <2>. HIDE DEF none
  <2>1. EndedBy(none, f, eol)
    BY <1>1, LineEnds
  <2>. QED
    BY <2>1 DEF EndedBy
<1>5. f \o eol = e1
  BY <1>3, <1>4
<1>6. IsSeq(e1)
  BY <1>2, AppendShape
<1>. HIDE DEF e1
<1>7. (e1 \o g) \o eol = e2
  <2>1. EndedBy(e1, g, eol)
    BY <1>6, LineEnds
  <2>. QED
    BY <2>1 DEF EndedBy
<1>8. IsSeq(t2)
  BY <1>2, <1>6, ConcatShape
<1>. HIDE DEF t2
<1>9. IsSeq(e2)
  BY <1>8, AppendShape
<1>. HIDE DEF e2
<1>10. (e2 \o h) \o eol = e3
  <2>1. EndedBy(e2, h, eol)
    BY <1>9, LineEnds
  <2>. QED
    BY <2>1 DEF EndedBy
<1>11. IsSeq(t3)
  BY <1>2, <1>9, ConcatShape
<1>. HIDE DEF t3
<1>12. IsSeq(e3)
  BY <1>11, AppendShape
<1>. HIDE DEF e3
<1>13. (e3 \o none) \o eol = Append(e3 \o (none \o tail), LF)
  <2>. HIDE DEF none
  <2>1. EndedBy(e3, none, eol)
    BY <1>1, <1>12, LineEnds
  <2>. QED
    BY <2>1 DEF EndedBy
<1>14. e3 \o none = e3
  BY <1>12, ConcatOfNone
<1>15. e3 \o eol = Append(t4, LF)
  BY <1>3, <1>13, <1>14
<1>16. t4 = Lined(r1, r2, r3, tail)
  BY DEF Lined, t2, t3, e1, e2, e3
<1>. HIDE DEF t4, r1, r2, r3, tail
<1>17. (((((f \o eol) \o g) \o eol) \o h) \o eol) \o eol = Append(Lined(r1, r2, r3, tail), LF)
  BY <1>5, <1>7, <1>10, <1>15, <1>16
<1>. QED
  BY <1>17 DEF IsLined, r1, r2, r3, tail

(* The pieces of four lines, and of what follows them. *)
SplitsLined(r1, r2, r3, r4, content) ==
  SplitAt(Append(Lined(r1, r2, r3, r4), LF) \o content, LF) = <<r1, r2, r3, r4>> \o SplitAt(content, LF)

LEMMA SplitOfLined ==
  ASSUME NEW Wide, LF \in Wide, NEW r1, NEW r2, NEW r3, NEW r4,
         r1 \in Seq(Wide \ {LF}), r2 \in Seq(Wide \ {LF}), r3 \in Seq(Wide \ {LF}), r4 \in Seq(Wide \ {LF}),
         NEW content \in Seq(Wide)
  PROVE  SplitsLined(r1, r2, r3, r4, content)
<1>. DEFINE W == Seq(Wide)
            t2 == Append(r1, LF) \o r2
            t3 == Append(t2, LF) \o r3
            t4 == Append(t3, LF) \o r4
            Two(p, w) == Append(p, LF) \o w \in W /\ SplitAt(Append(p, LF) \o w, LF) = SplitAt(p, LF) \o SplitAt(w, LF)
            s == SplitAt(content, LF)
<1>1. \A p, w \in W : Two(p, w)
  BY SplitOfTwo
<1>2. r1 \in W /\ r2 \in W /\ r3 \in W /\ r4 \in W /\ content \in W
  <2>1. Seq(Wide \ {LF}) \subseteq W
    BY SeqMonotonic
  <2>. QED
    BY <2>1
<1>3. SplitAt(r1, LF) = <<r1>> /\ SplitAt(r2, LF) = <<r2>> /\ SplitAt(r3, LF) = <<r3>> /\ SplitAt(r4, LF) = <<r4>>
  <2>1. LF \notin Wide \ {LF}
    OBVIOUS
  <2>. DEFINE Narrow == Wide \ {LF}
  <2>. HIDE DEF Narrow
  <2>2. \A r \in Seq(Narrow) : SplitAt(r, LF) = <<r>>
    BY <2>1, SplitOfPlain DEF Narrow
  <2>. QED
    BY <2>2 DEF Narrow
<1>. HIDE DEF W
<1>4. t2 \in W /\ SplitAt(t2, LF) = <<r1>> \o <<r2>>
  <2>1. Two(r1, r2)
    <3>. HIDE DEF Two
    <3>. QED
      BY <1>1, <1>2
  <2>. QED
    BY <1>3, <2>1
<1>. HIDE DEF t2
<1>5. t3 \in W /\ SplitAt(t3, LF) = (<<r1>> \o <<r2>>) \o <<r3>>
  BY <1>1, <1>2, <1>3, <1>4
<1>. HIDE DEF t3
<1>6. t4 \in W /\ SplitAt(t4, LF) = ((<<r1>> \o <<r2>>) \o <<r3>>) \o <<r4>>
  BY <1>1, <1>2, <1>3, <1>5
<1>. HIDE DEF t4
<1>7. SplitAt(Append(t4, LF) \o content, LF) = (((<<r1>> \o <<r2>>) \o <<r3>>) \o <<r4>>) \o s
  BY <1>1, <1>2, <1>6
<1>8. ((<<r1>> \o <<r2>>) \o <<r3>>) \o <<r4>> = <<r1, r2, r3, r4>>
  <2>. DEFINE R == {r1, r2, r3, r4}
              s1 == <<r1>>
              s2 == <<r1, r2>>
              s3 == <<r1, r2, r3>>
              s4 == <<r1, r2, r3, r4>>
  <2>1. s1 \in Seq(R) /\ s2 \in Seq(R) /\ s3 \in Seq(R) /\ r1 \in R /\ r2 \in R /\ r3 \in R /\ r4 \in R
        /\ s2 = Append(s1, r2) /\ s3 = Append(s2, r3) /\ s4 = Append(s3, r4)
    <3>. HIDE DEF s
    <3>. QED
      OBVIOUS
  <2>. HIDE DEF R, s1, s2, s3, s4
  <2>2. s2 = s1 \o <<r2>> /\ s3 = s2 \o <<r3>> /\ s4 = s3 \o <<r4>>
    BY <2>1, AppendIsConcat
  <2>. QED
    BY <2>2 DEF s1, s4
<1>9. t4 = Lined(r1, r2, r3, r4)
  BY DEF Lined, t2, t3, t4
<1>. QED
  BY <1>7, <1>8, <1>9 DEF s, SplitsLined

(* The characters of an upload: the prover does not know that they are all strings. *)
AnyChar ==
  STRING \cup {CR, LF, "POST", "/upload", "HTTP/1.1", "Host", "b", " ", ":", "-", "=", Quote, Semicolon,
               "multipart", "boundary", "Content-Disposition", "form-data", "name", "file"}
Clean == AnyChar \ {CR, LF}

(* What the lines before the body say of a request with one header besides the host. *)
LEMMA TwoHeaders ==
  ASSUME NEW l, BlankLine(l) = 4
  PROVE  HeadersOf(l) = AddHeader(AddHeader(NoFields, Without(l[2], CR)), Without(l[3], CR))
<1>. DEFINE a1 == AddHeader(NoFields, Without(l[2], CR))
            a2 == AddHeader(a1, Without(l[3], CR))
            Is(f) == f = [i \in 0 .. BlankLine(l) - 2 |-> IF i = 0 THEN NoFields ELSE AddHeader(f[i - 1], Without(l[i + 1], CR))]
            h == CHOOSE f : Is(f)
            g == [i \in 0 .. 2 |-> IF i = 0 THEN NoFields ELSE IF i = 1 THEN a1 ELSE a2]
<1>1. BlankLine(l) - 2 = 2
  OBVIOUS
<1>2. g[0] = NoFields /\ g[1] = a1 /\ g[2] = a2 /\ g = [i \in 0 .. 2 |-> g[i]]
  OBVIOUS
<1>3. Is(g)
  <2>1. \A i \in 0 .. 2 : i = 0 \/ (i = 1 /\ i - 1 = 0 /\ i + 1 = 2 /\ i # 0) \/ (i = 2 /\ i - 1 = 1 /\ i + 1 = 3 /\ i # 0)
    OBVIOUS
  <2>. HIDE DEF g
  <2>2. \A i \in 0 .. 2 : g[i] = IF i = 0 THEN NoFields ELSE AddHeader(g[i - 1], Without(l[i + 1], CR))
    BY <1>2, <2>1
  <2>. QED
    BY <1>1, <1>2, <2>2
<1>4. Is(h)
  BY <1>3
<1>. HIDE DEF h, g
<1>5. h[0] = NoFields /\ h[1] = AddHeader(h[0], Without(l[2], CR)) /\ h[2] = AddHeader(h[1], Without(l[3], CR))
  <2>1. 0 \in 0 .. 2 /\ 1 \in 0 .. 2 /\ 2 \in 0 .. 2 /\ 1 - 1 = 0 /\ 2 - 1 = 1 /\ 1 + 1 = 2 /\ 2 + 1 = 3 /\ 1 # 0 /\ 2 # 0
    OBVIOUS
  <2>2. h = [i \in 0 .. 2 |-> IF i = 0 THEN NoFields ELSE AddHeader(h[i - 1], Without(l[i + 1], CR))]
    BY <1>1, <1>4
  <2>3. \A i \in 0 .. 2 : h[i] = IF i = 0 THEN NoFields ELSE AddHeader(h[i - 1], Without(l[i + 1], CR))
    BY <2>2
  <2>. QED
    BY <2>1, <2>3
<1>6. HeadersOf(l) = h[2]
  BY <1>1 DEF HeadersOf, h
<1>. QED
  BY <1>5, <1>6

(* The lines of a request whose body ends its last line. *)
EndedLines(r1, r2, r3, r4, inner) ==
  GetLines(Append(Lined(r1, r2, r3, r4), LF) \o (inner \o <<LF>>), LF) = <<r1, r2, r3, r4>> \o SplitAt(inner, LF)

LEMMA LinesOfEnded ==
  ASSUME NEW Wide, LF \in Wide, NEW r1, NEW r2, NEW r3, NEW r4,
         r1 \in Seq(Wide \ {LF}), r2 \in Seq(Wide \ {LF}), r3 \in Seq(Wide \ {LF}), r4 \in Seq(Wide \ {LF}),
         NEW inner \in Seq(Wide)
  PROVE  EndedLines(r1, r2, r3, r4, inner)
<1>. DEFINE W == Seq(Wide)
            lf == <<LF>>
            content == inner \o lf
            head == <<r1, r2, r3, r4>>
            s == SplitAt(inner, LF)
            whole == Append(Lined(r1, r2, r3, r4), LF) \o content
<1>1. r1 \in W /\ r2 \in W /\ r3 \in W /\ r4 \in W /\ inner \in W /\ lf \in W
  <2>1. Seq(Wide \ {LF}) \subseteq W
    BY SeqMonotonic
  <2>2. lf \in W
    BY OneTuple
  <2>. QED
    BY <2>1, <2>2
<1>2. content \in W
  <2>. HIDE DEF lf
  <2>. QED
    BY <1>1, ConcatProperties
<1>3. SplitAt(content, LF) = s \o << <<>> >>
  <2>. DEFINE none == <<>>
              p == Append(inner, LF)
  <2>1. none \in W /\ SplitAt(none, LF) = <<none>>
    BY EmptySeq, SplitOfEmpty
  <2>2. p = content /\ p \in W
    BY <1>2, AppendIsConcat
  <2>. HIDE DEF none
  <2>3. SplitAt(p \o none, LF) = s \o SplitAt(none, LF)
    <3>1. none \in Seq(Wide)
      BY <2>1
    <3>. HIDE DEF W
    <3>. QED
      BY <3>1, SplitOfTwo
  <2>4. p \o none = p
    <3>. HIDE DEF p
    <3>. QED
      BY <2>2, ConcatEmptySeq DEF none
  <2>. HIDE DEF p, content
  <2>. QED
    BY <2>1, <2>2, <2>3, <2>4 DEF none
<1>4. s \in Seq(W) /\ head \in Seq(W)
  <2>1. s \in Seq(W)
    BY SplitType DEF Parts
  <2>. HIDE DEF W
  <2>. QED
    BY <1>1, <2>1
<1>5. SplitAt(whole, LF) = head \o SplitAt(content, LF)
  <2>1. content \in Seq(Wide)
    BY <1>2
  <2>. HIDE DEF content, s, W
  <2>2. SplitsLined(r1, r2, r3, r4, content)
    BY <2>1, SplitOfLined
  <2>. QED
    BY <2>2 DEF SplitsLined
<1>. HIDE DEF content, head, s, whole, W
<1>6. head \o SplitAt(content, LF) = Append(head \o s, <<>>) /\ head \o s \in Seq(W)
  <2>1. IsSeq(head) /\ IsSeq(s)
    BY <1>4, SeqIs
  <2>2. Append(s, <<>>) = s \o << <<>> >> /\ head \o Append(s, <<>>) = Append(head \o s, <<>>)
    BY <2>1, AppendIsConcatShape, AppendBehind
  <2>3. head \o s \in Seq(W)
    BY <1>4, ConcatProperties
  <2>. QED
    BY <1>3, <2>2, <2>3
<1>7. Without(Append(head \o s, <<>>), <<>>) = head \o s
  BY <1>6, WithoutIs
<1>8. GetLines(whole, LF) = head \o s
  BY <1>5, <1>6, <1>7 DEF GetLines
<1>. QED
  BY <1>8 DEF whole, content, head, s, lf, EndedLines

FourThenRest(l, a, b, c, d, tail) ==
  /\ Len(l) \in Nat /\ Len(l) >= 4 /\ l[1] = a /\ l[2] = b /\ l[3] = c /\ l[4] = d
  /\ SubSeq(l, 5, Len(l)) = tail

LEMMA FourAndRest ==
  ASSUME NEW Row, NEW a \in Row, NEW b \in Row, NEW c \in Row, NEW d \in Row, NEW tail \in Seq(Row)
  PROVE  FourThenRest(<<a, b, c, d>> \o tail, a, b, c, d, tail)
<1>. DEFINE head == <<a, b, c, d>>
            l == head \o tail
<1>1. head \in Seq(Row) /\ Len(head) = 4 /\ head[1] = a /\ head[2] = b /\ head[3] = c /\ head[4] = d
  OBVIOUS
<1>. HIDE DEF head
<1>2. Len(tail) \in Nat /\ Len(l) = 4 + Len(tail) /\ \A i \in 1 .. 4 + Len(tail) : i <= 4 => l[i] = head[i]
  <2>1. Len(tail) \in Nat
    BY LenProperties
  <2>2. Len(l) = Len(head) + Len(tail)
        /\ \A i \in 1 .. Len(head) + Len(tail) : l[i] = IF i <= Len(head) THEN head[i] ELSE tail[i - Len(head)]
    BY <1>1, ConcatProperties
  <2>. HIDE DEF l
  <2>. QED
    BY <1>1, <2>1, <2>2
<1>3. SubSeq(l, Len(head) + 1, Len(l)) = tail
  BY <1>1, PartsOfTwo
<1>. HIDE DEF l
<1>4. l[1] = a /\ l[2] = b /\ l[3] = c /\ l[4] = d
  <2>1. \A i \in 1 .. 4 : i \in 1 .. 4 + Len(tail) /\ i <= 4
    BY <1>2
  <2>2. 1 \in 1 .. 4 /\ 2 \in 1 .. 4 /\ 3 \in 1 .. 4 /\ 4 \in 1 .. 4
    OBVIOUS
  <2>. QED
    BY <1>1, <1>2, <2>1, <2>2
<1>5. Len(head) + 1 = 5 /\ Len(l) \in Nat /\ Len(l) >= 4
  BY <1>1, <1>2
<1>. QED
  BY <1>3, <1>4, <1>5 DEF l, head, FourThenRest

(* A line without line ends, and the same with what getline leaves behind it. *)
LEMMA CleanLine ==
  ASSUME NEW y \in Seq(Clean), NEW eol, IsLineEnd(eol)
  PROVE  /\ IsSeq(y) /\ y \o LineTail(eol) \in Seq(AnyChar \ {LF}) /\ LineTail(eol) \in Seq(AnyChar \ {LF})
         /\ Without(y \o LineTail(eol), CR) = y
<1>. DEFINE Narrow == AnyChar \ {LF}
            cr == <<CR>>
            none == <<>>
<1>1. CR \in Narrow /\ Clean \subseteq Narrow /\ CR \notin Clean
  <2>1. CR \in AnyChar /\ CR # LF
    BY LineEndShape DEF AnyChar, IsLineEnd
  <2>. QED
    BY <2>1 DEF Clean
<1>2. y \in Seq(Narrow)
  <2>1. Seq(Clean) \subseteq Seq(Narrow)
    BY <1>1, SeqMonotonic
  <2>. QED
    BY <2>1
<1>. HIDE DEF Narrow
<1>3. IsSeq(y) /\ y \o none = y /\ y \o cr = Append(y, CR)
  BY SeqIs, ConcatOfNone, AppendIsConcatShape
<1>4. cr \in Seq(Narrow) /\ none \in Seq(Narrow) /\ Append(y, CR) \in Seq(Narrow)
  BY <1>1, <1>2, OneTuple, EmptySeq, AppendProperties
<1>5. Without(Append(y, CR), CR) = y /\ Without(y, CR) = y
  <2>1. ~EndsIn(y, CR)
    <3>1. Len(y) \in Nat /\ \A i \in 1 .. Len(y) : y[i] \in Clean
      BY LenProperties, ElementOfSeq
    <3>2. y # <<>> => Len(y) \in 1 .. Len(y)
      BY <1>3, <3>1, SeqShape
    <3>. QED
      BY <1>1, <3>1, <3>2 DEF EndsIn, IsEmpty
  <2>. QED
    BY <1>2, <2>1, WithoutIs
<1>6. LineTail(eol) = cr \/ LineTail(eol) = none
  BY DEF LineTail
<1>. HIDE DEF cr, none
<1>. QED
  BY <1>2, <1>3, <1>4, <1>5, <1>6 DEF Narrow

(* What parse_request makes of an upload. *)
UploadRead(text, header, value, inner) ==
  LET q == ParseRequest(text)
  IN /\ q.method = <<"POST">> /\ q.uri = <<"/upload">> /\ q.body = inner
     /\ q.headers = AddHeader(AddHeader(NoFields, HostLine), HeaderOf(header, value))

LEMMA UploadLines ==
  ASSUME NEW header \in Clean, NEW value \in Seq(Clean)
  PROVE  /\ FirstLine("POST", <<"/upload">>) \in Seq(Clean) /\ HostLine \in Seq(Clean) /\ HostLine # <<>>
         /\ <<header, ":", " ">> \in Seq(Clean)
         /\ HeaderOf(header, value) \in Seq(Clean) /\ HeaderOf(header, value) # <<>>
<1>. DEFINE post == "POST"
            blank == " "
            version == "HTTP/1.1"
            host == "Host"
            b == "b"
            colon == ":"
            path == "/upload"
            p == <<path>>
            x == <<post, blank>>
            y == <<blank, version>>
            k == <<header, colon, blank>>
            hl == <<host, colon, blank, b>>
<1>1. post \in Clean /\ blank \in Clean /\ version \in Clean /\ host \in Clean /\ b \in Clean /\ colon \in Clean /\ path \in Clean
  <2>1. post \in AnyChar /\ blank \in AnyChar /\ version \in AnyChar /\ host \in AnyChar /\ b \in AnyChar /\ colon \in AnyChar /\ path \in AnyChar
    BY DEF AnyChar
  <2>2. /\ post \notin {CR, LF} /\ blank \notin {CR, LF} /\ version \notin {CR, LF} /\ host \notin {CR, LF}
        /\ b \notin {CR, LF} /\ colon \notin {CR, LF} /\ path \notin {CR, LF}
    BY DEF CR, LF
  <2>. HIDE DEF post, blank, version, host, b, colon, path
  <2>. QED
    BY <2>1, <2>2 DEF Clean
<1>2. FirstLine(post, p) = (x \o p) \o y /\ HostLine = hl /\ HeaderOf(header, value) = k \o value
  BY DEF FirstLine, HostLine, HeaderOf
<1>. HIDE DEF post, blank, version, host, b, colon, path
<1>3. p \in Seq(Clean) /\ x \in Seq(Clean) /\ y \in Seq(Clean) /\ k \in Seq(Clean) /\ hl \in Seq(Clean)
      /\ Len(k) = 3 /\ Len(hl) = 4
  BY <1>1
<1>. HIDE DEF p, x, y, k, hl
<1>4. x \o p \in Seq(Clean)
  BY <1>3, ConcatProperties
<1>5. (x \o p) \o y \in Seq(Clean)
  BY <1>3, <1>4, ConcatProperties
<1>6. k \o value \in Seq(Clean) /\ Len(k \o value) > 0
  <2>. HIDE DEF Clean
  <2>1. k \o value \in Seq(Clean) /\ Len(k \o value) = Len(k) + Len(value)
    BY <1>3, ConcatProperties
  <2>2. Len(value) \in Nat
    BY LenProperties
  <2>. QED
    BY <1>3, <2>1, <2>2
<1>7. hl # <<>> /\ k \o value # <<>>
  <2>1. Len(hl) > 0 /\ Len(k \o value) > 0 /\ IsSeq(hl) /\ IsSeq(k \o value)
    <3>1. Len(hl) > 0
      BY <1>3
    <3>. QED
      BY <1>3, <1>6, <3>1, SeqIs
  <2>. QED
    BY <2>1, SeqShape
<1>. QED
  BY <1>2, <1>3, <1>5, <1>6, <1>7 DEF p, k, post, path, colon, blank

LEMMA UploadIsRead ==
  ASSUME NEW header \in Clean, NEW value \in Seq(Clean), NEW inner \in Seq(AnyChar), NEW eol, IsLineEnd(eol)
  PROVE  UploadRead(RequestText("POST", <<"/upload">>, header, value, inner \o <<LF>>, eol), header, value, inner)
<1>. DEFINE uri == <<"/upload">>
            lf == <<LF>>
            content == inner \o lf
            text == RequestText("POST", uri, header, value, content, eol)
            f == FirstLine("POST", uri)
            k == <<header, ":", " ">>
            h == HeaderOf(header, value)
            tail == LineTail(eol)
            r1 == f \o tail
            r2 == HostLine \o tail
            r3 == h \o tail
            s == SplitAt(inner, LF)
            l == GetLines(text, LF)
            q == ParseRequest(text)
<1>1. /\ f \in Seq(Clean) /\ HostLine \in Seq(Clean) /\ HostLine # <<>> /\ k \in Seq(Clean)
      /\ h \in Seq(Clean) /\ h # <<>> /\ h = k \o value
  BY UploadLines DEF HeaderOf
<1>2. text = ((((((((f \o eol) \o HostLine) \o eol) \o k) \o value) \o eol) \o eol)) \o content
  BY DEF RequestText, FirstLine, HostLine
<1>. HIDE DEF f, k, h, text, content
<1>3. \A y \in Seq(Clean) : /\ IsSeq(y) /\ y \o tail \in Seq(AnyChar \ {LF}) /\ tail \in Seq(AnyChar \ {LF})
                            /\ Without(y \o tail, CR) = y
  BY CleanLine
<1>4. IsSeq(eol) /\ IsSeq(value) /\ IsSeq(f) /\ IsSeq(HostLine) /\ IsSeq(k) /\ IsSeq(h)
  BY <1>1, SeqIs, EolIs
<1>5. text = Append(Lined(r1, r2, r3, tail), LF) \o content
  <2>. DEFINE u == ((f \o eol) \o HostLine) \o eol
  <2>1. IsSeq(u)
    <3>1. IsSeq(f \o eol)
      BY <1>4, ConcatShape
    <3>2. IsSeq((f \o eol) \o HostLine)
      BY <1>4, <3>1, ConcatShape
    <3>. QED
      BY <1>4, <3>2, ConcatShape
  <2>2. (u \o k) \o value = u \o h
    <3>. HIDE DEF u
    <3>1. Associate(u, k, value)
      BY <1>4, <2>1, ConcatsRegroup
    <3>2. h = k \o value
      BY <1>1
    <3>. QED
      BY <3>1, <3>2 DEF Associate
  <2>. DEFINE g == HostLine
              lined == Append(Lined(r1, r2, r3, tail), LF)
  <2>3. ((u \o h) \o eol) \o eol = lined
    <3>1. IsSeq(g)
      BY <1>4
    <3>. HIDE DEF g
    <3>2. IsLined(f, g, h, eol)
      BY <1>4, <3>1, LinedIs
    <3>. QED
      BY <3>2 DEF IsLined, g
  <2>4. text = ((((u \o k) \o value) \o eol) \o eol) \o content
    BY <1>2
  <2>. HIDE DEF u, g, lined
  <2>5. text = lined \o content
    BY <2>2, <2>3, <2>4
  <2>. QED
    BY <2>5 DEF lined
<1>6. r1 \in Seq(AnyChar \ {LF}) /\ r2 \in Seq(AnyChar \ {LF}) /\ r3 \in Seq(AnyChar \ {LF}) /\ tail \in Seq(AnyChar \ {LF})
  BY <1>1, <1>3
<1>7. Without(r1, CR) = f /\ Without(r2, CR) = HostLine /\ Without(r3, CR) = h /\ Without(tail, CR) = <<>>
  <2>1. Without(r1, CR) = f /\ Without(r2, CR) = HostLine /\ Without(r3, CR) = h
    BY <1>1, <1>3
  <2>. DEFINE none == <<>>
  <2>2. none \in Seq(Clean) /\ none \o tail = tail
    BY EmptySeq, EolIs, ConcatOfNone
  <2>. HIDE DEF none
  <2>3. Without(none \o tail, CR) = none
    BY <1>3, <2>2
  <2>. QED
    BY <2>1, <2>2, <2>3 DEF none
<1>8. l = <<r1, r2, r3, tail>> \o s
  <2>1. LF \in AnyChar
    BY DEF AnyChar
  <2>. HIDE DEF r1, r2, r3, tail, s
  <2>2. EndedLines(r1, r2, r3, tail, inner)
    BY <1>6, <2>1, LinesOfEnded
  <2>. QED
    BY <1>5, <2>2 DEF EndedLines, content, lf, s
<1>9. /\ Len(l) \in Nat /\ Len(l) >= 4 /\ l[1] = r1 /\ l[2] = r2 /\ l[3] = r3 /\ l[4] = tail
      /\ SubSeq(l, 5, Len(l)) = s
  <2>. DEFINE Row == Seq(AnyChar)
  <2>1. r1 \in Row /\ r2 \in Row /\ r3 \in Row /\ tail \in Row
    <3>1. Seq(AnyChar \ {LF}) \subseteq Row
      BY SeqMonotonic
    <3>. HIDE DEF Row, r1, r2, r3, tail
    <3>. QED
      BY <1>6, <3>1
  <2>2. s \in Seq(Row)
    BY SplitType DEF Parts
  <2>. HIDE DEF Row, r1, r2, r3, tail, s, l
  <2>3. FourThenRest(<<r1, r2, r3, tail>> \o s, r1, r2, r3, tail, s)
    BY <2>1, <2>2, FourAndRest
  <2>. QED
    BY <1>8, <2>3 DEF FourThenRest
<1>. HIDE DEF l, r1, r2, r3, tail
<1>10. BlankLine(l) = 4
  <2>1. ~IsEmpty(Without(l[2], CR)) /\ ~IsEmpty(Without(l[3], CR)) /\ IsEmpty(Without(l[4], CR))
    BY <1>1, <1>7, <1>9 DEF IsEmpty
  <2>. QED
    BY <1>9, <2>1, BlankLineRead
<1>11. BodyOf(l) = inner
  <2>1. SubSeq(l, BlankLine(l) + 1, Len(l)) = s
    <3>1. BlankLine(l) + 1 = 5
      BY <1>10
    <3>. QED
      BY <1>9, <3>1
  <2>2. BodyOf(l) = Without(FlattenSeq([i \in DOMAIN s |-> s[i] \o <<LF>>]), LF)
    BY <2>1 DEF BodyOf
  <2>3. FlattenSeq([i \in DOMAIN s |-> s[i] \o <<LF>>]) = inner \o <<LF>>
    <3>1. LF \in AnyChar
      BY DEF AnyChar
    <3>. QED
      BY <3>1, Rejoined
  <2>4. inner \o <<LF>> = Append(inner, LF) /\ Without(Append(inner, LF), LF) = inner
    BY AppendIsConcat, WithoutIs
  <2>. HIDE DEF s
  <2>. QED
    BY <2>2, <2>3, <2>4
<1>12. HeadersOf(l) = AddHeader(AddHeader(NoFields, HostLine), h)
  <2>1. HeadersOf(l) = AddHeader(AddHeader(NoFields, Without(l[2], CR)), Without(l[3], CR))
    BY <1>10, TwoHeaders
  <2>. QED
    BY <1>7, <1>9, <2>1
<1>13. Words(f)[1] = <<"POST">> /\ Words(f)[2] = uri
  <2>. DEFINE post == "POST"
              path == "/upload"
              E == {post, path, "HTTP/1.1"}
  <2>1. " " \notin E /\ post \in E /\ "HTTP/1.1" \in E /\ path \in E /\ uri = <<path>> /\ uri # <<>>
    OBVIOUS
  <2>. HIDE DEF E, post, path
  <2>2. uri \in Seq(E)
    BY <2>1, OneTuple
  <2>. HIDE DEF uri
  <2>3. Words(FirstLine(post, uri))[1] = <<post>> /\ Words(FirstLine(post, uri))[2] = uri
    BY <2>1, <2>2, FirstLineRead
  <2>. QED
    BY <2>3 DEF f, post
<1>14. q = [method |-> Words(f)[1], uri |-> Words(f)[2], headers |-> HeadersOf(l), body |-> BodyOf(l)]
  <2>1. Without(l[1], CR) = f
    BY <1>7, <1>9
  <2>. QED
    BY <2>1 DEF ParseRequest, l
<1>. HIDE DEF q
<1>15. q.method = Words(f)[1] /\ q.uri = Words(f)[2] /\ q.headers = HeadersOf(l) /\ q.body = BodyOf(l)
  BY <1>14
<1>16. UploadRead(text, header, value, inner)
  BY <1>11, <1>12, <1>13, <1>15 DEF UploadRead, q, h, uri
<1>. QED
  BY <1>16 DEF text, content, uri, lf

-----------------------------------------------------------------------------
(***************************************************************************)
(* The boundary, in the headers as they were sent.                         *)
(***************************************************************************)

(* A header line with a one character name and a blank behind the colon. *)
LEMMA HeaderAdded ==
  ASSUME NEW fs, NEW Elem, NEW line \in Seq(Elem), Len(line) >= 4, line[1] # ":", line[2] = ":",
         line[3] \in Blank, line[4] \notin Blank
  PROVE  AddHeader(fs, line) = With(fs, SubSeq(line, 1, 1), SubSeq(line, 4, Len(line)))
<1>. DEFINE n == Len(line)
            c == ":"
            S == {i \in 3 .. n : line[i] \notin Blank}
<1>1. n \in Nat /\ 2 \in 1 .. n
  BY LenProperties
<1>2. Find(line, <<c>>, 1) = 2
  <2>. DEFINE two == 2
  <2>1. two \in 1 .. n /\ line[two] = c /\ \A i \in 1 .. two - 1 : line[i] # c
    <3>1. \A i \in 1 .. 2 - 1 : i = 1
      OBVIOUS
    <3>. QED
      BY <1>1, <3>1
  <2>. HIDE DEF two, c
  <2>2. Find(line, <<c>>, 1) = two
    BY <2>1, FindChar
  <2>. QED
    BY <2>2 DEF two
<1>3. 4 \in S /\ S \in SUBSET Nat /\ S # {} /\ \A y \in S : y # 3
  BY <1>1
<1>4. Min(S) = 4
  <2>1. Min(S) \in S /\ \A y \in S : Min(S) <= y
    BY <1>3, MinIs
  <2>2. Min(S) \in 3 .. n
    BY <2>1
  <2>. HIDE DEF S
  <2>3. Min(S) <= 4 /\ Min(S) # 3
    BY <1>3, <2>1
  <2>. QED
    BY <1>1, <2>2, <2>3
<1>5. AddHeader(fs, line) = IF 2 = npos THEN fs
                            ELSE With(fs, SubSeq(line, 1, 2 - 1), IF S = {} THEN <<>> ELSE From(line, Min(S)))
  <2>1. 2 + 1 = 3
    OBVIOUS
  <2>. QED
    BY <1>2, <2>1 DEF AddHeader
<1>6. 2 # npos /\ 2 - 1 = 1
  BY DEF npos
<1>. HIDE DEF S
<1>. QED
  BY <1>3, <1>4, <1>5, <1>6 DEF From

(* The value of the header that tells the boundary. *)
TypeWords == <<"multipart", Semicolon, " ", "boundary", "=">>
TypeValue(quoted) == TypeWords \o (IF quoted THEN <<Quote>> \o Boundary \o <<Quote>> ELSE Boundary)
BoundaryKey == <<"boundary", "=">>

LEMMA TypeShape ==
  ASSUME NEW quoted
  PROVE  LET v == TypeValue(quoted)
         IN /\ v \in Seq(Clean) /\ v[1] = "multipart" /\ At(v, 1, TypeWords) /\ IsSeq(TypeWords) /\ Len(TypeWords) = 5
            /\ TypeWords[1] = "multipart" /\ TypeWords[2] = Semicolon /\ TypeWords[3] = " "
            /\ IsSeq(BoundaryKey) /\ Len(BoundaryKey) = 2 /\ BoundaryKey[1] = "boundary" /\ At(v, 4, BoundaryKey)
            /\ IsSeq(Boundary) /\ Len(Boundary) = 2 /\ Boundary[1] = "-" /\ Boundary[2] = "b"
            /\ Len(v) >= 7
            /\ quoted => At(v, 6, <<Quote>>) /\ At(v, 7, Boundary) /\ At(v, 9, <<Quote>>)
            /\ ~quoted => At(v, 6, Boundary) /\ Len(v) = 7
<1>. DEFINE m == "multipart"
            blank == " "
            by == "boundary"
            is == "="
            dash == "-"
            b == "b"
            w == <<m, Semicolon, blank, by, is>>
            x == <<dash, b>>
            q == <<Quote>>
            y == q \o x
            z == y \o q
            key == <<by, is>>
            v == TypeValue(quoted)
<1>1. m \in Clean /\ Semicolon \in Clean /\ blank \in Clean /\ by \in Clean /\ is \in Clean /\ dash \in Clean /\ b \in Clean /\ Quote \in Clean
  <2>1. m \in AnyChar /\ Semicolon \in AnyChar /\ blank \in AnyChar /\ by \in AnyChar /\ is \in AnyChar /\ dash \in AnyChar /\ b \in AnyChar /\ Quote \in AnyChar
    BY DEF AnyChar
  <2>2. m \notin {CR, LF} /\ blank \notin {CR, LF} /\ by \notin {CR, LF} /\ is \notin {CR, LF} /\ dash \notin {CR, LF} /\ b \notin {CR, LF}
    BY DEF CR, LF
  <2>3. Quote \notin {CR, LF}
    BY QuoteIs
  <2>4. Semicolon \notin {CR, LF}
    BY Zenon DEF Semicolon, CR, LF
  <2>. HIDE DEF m, blank, by, is, dash, b
  <2>. QED
    BY <2>1, <2>2, <2>3, <2>4 DEF Clean
<1>2. w = TypeWords /\ x = Boundary /\ key = BoundaryKey /\ v = TypeWords \o (IF quoted THEN (q \o Boundary) \o q ELSE Boundary)
  BY DEF TypeWords, Boundary, BoundaryKey, TypeValue
<1>. HIDE DEF m, blank, by, is, dash, b
<1>3. /\ w \in Seq(Clean) /\ Len(w) = 5 /\ w[1] = m /\ w[2] = Semicolon /\ w[3] = blank /\ w[4] = by /\ w[5] = is
      /\ x \in Seq(Clean) /\ Len(x) = 2 /\ x[1] = dash /\ x[2] = b
      /\ key \in Seq(Clean) /\ Len(key) = 2 /\ key[1] = by /\ key[2] = is
      /\ q \in Seq(Clean) /\ Len(q) = 1
  BY <1>1
<1>. HIDE DEF w, x, q, key, v
<1>4. v = w \o (IF quoted THEN z ELSE x)
  BY <1>2
<1>5. IsSeq(w) /\ IsSeq(x) /\ IsSeq(q) /\ IsSeq(key)
  BY <1>3, SeqIs
<1>6. y \in Seq(Clean) /\ IsSeq(y) /\ Len(y) = 3
  <2>1. y \in Seq(Clean)
    BY <1>3, ConcatProperties
  <2>2. IsSeq(y) /\ Len(y) = Len(q) + Len(x)
    BY <1>5, ConcatShape
  <2>. QED
    BY <1>3, <2>1, <2>2
<1>7. z \in Seq(Clean) /\ IsSeq(z) /\ Len(z) = 4
  <2>. HIDE DEF y
  <2>1. z \in Seq(Clean)
    BY <1>3, <1>6, ConcatProperties
  <2>2. IsSeq(z) /\ Len(z) = Len(y) + Len(q)
    BY <1>5, <1>6, ConcatShape
  <2>. QED
    BY <1>3, <1>6, <2>1, <2>2
<1>8. v \in Seq(Clean) /\ IsSeq(v) /\ (quoted => Len(v) = 9) /\ (~quoted => Len(v) = 7) /\ Len(v) >= 7
  <2>. HIDE DEF z
  <2>1. quoted => v \in Seq(Clean) /\ Len(v) = Len(w) + Len(z)
    BY <1>3, <1>4, <1>7, ConcatProperties
  <2>2. ~quoted => v \in Seq(Clean) /\ Len(v) = Len(w) + Len(x)
    BY <1>3, <1>4, ConcatProperties
  <2>3. v \in Seq(Clean)
    BY <2>1, <2>2
  <2>. QED
    <3>1. quoted => Len(v) = 9
      BY <1>3, <1>7, <2>1
    <3>2. ~quoted => Len(v) = 7
      BY <1>3, <2>2
    <3>4. Len(v) = 9 \/ Len(v) = 7
      BY <3>1, <3>2, Zenon
    <3>3. Len(v) >= 7
      <4>. DEFINE len == Len(v)
      <4>1. len = 9 \/ len = 7
        BY <3>4
      <4>. HIDE DEF len
      <4>2. len >= 7
        BY <4>1
      <4>. QED
        BY <4>2 DEF len
    <3>. QED
      BY <2>3, <3>1, <3>2, <3>3, SeqIs
(* Where the pieces of the value stand. *)
<1>9. At(v, 1, v)
  BY <1>8, SeqShape DEF At
<1>10. At(v, 1, w) /\ (quoted => At(v, 6, z)) /\ (~quoted => At(v, 6, x))
  <2>. DEFINE one == 1
  <2>1. one \in Nat /\ one >= 1 /\ one + Len(w) = 6
    BY <1>3
  <2>. HIDE DEF one, z
  <2>2. At(v, one, v)
    BY <1>9 DEF one
  <2>3. quoted => At(v, one, w) /\ At(v, one + Len(w), z)
    BY <1>4, <1>5, <1>7, <1>8, <2>1, <2>2, AtOfTwo
  <2>4. ~quoted => At(v, one, w) /\ At(v, one + Len(w), x)
    BY <1>4, <1>5, <1>8, <2>1, <2>2, AtOfTwo
  <2>. QED
    BY <2>1, <2>3, <2>4 DEF one
<1>11. quoted => At(v, 6, q) /\ At(v, 7, x) /\ At(v, 9, q)
  <2>. SUFFICES ASSUME quoted PROVE At(v, 6, q) /\ At(v, 7, x) /\ At(v, 9, q)
    OBVIOUS
  <2>. DEFINE s == 6
  <2>1. s \in Nat /\ s >= 1 /\ s + Len(q) = 7 /\ s + Len(y) = 9
    BY <1>3, <1>6
  <2>2. At(v, s, z)
    BY <1>10
  <2>. HIDE DEF s
  <2>3. At(v, s, y) /\ At(v, s + Len(y), q)
    <3>. HIDE DEF y
    <3>. QED
      BY <1>5, <1>6, <1>8, <2>1, <2>2, AtOfTwo
  <2>4. At(v, s, q) /\ At(v, s + Len(q), x)
    BY <1>5, <1>8, <2>1, <2>3, AtOfTwo
  <2>. QED
    BY <2>1, <2>3, <2>4 DEF s
<1>12. v[1] = m /\ At(v, 4, key)
  <2>1. \A k \in 1 .. 5 : v[1 + k - 1] = w[k]
    BY <1>3, <1>10 DEF At
  <2>2. 1 \in 1 .. 5 /\ 4 \in 1 .. 5 /\ 5 \in 1 .. 5 /\ 1 + 1 - 1 = 1 /\ 1 + 4 - 1 = 4 /\ 1 + 5 - 1 = 5
    OBVIOUS
  <2>3. v[1] = m /\ v[4] = by /\ v[5] = is
    BY <1>3, <2>1, <2>2
  <2>4. \A k \in 1 .. 2 : (k = 1 /\ 4 + k - 1 = 4) \/ (k = 2 /\ 4 + k - 1 = 5)
    OBVIOUS
  <2>5. \A k \in 1 .. 2 : v[4 + k - 1] = key[k]
    BY <1>3, <2>3, <2>4
  <2>6. 4 + Len(key) - 1 <= Len(v)
    BY <1>3, <1>8, SeqShape
  <2>. QED
    BY <1>3, <2>3, <2>5, <2>6 DEF At
<1>13. v = TypeValue(quoted)
  BY DEF v
<1>14. v[1] = "multipart" /\ TypeWords[1] = "multipart" /\ TypeWords[3] = " " /\ BoundaryKey[1] = "boundary"
       /\ Boundary[1] = "-" /\ Boundary[2] = "b"
  BY <1>2, <1>3, <1>12 DEF m, blank, by, dash, b
<1>15. q = <<Quote>>
  BY DEF q
<1>. HIDE DEF m, blank, by, dash, b, is
<1>16. /\ v \in Seq(Clean) /\ At(v, 1, TypeWords) /\ IsSeq(TypeWords) /\ Len(TypeWords) = 5 /\ TypeWords[2] = Semicolon
       /\ IsSeq(BoundaryKey) /\ Len(BoundaryKey) = 2 /\ At(v, 4, BoundaryKey)
       /\ IsSeq(Boundary) /\ Len(Boundary) = 2 /\ Len(v) >= 7
  BY <1>2, <1>3, <1>5, <1>8, <1>10, <1>12
<1>17. /\ quoted => At(v, 6, <<Quote>>) /\ At(v, 7, Boundary) /\ At(v, 9, <<Quote>>)
       /\ ~quoted => At(v, 6, Boundary) /\ Len(v) = 7
  BY <1>2, <1>8, <1>10, <1>11, <1>15
<1>. QED
  BY <1>13, <1>14, <1>16, <1>17

(* extract_boundary gets the boundary from the value of its header, in quotes or without. *)
LEMMA TypeRead ==
  ASSUME NEW quoted
  PROVE  ExtractBoundary(TypeValue(quoted)) = Boundary
<1>. DEFINE v == TypeValue(quoted)
            p == 4
            s == p + Len(BoundaryKey)
<1>1. /\ v \in Seq(Clean) /\ v[1] = "multipart" /\ At(v, 1, TypeWords) /\ IsSeq(TypeWords) /\ Len(TypeWords) = 5
      /\ TypeWords[1] = "multipart" /\ TypeWords[2] = Semicolon /\ TypeWords[3] = " "
      /\ IsSeq(BoundaryKey) /\ Len(BoundaryKey) = 2 /\ BoundaryKey[1] = "boundary" /\ At(v, 4, BoundaryKey)
      /\ IsSeq(Boundary) /\ Len(Boundary) = 2 /\ Boundary[1] = "-" /\ Boundary[2] = "b" /\ Len(v) >= 7
  BY TypeShape
<1>a. Len(BoundaryKey) = 2 /\ Len(Boundary) = 2 /\ Len(TypeWords) = 5
  BY <1>1
<1>b. /\ v[1] = "multipart" /\ TypeWords[2] = Semicolon /\ TypeWords[3] = " " /\ BoundaryKey[1] = "boundary"
      /\ Boundary[1] = "-" /\ Boundary[2] = "b"
  BY <1>1
<1>c. At(v, 1, TypeWords) /\ IsSeq(TypeWords) /\ IsSeq(BoundaryKey) /\ At(v, 4, BoundaryKey) /\ IsSeq(Boundary)
  BY <1>1
<1>2. quoted => At(v, 6, <<Quote>>) /\ At(v, 7, Boundary) /\ At(v, 9, <<Quote>>)
  BY TypeShape
<1>3. ~quoted => At(v, 6, Boundary) /\ Len(v) = 7
  BY TypeShape
<1>. HIDE DEF v
<1>4. IsSeq(v) /\ Len(v) \in Nat
  BY <1>1, SeqIs, SeqShape
<1>5. Find(v, BoundaryKey, 1) = p
  <2>1. v[2] = Semicolon /\ v[3] = " "
    <3>1. \A k \in 1 .. 5 : v[1 + k - 1] = TypeWords[k]
      BY <1>1 DEF At
    <3>2. 2 \in 1 .. 5 /\ 3 \in 1 .. 5 /\ 1 + 2 - 1 = 2 /\ 1 + 3 - 1 = 3
      OBVIOUS
    <3>. QED
      BY <1>1, <3>1, <3>2
  <2>2. Semicolon # "boundary"
    BY Zenon DEF Semicolon
  <2>3. \A i \in 1 .. 3 : v[i] # "boundary"
    <3>1. \A i \in 1 .. 3 : i = 1 \/ i = 2 \/ i = 3
      OBVIOUS
    <3>2. "multipart" # "boundary" /\ " " # "boundary"
      OBVIOUS
    <3>. DEFINE by == "boundary"
    <3>3. v[1] # by /\ v[2] # by /\ v[3] # by
      BY <1>b, <2>1, <2>2, <3>2, Zenon
    <3>. HIDE DEF by
    <3>4. \A i \in 1 .. 3 : v[i] # by
      BY <3>1, <3>3
    <3>. QED
      BY <3>4 DEF by
  <2>4. ASSUME NEW i \in 1 .. 3 PROVE ~At(v, i, BoundaryKey)
    <3>1. 1 \in 1 .. Len(BoundaryKey) /\ i + 1 - 1 = i
      BY <1>a
    <3>2. At(v, i, BoundaryKey) => v[i + 1 - 1] = BoundaryKey[1]
      BY <3>1 DEF At
    <3>3. At(v, i, BoundaryKey) => v[i] = "boundary"
      BY <1>b, <3>1, <3>2
    <3>. QED
      BY <2>3, <3>3
  <2>. DEFINE one == 1
  <2>5. one \in Nat /\ one >= 1 /\ one <= p /\ p \in Nat /\ (\A i \in one .. p - 1 : ~At(v, i, BoundaryKey)) /\ Len(BoundaryKey) > 0
        /\ At(v, p, BoundaryKey)
    <3>1. one \in Nat /\ one >= 1 /\ one <= p /\ p \in Nat /\ p - 1 = 3 /\ Len(BoundaryKey) > 0
      BY <1>a
    <3>. QED
      BY <1>c, <2>4, <3>1
  <2>. HIDE DEF one, p
  <2>6. Find(v, BoundaryKey, one) = p
    BY <1>1, <1>4, <2>5, FindAt
  <2>. QED
    BY <2>6 DEF one
<1>6. p \in Nat /\ p >= 1 /\ s = 6 /\ s + 1 = 7 /\ s + 1 + Len(Boundary) = 9
  BY <1>a
<1>7. "-" # Quote /\ "b" # Quote /\ "-" \notin {CR, LF, " "} /\ "b" \notin {CR, LF, " "}
  BY Zenon DEF Quote, CR, LF
<1>8. "-" # Semicolon /\ "b" # Semicolon
  BY Zenon DEF Semicolon
<1>9. \A k \in 1 .. 2 : k = 1 \/ k = 2
  OBVIOUS
<1>10. CASE quoted
  <2>1. At(v, s, <<Quote>>) /\ At(v, s + 1, Boundary) /\ At(v, s + 1 + Len(Boundary), <<Quote>>)
    BY <1>2, <1>6, <1>10
  <2>2. \A k \in 1 .. Len(Boundary) : Boundary[k] # Quote
    <3>1. Boundary[1] # Quote /\ Boundary[2] # Quote
      BY <1>7, <1>b, Zenon
    <3>. QED
      BY <1>9, <1>a, <3>1
  <2>. HIDE DEF p
  <2>3. Parameter(v, BoundaryKey) = Boundary
    BY <1>1, <1>4, <1>5, <1>6, <2>1, <2>2, QuotedRead
  <2>. QED
    BY <2>3 DEF ExtractBoundary, BoundaryKey, v
<1>11. CASE ~quoted
  <2>. DEFINE none == <<>>
  <2>1. IsSeq(none) /\ Len(none) = 0
    BY TupleShape
  <2>2. Bare(Boundary)
    <3>1. \A k \in 1 .. Len(Boundary) : Boundary[k] \notin {CR, LF, Semicolon}
      <4>1. Boundary[1] \notin {CR, LF, Semicolon} /\ Boundary[2] \notin {CR, LF, Semicolon}
        BY <1>7, <1>8, <1>b, Zenon
      <4>. QED
        BY <1>9, <1>a, <4>1
    <3>2. Boundary[1] = "-" /\ Boundary[Len(Boundary)] = "b" /\ Len(Boundary) > 0
      <4>1. Len(Boundary) > 0
        BY <1>a
      <4>. QED
        BY <1>a, <1>b, <4>1, Zenon
    <3>3. Boundary[1] \notin {" ", "\t"} /\ Boundary[Len(Boundary)] \notin {" ", "\t"}
      <4>1. "-" \notin {" ", "\t"} /\ "b" \notin {" ", "\t"}
        BY Zenon
      <4>. QED
        BY <3>2, <4>1, Zenon
    <3>4. Boundary[1] # Quote
      BY <1>7, <1>b, Zenon
    <3>. QED
      BY <3>1, <3>2, <3>3, <3>4, Zenon DEF Bare
  <2>. HIDE DEF none
  <2>3. At(v, s, Boundary) /\ At(v, s + Len(Boundary), none) /\ Len(v) = s + Len(Boundary) + Len(none) - 1
    <3>1. At(v, s, Boundary) /\ Len(v) = 7 /\ s + Len(Boundary) = 8
      <4>1. At(v, 6, Boundary) /\ Len(v) = 7
        BY <1>3, <1>11
      <4>2. s = 6 /\ 6 + Len(Boundary) = 8
        BY <1>a
      <4>. QED
        BY <4>1, <4>2, Zenon
    <3>2. At(v, 8, none)
      <4>1. 8 + Len(none) - 1 <= Len(v) /\ \A k \in 1 .. Len(none) : FALSE
        BY <2>1, <3>1
      <4>. QED
        BY <4>1 DEF At
    <3>. QED
      BY <2>1, <3>1, <3>2
  <2>4. \A i \in 1 .. Len(none) : none[i] = CR
    BY <2>1
  <2>. HIDE DEF p
  <2>5. Parameter(v, BoundaryKey) = Boundary
    BY <1>1, <1>4, <1>5, <1>6, <2>1, <2>2, <2>3, <2>4, BareRead
  <2>. QED
    BY <2>5 DEF ExtractBoundary, BoundaryKey, v
<1>. QED
  BY <1>10, <1>11

(* The headers of an upload, and what GetHeader finds among them. *)
UploadHeaders(header, value) == With(With(NoFields, <<"Host">>, <<"b">>), <<header>>, value)

LEMMA LineAdded ==
  ASSUME NEW fs, NEW header, header # ":", NEW value, IsSeq(value), Len(value) > 0, value[1] \notin Blank
  PROVE  AddHeader(fs, HeaderOf(header, value)) = With(fs, <<header>>, value)
<1>. DEFINE c == ":"
            blank == " "
            k == <<header, c, blank>>
            line == k \o value
            Elem == Range(line)
<1>1. c = ":" /\ blank \in Blank
  <2>1. blank \in Blank
    BY Zenon DEF Blank
  <2>. QED
    BY <2>1
<1>2. HeaderOf(header, value) = line
  BY DEF HeaderOf
<1>. HIDE DEF c, blank
<1>3. IsSeq(k)
  BY TupleShape
<1>4. Len(k) = 3 /\ k[1] = header /\ k[2] = c /\ k[3] = blank
  OBVIOUS
<1>. HIDE DEF k
<1>5. IsSeq(line) /\ Len(line) = 3 + Len(value) /\ \A i \in 1 .. 3 + Len(value) : line[i] = IF i <= 3 THEN k[i] ELSE value[i - 3]
  <2>1. IsSeq(line) /\ Len(line) = Len(k) + Len(value) /\ \A i \in 1 .. Len(k) + Len(value) : line[i] = IF i <= Len(k) THEN k[i] ELSE value[i - Len(k)]
    BY <1>3, ConcatShape
  <2>. HIDE DEF line
  <2>. QED
    BY <1>4, <2>1
<1>6. Len(value) \in Nat
  BY SeqShape
<1>. HIDE DEF line
<1>7. line \in Seq(Elem)
  BY <1>5 DEF IsSeq
<1>8. Len(line) >= 4 /\ line[1] = header /\ line[2] = c /\ line[3] = blank /\ line[4] = value[1]
  <2>1. Len(line) >= 4 /\ 1 \in 1 .. 3 + Len(value) /\ 2 \in 1 .. 3 + Len(value) /\ 3 \in 1 .. 3 + Len(value) /\ 4 \in 1 .. 3 + Len(value)
    BY <1>5, <1>6
  <2>2. 1 <= 3 /\ 2 <= 3 /\ 3 <= 3 /\ ~(4 <= 3) /\ 4 - 3 = 1
    OBVIOUS
  <2>. QED
    BY <1>4, <1>5, <2>1, <2>2
<1>. HIDE DEF Elem
<1>9. AddHeader(fs, line) = With(fs, SubSeq(line, 1, 1), SubSeq(line, 4, Len(line)))
  BY <1>1, <1>7, <1>8, HeaderAdded
<1>10. SubSeq(line, 1, 1) = <<header>>
  <2>. DEFINE x == SubSeq(line, 1, 1)
              y == <<header>>
  <2>1. IsSeq(y) /\ Len(y) = 1 /\ y[1] = header
    BY TupleShape
  <2>2. 1 \in 1 .. Len(line) + 1 /\ 1 \in 0 .. Len(line)
    BY <1>5, <1>6
  <2>. DEFINE one == 1
  <2>3. IsSeq(x) /\ Len(x) = 1 /\ x[1] = line[1]
    <3>1. one \in Nat /\ one >= 1 /\ one + Len(y) - 1 <= Len(line) /\ \A j \in 1 .. Len(y) : line[one + j - 1] = y[j]
      <4>1. \A j \in 1 .. 1 : j = 1 /\ 1 + j - 1 = 1
        OBVIOUS
      <4>. QED
        BY <1>5, <1>6, <1>8, <2>1, <4>1
    <3>. HIDE DEF one, y
    <3>2. At(line, one, y)
      BY <3>1 DEF At
    <3>3. SubSeq(line, one, one + Len(y) - 1) = y
      BY <1>5, <2>1, <3>1, <3>2, AtCut
    <3>4. SubSeq(line, 1, 1) = y
      BY <2>1, <3>3 DEF one
    <3>. QED
      BY <1>8, <2>1, <3>4
  <2>. HIDE DEF x, y
  <2>4. x = y
    BY <1>8, <2>1, <2>3, SameShape
  <2>. QED
    BY <2>4 DEF x, y
<1>11. SubSeq(line, 4, Len(line)) = value
  <2>. DEFINE four == 4
  <2>1. four \in Nat /\ four >= 1 /\ four + Len(value) - 1 = Len(line)
    BY <1>5, <1>6
  <2>2. At(line, four, value)
    <3>1. \A j \in 1 .. Len(value) : 4 + j - 1 \in 1 .. 3 + Len(value) /\ ~(4 + j - 1 <= 3) /\ 4 + j - 1 - 3 = j
      BY <1>6
    <3>2. \A j \in 1 .. Len(value) : line[4 + j - 1] = value[j]
      BY <1>5, <3>1
    <3>3. 4 + Len(value) - 1 <= Len(line)
      BY <1>5, <1>6
    <3>. QED
      BY <3>2, <3>3 DEF At
  <2>. HIDE DEF four
  <2>3. SubSeq(line, four, four + Len(value) - 1) = value
    BY <1>5, <2>1, <2>2, AtCut
  <2>. QED
    BY <2>1, <2>3 DEF four
<1>. QED
  BY <1>2, <1>9, <1>10, <1>11

LEMMA HostAdded == \A fs : AddHeader(fs, HostLine) = With(fs, <<"Host">>, <<"b">>)
<1>. TAKE fs
<1>. DEFINE h == "Host"
            c == ":"
            blank == " "
            b == "b"
            x == <<h, c, blank>>
            y == <<b>>
            z == x \o y
            line == <<h, c, blank, b>>
<1>1. b \notin Blank /\ h # ":"
  BY Zenon DEF Blank, LF, CR
<1>2. HostLine = line /\ HeaderOf(h, y) = z
  BY DEF HostLine, HeaderOf
<1>. HIDE DEF h, c, blank, b
<1>3. IsSeq(x) /\ IsSeq(y) /\ IsSeq(line)
  BY TupleShape
<1>4. Len(x) = 3 /\ Len(y) = 1 /\ Len(line) = 4
  OBVIOUS
<1>5. /\ x[1] = h /\ x[2] = c /\ x[3] = blank /\ y[1] = b
      /\ line[1] = h /\ line[2] = c /\ line[3] = blank /\ line[4] = b
  OBVIOUS
<1>. HIDE DEF x, y, line
<1>6. IsSeq(z) /\ Len(z) = Len(x) + Len(y) /\ \A i \in 1 .. Len(x) + Len(y) : z[i] = IF i <= Len(x) THEN x[i] ELSE y[i - Len(x)]
  BY <1>3, ConcatShape
<1>. HIDE DEF z
<1>7. line = z
  <2>1. \A i \in 1 .. 4 : i = 1 \/ i = 2 \/ i = 3 \/ i = 4
    OBVIOUS
  <2>2. Len(z) = 4 /\ \A i \in 1 .. 4 : z[i] = IF i <= 3 THEN x[i] ELSE y[i - 3]
    BY <1>4, <1>6
  <2>3. \A i \in 1 .. 4 : line[i] = z[i]
    BY <1>5, <2>1, <2>2
  <2>. QED
    BY <1>3, <1>4, <1>6, <2>2, <2>3, SameShape
<1>8. AddHeader(fs, HeaderOf(h, y)) = With(fs, <<h>>, y)
  <2>1. Len(y) > 0 /\ y[1] \notin Blank
    BY <1>1, <1>4, <1>5
  <2>. QED
    BY <1>1, <1>3, <2>1, LineAdded
<1>. QED
  BY <1>2, <1>7, <1>8 DEF h, b, y

LEMMA HeadersMade ==
  ASSUME NEW header, header # ":", NEW quoted
  PROVE  AddHeader(AddHeader(NoFields, HostLine), HeaderOf(header, TypeValue(quoted))) = UploadHeaders(header, TypeValue(quoted))
<1>. DEFINE v == TypeValue(quoted)
            m == "multipart"
<1>1. v \in Seq(Clean) /\ v[1] = m /\ Len(v) >= 7
  BY TypeShape
<1>2. m \notin Blank
  BY Zenon DEF Blank, LF, CR
<1>. HIDE DEF v, m
<1>3. IsSeq(v) /\ Len(v) > 0 /\ v[1] \notin Blank
  <2>1. Len(v) \in Nat
    BY <1>1, LenProperties
  <2>. QED
    BY <1>1, <1>2, <2>1, SeqIs
<1>4. AddHeader(AddHeader(NoFields, HostLine), HeaderOf(header, v)) = With(AddHeader(NoFields, HostLine), <<header>>, v)
  BY <1>3, LineAdded
<1>5. AddHeader(NoFields, HostLine) = With(NoFields, <<"Host">>, <<"b">>)
  BY HostAdded
<1>. QED
  BY <1>4, <1>5 DEF UploadHeaders, v

Low(c) == IF c \in DOMAIN LowerCase THEN LowerCase[c] ELSE c
TypeNames == {"Content-Type", "content-type"}

LEMMA LowerOne == \A c : ToLower(<<c>>) = <<Low(c)>>
<1>. TAKE c
<1>. DEFINE s == <<c>>
            x == ToLower(s)
            y == <<Low(c)>>
<1>1. Len(s) = 1 /\ DOMAIN s = 1 .. 1 /\ s[1] = c /\ Len(y) = 1 /\ y[1] = Low(c)
  OBVIOUS
<1>2. IsSeq(y)
  BY TupleShape
<1>. HIDE DEF s, y
<1>3. x = [i \in 1 .. 1 |-> IF s[i] \in DOMAIN LowerCase THEN LowerCase[s[i]] ELSE s[i]]
  BY <1>1 DEF ToLower, Change
<1>4. \A i \in 1 .. 1 : i = 1 /\ (IF s[i] \in DOMAIN LowerCase THEN LowerCase[s[i]] ELSE s[i]) = y[i]
  BY <1>1 DEF Low
<1>5. x = [i \in 1 .. 1 |-> y[i]]
  BY <1>3, <1>4
<1>6. y = [i \in 1 .. 1 |-> y[i]]
  <2>1. y \in Seq(Range(y))
    BY <1>2 DEF IsSeq
  <2>2. y \in [1 .. Len(y) -> Range(y)]
    BY <2>1, LenProperties
  <2>. QED
    BY <1>1, <2>2
<1>. QED
  BY <1>5, <1>6 DEF s, y

LEMMA LowIs ==
  /\ Low("Host") = "Host" /\ Low("Content-Type") = "content-type" /\ Low("content-type") = "content-type"
  /\ \A c : Low(c) = "content-type" => c \in TypeNames
<1>1. DOMAIN LowerCase = {"A", "B", "F", "HTTP", "HTTPS", "TXT", "CON", "Content-Type"}
  BY DEF LowerCase
<1>2. LowerCase["Content-Type"] = "content-type"
  BY DEF LowerCase
<1>3. /\ LowerCase["A"] = "a" /\ LowerCase["B"] = "b" /\ LowerCase["F"] = "f" /\ LowerCase["HTTP"] = "http"
      /\ LowerCase["HTTPS"] = "https" /\ LowerCase["TXT"] = "txt" /\ LowerCase["CON"] = "con"
  BY DEF LowerCase
<1>4. \A c \in DOMAIN LowerCase : LowerCase[c] = "content-type" => c = "Content-Type"
  BY <1>1, <1>3
<1>. QED
  BY <1>1, <1>2, <1>4 DEF Low, TypeNames

(* GetHeader does not tell upper from lower case. *)
LEMMA TypeHeader ==
  ASSUME NEW q, NEW header, NEW value, q.headers = UploadHeaders(header, value)
  PROVE  GetHeader(q, <<"Content-Type">>) = IF header \in TypeNames THEN value ELSE <<>>
<1>. DEFINE host == <<"Host">>
            own == <<header>>
            type == <<"Content-Type">>
            hs == q.headers
            same == {h \in DOMAIN hs : ToLower(h) = ToLower(type)}
            v1 == With(NoFields, host, <<"b">>)
<1>1. DOMAIN hs = {host, own} /\ hs[own] = value
  <2>1. DOMAIN v1 = DOMAIN NoFields \cup {host}
    BY WithIs DEF Updated
  <2>2. hs = With(v1, own, value)
    BY DEF UploadHeaders
  <2>. HIDE DEF v1, hs
  <2>3. DOMAIN hs = DOMAIN v1 \cup {own} /\ hs[own] = value
    <3>. HIDE DEF own
    <3>1. Updated(With(v1, own, value), v1, own, value)
      BY WithIs
    <3>2. Updated(hs, v1, own, value)
      BY <2>2, <3>1
    <3>. QED
      BY <3>2 DEF Updated
  <2>4. DOMAIN NoFields = {}
    BY NoFieldsType
  <2>. QED
    BY <2>1, <2>3, <2>4
<1>2. ToLower(host) = <<"Host">> /\ ToLower(type) = <<"content-type">> /\ ToLower(own) = <<Low(header)>>
  BY LowerOne, LowIs
<1>3. <<"Host">> # <<"content-type">>
  <2>1. <<"Host">>[1] = "Host" /\ <<"content-type">>[1] = "content-type" /\ "Host" # "content-type"
    OBVIOUS
  <2>. QED
    BY <2>1
<1>4. ToLower(own) = ToLower(type) <=> header \in TypeNames
  <2>1. <<Low(header)>>[1] = Low(header) /\ <<"content-type">>[1] = "content-type"
    OBVIOUS
  <2>2. <<Low(header)>> = <<"content-type">> => Low(header) = "content-type"
    BY <2>1
  <2>3. header \in TypeNames => Low(header) = "content-type"
    BY LowIs DEF TypeNames
  <2>. QED
    BY <1>2, <2>2, <2>3, LowIs
<1>5. ToLower(host) # ToLower(type)
  BY <1>2, <1>3
<1>. HIDE DEF host, own, type, hs
<1>6. same = IF header \in TypeNames THEN {own} ELSE {}
  BY <1>1, <1>4, <1>5
<1>7. GetHeader(q, type) = IF type \in same THEN hs[type] ELSE IF same # {} THEN hs[CHOOSE h \in same : TRUE] ELSE <<>>
  BY DEF GetHeader, hs
<1>. HIDE DEF same
<1>8. CASE header \in TypeNames
  <2>1. type \in same => type = own
    BY <1>6, <1>8
  <2>2. same # {} /\ (CHOOSE h \in same : TRUE) = own
    BY <1>6, <1>8
  <2>3. GetHeader(q, type) = value
    BY <1>1, <1>7, <2>1, <2>2, Zenon
  <2>. QED
    BY <1>8, <2>3 DEF type
<1>9. CASE header \notin TypeNames
  <2>1. type \notin same /\ same = {}
    BY <1>6, <1>9
  <2>2. GetHeader(q, type) = <<>>
    BY <1>7, <2>1, Zenon
  <2>. QED
    BY <1>9, <2>2 DEF type
<1>. QED
  BY <1>8, <1>9

LEMMA NoBoundary == ExtractBoundary(<<>>) = <<>>
<1>. DEFINE none == <<>>
            key == <<"boundary", "=">>
<1>1. Len(none) = 0
  OBVIOUS
<1>2. 1 .. Len(none) = {}
  BY <1>1
<1>. HIDE DEF none, key
<1>3. Find(none, key, 1) = npos
  BY <1>2 DEF Find, FirstOrNpos
<1>4. Parameter(none, key) = <<>>
  BY <1>3 DEF Parameter
<1>. QED
  BY <1>4 DEF ExtractBoundary, none, key

LEMMA BoundaryRead ==
  ASSUME NEW q, NEW header, NEW quoted, q.headers = UploadHeaders(header, TypeValue(quoted))
  PROVE  BoundaryOf(q) = IF header \in TypeNames THEN Boundary ELSE <<>>
<1>. DEFINE v == TypeValue(quoted)
<1>1. ExtractBoundary(v) = Boundary
  BY TypeRead
<1>. HIDE DEF v
<1>2. GetHeader(q, <<"Content-Type">>) = IF header \in TypeNames THEN v ELSE <<>>
  BY TypeHeader DEF v
<1>. QED
  BY <1>1, <1>2, NoBoundary DEF BoundaryOf

-----------------------------------------------------------------------------
(***************************************************************************)
(* The maps of files and fields: the last of each name stays.              *)
(***************************************************************************)

(* A map that has the values V under the names N for the indices in K, the last of each name. *)
Filed(fs, K, N, V) ==
  /\ DOMAIN fs = {N[i] : i \in K}
  /\ \A i \in K : (\A j \in K : j > i => N[j] # N[i]) => fs[N[i]] = V[i]

LEMMA OneMoreFiled ==
  ASSUME NEW fs, NEW K, NEW N, NEW V, Filed(fs, K, N, V), NEW m \in Nat, \A i \in K : i \in Nat /\ i < m
  PROVE  Filed(With(fs, N[m], V[m]), K \cup {m}, N, V)
<1>. DEFINE new == With(fs, N[m], V[m])
            B == K \cup {m}
<1>1. Updated(new, fs, N[m], V[m])
  BY WithIs
<1>. HIDE DEF new
<1>2. DOMAIN new = {N[i] : i \in B}
  BY <1>1 DEF Updated, Filed
<1>3. ASSUME NEW i \in B, \A j \in B : j > i => N[j] # N[i] PROVE new[N[i]] = V[i]
  <2>1. CASE i = m
    BY <1>1, <2>1 DEF Updated
  <2>2. CASE i \in K
    <3>1. m > i /\ m \in B
      BY <2>2
    <3>2. N[i] # N[m]
      BY <1>3, <3>1
    <3>3. fs[N[i]] = V[i] /\ N[i] \in DOMAIN fs
      BY <1>3, <2>2 DEF Filed
    <3>. QED
      BY <1>1, <3>2, <3>3 DEF Updated
  <2>. QED
    BY <2>1, <2>2
<1>. QED
  BY <1>2, <1>3 DEF Filed, new

(* The parts that are kept as files and as fields, among the first m. *)
KeptFile(p) == p.name # <<>> /\ p.filename # <<>> /\ Len(p.content) <= MaxFile
KeptField(p) == p.name # <<>> /\ p.filename = <<>> /\ Len(p.content) <= MaxField
FilesOf(ps, m) == {i \in 1 .. m : KeptFile(ps[i])}
FieldsIn(ps, m) == {i \in 1 .. m : KeptField(ps[i])}
NamesOf(ps) == [i \in DOMAIN ps |-> ps[i].name]
FileValues(ps) == [i \in DOMAIN ps |-> [filename |-> ps[i].filename, data |-> ps[i].content]]
FieldValues(ps) == [i \in DOMAIN ps |-> ps[i].content]
FiledTo(fs, gs, ps, m) ==
  /\ Filed(fs, FilesOf(ps, m), NamesOf(ps), FileValues(ps))
  /\ Filed(gs, FieldsIn(ps, m), NamesOf(ps), FieldValues(ps))

(* What one round keeps of a part. *)
FilesWith(fs, p) ==
  IF IsEmpty(p.name) \/ IsEmpty(p.filename) \/ Len(p.content) > MaxFile THEN fs
  ELSE With(fs, p.name, [filename |-> p.filename, data |-> p.content])
FieldsWith(gs, p) ==
  IF IsEmpty(p.name) \/ ~IsEmpty(p.filename) \/ Len(p.content) > MaxField THEN gs
  ELSE With(gs, p.name, p.content)

LEMMA NothingFiled ==
  ASSUME NEW ps
  PROVE  FiledTo(NoFields, NoFields, ps, 0)
<1>1. DOMAIN NoFields = {} /\ 1 .. 0 = {}
  BY NoFieldsType
<1>2. FilesOf(ps, 0) = {} /\ FieldsIn(ps, 0) = {}
  BY <1>1 DEF FilesOf, FieldsIn
<1>. QED
  BY <1>1, <1>2 DEF FiledTo, Filed

LEMMA PartFiled ==
  ASSUME NEW ps, NEW m \in Nat, m + 1 \in DOMAIN ps, IsSeq(ps[m + 1].content),
         NEW fs, NEW gs, FiledTo(fs, gs, ps, m)
  PROVE  FiledTo(FilesWith(fs, ps[m + 1]), FieldsWith(gs, ps[m + 1]), ps, m + 1)
<1>. DEFINE k == m + 1
            p == ps[k]
            A == FilesOf(ps, m)
            B == FieldsIn(ps, m)
            N == NamesOf(ps)
            F == FileValues(ps)
            G == FieldValues(ps)
<1>1. Len(p.content) \in Nat /\ MaxFile \in Nat /\ MaxField \in Nat
  BY SeqShape, HttpAssumption
<1>2. N[k] = p.name /\ F[k] = [filename |-> p.filename, data |-> p.content] /\ G[k] = p.content
  BY DEF NamesOf, FileValues, FieldValues
<1>3. k \in Nat /\ (\A i \in 1 .. m : i \in Nat /\ i < k) /\ \A i : i \in 1 .. k <=> i \in 1 .. m \/ i = k
  OBVIOUS
<1>4. Filed(fs, A, N, F) /\ Filed(gs, B, N, G)
  BY DEF FiledTo
<1>5. /\ KeptFile(p) => FilesOf(ps, k) = A \cup {k}
      /\ ~KeptFile(p) => FilesOf(ps, k) = A
  <2>. HIDE DEF k
  <2>. QED
    BY <1>3 DEF FilesOf
<1>6. /\ KeptField(p) => FieldsIn(ps, k) = B \cup {k}
      /\ ~KeptField(p) => FieldsIn(ps, k) = B
  <2>. HIDE DEF k
  <2>. QED
    BY <1>3 DEF FieldsIn
<1>7. (\A i \in A : i \in Nat /\ i < k) /\ \A i \in B : i \in Nat /\ i < k
  <2>. HIDE DEF k
  <2>. QED
    BY <1>3 DEF FilesOf, FieldsIn
<1>8. /\ KeptFile(p) => FilesWith(fs, p) = With(fs, N[k], F[k])
      /\ ~KeptFile(p) => FilesWith(fs, p) = fs
  <2>1. KeptFile(p) <=> ~(IsEmpty(p.name) \/ IsEmpty(p.filename) \/ Len(p.content) > MaxFile)
    <3>. DEFINE l == Len(p.content)
    <3>1. l <= MaxFile <=> ~(l > MaxFile)
      BY <1>1
    <3>. QED
      BY <3>1, Zenon DEF KeptFile, IsEmpty
  <2>. HIDE DEF k
  <2>. QED
    BY <1>2, <2>1, Zenon DEF FilesWith
<1>9. /\ KeptField(p) => FieldsWith(gs, p) = With(gs, N[k], G[k])
      /\ ~KeptField(p) => FieldsWith(gs, p) = gs
  <2>1. KeptField(p) <=> ~(IsEmpty(p.name) \/ ~IsEmpty(p.filename) \/ Len(p.content) > MaxField)
    <3>. DEFINE l == Len(p.content)
    <3>1. l <= MaxField <=> ~(l > MaxField)
      BY <1>1
    <3>. QED
      BY <3>1, Zenon DEF KeptField, IsEmpty
  <2>. HIDE DEF k
  <2>. QED
    BY <1>2, <2>1, Zenon DEF FieldsWith
<1>. HIDE DEF k, A, B, N, F, G
<1>10. Filed(FilesWith(fs, p), FilesOf(ps, k), N, F)
  <2>1. Filed(With(fs, N[k], F[k]), A \cup {k}, N, F)
    BY <1>3, <1>4, <1>7, OneMoreFiled
  <2>. QED
    BY <1>4, <1>5, <1>8, <2>1
<1>11. Filed(FieldsWith(gs, p), FieldsIn(ps, k), N, G)
  <2>1. Filed(With(gs, N[k], G[k]), B \cup {k}, N, G)
    BY <1>3, <1>4, <1>7, OneMoreFiled
  <2>. QED
    BY <1>4, <1>6, <1>9, <2>1
<1>. QED
  BY <1>10, <1>11 DEF FiledTo, k, N, F, G

-----------------------------------------------------------------------------
(***************************************************************************)
(* The parts behind each other, and the rounds that read them.             *)
(***************************************************************************)

RowStart(rows, k) == 1 + Len(FlattenSeq(SubSeq(rows, 1, k)))

(* Where a row stands in the flattened rows, and where the next one starts. *)
LEMMA RowStands ==
  ASSUME NEW rows, IsRows(rows), NEW tail, IsSeq(tail), NEW k \in Nat, k < Len(rows)
  PROVE  /\ RowStart(rows, k) \in Nat /\ RowStart(rows, k) >= 1
         /\ At(FlattenSeq(rows) \o tail, RowStart(rows, k), rows[k + 1])
         /\ RowStart(rows, k + 1) = RowStart(rows, k) + Len(rows[k + 1])
         /\ FlattenSeq(SubSeq(rows, 1, k + 1)) = FlattenSeq(SubSeq(rows, 1, k)) \o rows[k + 1]
<1>. DEFINE n == Len(rows)
            r == rows[k + 1]
            one == <<r>>
            a == SubSeq(rows, 1, k)
            a1 == SubSeq(rows, 1, k + 1)
            b == SubSeq(rows, k + 2, n)
            A == FlattenSeq(a)
            A1 == FlattenSeq(a1)
            B == FlattenSeq(b)
            F == FlattenSeq(rows)
            s == 1
<1>1. n \in Nat /\ DOMAIN rows = 1 .. n /\ IsSeq(rows)
  BY SeqShape DEF IsRows
<1>2. k + 1 \in 1 .. n /\ k + 1 \in Nat /\ k \in Nat
  BY <1>1
<1>3. IsSeq(r)
  BY <1>1, <1>2 DEF IsRows
<1>4. IsSeq(a) /\ Len(a) = k /\ \A i \in 1 .. k : a[i] = rows[i]
  <2>1. s \in Nat /\ s >= 1 /\ k \in Int /\ k <= n /\ k >= s - 1 /\ k - s + 1 = k /\ \A i \in 1 .. k : s + i - 1 = i
    BY <1>1, <1>2
  <2>. HIDE DEF s
  <2>2. IsSeq(SubSeq(rows, s, k)) /\ Len(SubSeq(rows, s, k)) = k - s + 1 /\ \A i \in 1 .. k - s + 1 : SubSeq(rows, s, k)[i] = rows[s + i - 1]
    BY <1>1, <2>1, CutIs
  <2>3. IsSeq(SubSeq(rows, s, k)) /\ Len(SubSeq(rows, s, k)) = k /\ \A i \in 1 .. k : SubSeq(rows, s, k)[i] = rows[i]
    BY <2>1, <2>2
  <2>. QED
    BY <2>3 DEF s
<1>5. IsSeq(a1) /\ Len(a1) = k + 1 /\ \A i \in 1 .. k + 1 : a1[i] = rows[i]
  <2>. DEFINE m == k + 1
  <2>1. s \in Nat /\ s >= 1 /\ m \in Int /\ m <= n /\ m >= s - 1 /\ m - s + 1 = m /\ \A i \in 1 .. m : s + i - 1 = i
    BY <1>1, <1>2
  <2>. HIDE DEF s, m
  <2>2. IsSeq(SubSeq(rows, s, m)) /\ Len(SubSeq(rows, s, m)) = m - s + 1 /\ \A i \in 1 .. m - s + 1 : SubSeq(rows, s, m)[i] = rows[s + i - 1]
    BY <1>1, <2>1, CutIs
  <2>3. IsSeq(SubSeq(rows, s, m)) /\ Len(SubSeq(rows, s, m)) = m /\ \A i \in 1 .. m : SubSeq(rows, s, m)[i] = rows[i]
    BY <2>1, <2>2
  <2>. QED
    BY <2>3 DEF s, m
<1>6. IsSeq(b) /\ Len(b) = n - k - 1 /\ \A i \in 1 .. n - k - 1 : b[i] = rows[k + 1 + i]
  <2>. DEFINE m == k + 2
  <2>1. m \in Nat /\ m >= 1 /\ n \in Int /\ n <= n /\ n >= m - 1 /\ n - m + 1 = n - k - 1 /\ \A i \in 1 .. n - k - 1 : m + i - 1 = k + 1 + i
    BY <1>1, <1>2
  <2>. HIDE DEF m, n
  <2>2. IsSeq(SubSeq(rows, m, n)) /\ Len(SubSeq(rows, m, n)) = n - m + 1 /\ \A i \in 1 .. n - m + 1 : SubSeq(rows, m, n)[i] = rows[m + i - 1]
    BY <1>1, <2>1, CutIs DEF n
  <2>3. IsSeq(SubSeq(rows, m, n)) /\ Len(SubSeq(rows, m, n)) = n - k - 1 /\ \A i \in 1 .. n - k - 1 : SubSeq(rows, m, n)[i] = rows[k + 1 + i]
    BY <2>1, <2>2
  <2>. QED
    BY <2>3 DEF m
<1>7. IsSeq(one) /\ Len(one) = 1 /\ one[1] = r
  BY TupleShape
<1>. HIDE DEF a, a1, b, one, s
<1>8. a1 = a \o one
  <2>. DEFINE z == a \o one
  <2>1. IsSeq(z) /\ Len(z) = Len(a) + Len(one) /\ \A i \in 1 .. Len(a) + Len(one) : z[i] = IF i <= Len(a) THEN a[i] ELSE one[i - Len(a)]
    BY <1>4, <1>7, ConcatShape
  <2>. HIDE DEF z
  <2>2. Len(z) = k + 1 /\ \A i \in 1 .. k + 1 : z[i] = IF i <= k THEN a[i] ELSE one[i - k]
    BY <1>4, <1>7, <2>1
  <2>3. ASSUME NEW i \in 1 .. k + 1 PROVE a1[i] = z[i]
    <3>1. i \in 1 .. k \/ i = k + 1
      BY <1>2
    <3>2. CASE i \in 1 .. k
      BY <1>4, <1>5, <2>2, <3>2
    <3>3. CASE i = k + 1
      <4>0. k \in Nat
        BY <1>2
      <4>1. ~(i <= k) /\ i - k = 1
        BY <3>3, <4>0
      <4>. QED
        BY <1>5, <1>7, <2>2, <3>3, <4>1
    <3>. QED
      BY <3>1, <3>2, <3>3
  <2>. QED
    BY <1>5, <2>1, <2>2, <2>3, SameShape DEF z
<1>9. rows = a1 \o b
  <2>. DEFINE z == a1 \o b
  <2>1. IsSeq(z) /\ Len(z) = Len(a1) + Len(b) /\ \A i \in 1 .. Len(a1) + Len(b) : z[i] = IF i <= Len(a1) THEN a1[i] ELSE b[i - Len(a1)]
    BY <1>5, <1>6, ConcatShape
  <2>. HIDE DEF z
  <2>2. Len(z) = n /\ \A i \in 1 .. n : z[i] = IF i <= k + 1 THEN a1[i] ELSE b[i - (k + 1)]
    BY <1>1, <1>2, <1>5, <1>6, <2>1
  <2>3. ASSUME NEW i \in 1 .. n PROVE rows[i] = z[i]
    <3>1. CASE i <= k + 1
      <4>1. i \in 1 .. k + 1
        BY <1>2, <3>1
      <4>. QED
        BY <1>5, <2>2, <3>1, <4>1
    <3>2. CASE ~(i <= k + 1)
      <4>1. i - (k + 1) \in 1 .. n - k - 1 /\ k + 1 + (i - (k + 1)) = i
        BY <1>1, <1>2, <3>2
      <4>. QED
        BY <1>6, <2>2, <3>2, <4>1
    <3>. QED
      BY <3>1, <3>2
  <2>. QED
    BY <1>1, <2>1, <2>2, <2>3, SameShape DEF z
<1>10. IsRows(a) /\ IsRows(a1) /\ IsRows(b) /\ IsRows(one)
  <2>1. \A i \in 1 .. n : IsSeq(rows[i])
    BY <1>1 DEF IsRows
  <2>2. DOMAIN a = 1 .. k /\ DOMAIN a1 = 1 .. k + 1 /\ DOMAIN b = 1 .. n - k - 1 /\ DOMAIN one = 1 .. 1
    BY <1>4, <1>5, <1>6, <1>7, SeqShape
  <2>3. /\ (\A i \in 1 .. k : i \in 1 .. n) /\ (\A i \in 1 .. k + 1 : i \in 1 .. n)
        /\ \A i \in 1 .. n - k - 1 : k + 1 + i \in 1 .. n
    BY <1>1, <1>2
  <2>4. \A i \in 1 .. 1 : i = 1
    OBVIOUS
  <2>5. IsRows(a)
    BY <1>4, <2>1, <2>2, <2>3 DEF IsRows
  <2>6. IsRows(a1)
    BY <1>5, <2>1, <2>2, <2>3 DEF IsRows
  <2>7. IsRows(b)
    BY <1>6, <2>1, <2>2, <2>3 DEF IsRows
  <2>8. IsRows(one)
    BY <1>3, <1>7, <2>2, <2>4 DEF IsRows
  <2>. QED
    BY <2>5, <2>6, <2>7, <2>8
<1>11. A1 = A \o r /\ F = A1 \o B /\ IsSeq(A) /\ IsSeq(A1) /\ IsSeq(B)
  <2>1. A1 = A \o FlattenSeq(one) /\ IsSeq(A) /\ IsSeq(A1) /\ IsSeq(B)
    BY <1>8, <1>10, FlattenOfRows
  <2>2. FlattenSeq(one) = r
    BY <1>3, FlattenOfOne DEF one
  <2>3. F = A1 \o B
    BY <1>9, <1>10, FlattenOfRows
  <2>. QED
    BY <2>1, <2>2, <2>3
<1>12. Len(A) \in Nat /\ Len(r) \in Nat /\ Len(A1) = Len(A) + Len(r)
  BY <1>3, <1>11, SeqShape, ConcatShape
<1>. DEFINE p == 1 + Len(A)
<1>. HIDE DEF A, A1, B, F, r
<1>13. p \in Nat /\ p >= 1 /\ 1 + Len(A1) = p + Len(r)
  BY <1>12
<1>14. At(A1, p, r)
  <2>1. s \in Nat /\ s >= 1 /\ s + Len(A) = p
    BY <1>12 DEF s
  <2>2. At(A1, s, A1)
    <3>1. Len(A1) \in Nat
      BY <1>11, SeqShape
    <3>2. 1 + Len(A1) - 1 <= Len(A1) /\ \A j \in 1 .. Len(A1) : 1 + j - 1 = j
      BY <3>1
    <3>. QED
      BY <3>2 DEF At, s
  <2>3. At(A1, s + Len(A), r)
    BY <1>3, <1>11, <2>1, <2>2, AtOfTwo
  <2>. QED
    BY <2>1, <2>3
<1>15. At(F \o tail, p, r)
  <2>. HIDE DEF p
  <2>1. At(A1 \o B, p, r)
    BY <1>3, <1>11, <1>13, <1>14, AtOfLonger
  <2>2. IsSeq(F) /\ At(F, p, r)
    BY <1>11, <2>1, ConcatShape
  <2>. QED
    BY <1>3, <1>13, <2>2, AtOfLonger
<1>16. RowStart(rows, k) = p /\ RowStart(rows, k + 1) = 1 + Len(A1)
  BY DEF RowStart, A, A1, p, a, a1
<1>17. FlattenSeq(SubSeq(rows, 1, k + 1)) = FlattenSeq(SubSeq(rows, 1, k)) \o r
  BY <1>11 DEF A1, A, a1, a
<1>. QED
  BY <1>13, <1>15, <1>16, <1>17 DEF F, r

LEMMA RowEnds ==
  ASSUME NEW rows, IsRows(rows), NEW tail, IsSeq(tail)
  PROVE  /\ RowStart(rows, 0) = 1 /\ SubSeq(rows, 1, 0) = <<>> /\ SubSeq(rows, 1, Len(rows)) = rows
         /\ LET n == Len(rows)
            IN RowStart(rows, n) \in Nat /\ RowStart(rows, n) >= 1 /\ At(FlattenSeq(rows) \o tail, RowStart(rows, n), tail)
<1>. DEFINE n == Len(rows)
            F == FlattenSeq(rows)
            z == F \o tail
            p == 1 + Len(F)
            none == <<>>
<1>1. IsSeq(F)
  BY FlattenOfRows
<1>2. IsSeq(rows) /\ n \in Nat
  BY SeqShape DEF IsRows
<1>3. RowStart(rows, 0) = 1 /\ SubSeq(rows, 1, 0) = <<>>
  <2>1. SubSeq(rows, 1, 0) = none
    <3>. DEFINE s == 1
                e == 0
    <3>1. s \in Nat /\ s >= 1 /\ e \in Int /\ e <= n /\ e >= s - 1 /\ e - s + 1 = 0
      BY <1>2
    <3>. HIDE DEF s, e
    <3>2. IsSeq(SubSeq(rows, s, e)) /\ Len(SubSeq(rows, s, e)) = 0
      BY <1>2, <3>1, CutIs
    <3>3. IsSeq(none) /\ Len(none) = 0 /\ \A i \in 1 .. 0 : FALSE
      BY TupleShape
    <3>. HIDE DEF none
    <3>4. SubSeq(rows, s, e) = none
      BY <3>2, <3>3, SameShape
    <3>. QED
      BY <3>4 DEF s, e
  <2>2. FlattenSeq(none) = none
    BY FlattenOfEmpty
  <2>3. Len(none) = 0
    OBVIOUS
  <2>. HIDE DEF none
  <2>4. 1 + Len(none) = 1
    BY <2>3
  <2>. QED
    BY <2>1, <2>2, <2>4 DEF RowStart, none
<1>4. RowStart(rows, n) = p /\ SubSeq(rows, 1, n) = rows
  <2>1. SubSeq(rows, 1, n) = rows
    <3>. DEFINE s == 1
                q == SubSeq(rows, s, n)
    <3>1. s \in Nat /\ s >= 1 /\ n \in Int /\ n <= n /\ n >= s - 1 /\ n - s + 1 = n /\ \A k \in 1 .. n : s + k - 1 = k
      BY <1>2
    <3>. HIDE DEF s
    <3>2. IsSeq(q) /\ Len(q) = n - s + 1 /\ \A k \in 1 .. n - s + 1 : q[k] = rows[s + k - 1]
      BY <1>2, <3>1, CutIs
    <3>. HIDE DEF q
    <3>3. q = rows
      BY <1>2, <3>1, <3>2, SameShape
    <3>. QED
      BY <3>3 DEF q, s
  <2>. QED
    BY <2>1 DEF RowStart
<1>. HIDE DEF F, n
<1>5. Len(F) \in Nat /\ Len(tail) \in Nat
  BY <1>1, SeqShape
<1>6. IsSeq(z) /\ Len(z) = Len(F) + Len(tail) /\ \A i \in 1 .. Len(F) + Len(tail) : z[i] = IF i <= Len(F) THEN F[i] ELSE tail[i - Len(F)]
  BY <1>1, ConcatShape
<1>. HIDE DEF z
<1>7. At(z, p, tail)
  <2>1. p + Len(tail) - 1 <= Len(z)
    BY <1>5, <1>6
  <2>2. \A k \in 1 .. Len(tail) : p + k - 1 \in 1 .. Len(F) + Len(tail) /\ ~(p + k - 1 <= Len(F)) /\ p + k - 1 - Len(F) = k
    BY <1>5
  <2>3. \A k \in 1 .. Len(tail) : z[p + k - 1] = tail[k]
    BY <1>6, <2>2
  <2>. QED
    BY <2>1, <2>3 DEF At
<1>8. p \in Nat /\ p >= 1
  BY <1>5
<1>. QED
  BY <1>3, <1>4, <1>7, <1>8 DEF z, F, n

(* The body of a form with several parts, but for the line feed that ends it. *)
Texts(ps, eol) == [i \in DOMAIN ps |-> PartText(ps[i], eol)]
Dashes == <<"-", "-">>
Closing(eol) == (Marker(Boundary) \o Dashes) \o LineTail(eol)
Inner(ps, eol) == FlattenSeq(Texts(ps, eol)) \o Closing(eol)
StartOf(ps, eol, k) == RowStart(Texts(ps, eol), k)

PlainParts(ps) == IsSeq(ps) /\ \A i \in DOMAIN ps : PartPlain(ps[i])

LEMMA TextsAre ==
  ASSUME NEW ps, PlainParts(ps), NEW eol, IsLineEnd(eol)
  PROVE  /\ IsRows(Texts(ps, eol)) /\ Len(Texts(ps, eol)) = Len(ps)
         /\ \A i \in DOMAIN ps : Texts(ps, eol)[i] = PartText(ps[i], eol)
<1>1. Len(ps) \in Nat /\ DOMAIN ps = 1 .. Len(ps)
  BY SeqShape DEF PlainParts
<1>2. IsSeq(Texts(ps, eol)) /\ Len(Texts(ps, eol)) = Len(ps)
  <2>. DEFINE f == Texts(ps, eol)
  <2>1. f = [i \in 1 .. Len(ps) |-> PartText(ps[i], eol)]
    BY <1>1 DEF Texts
  <2>2. DOMAIN f = 1 .. Len(ps) /\ f = [i \in 1 .. Len(ps) |-> f[i]]
    BY <2>1
  <2>. HIDE DEF f
  <2>3. IsSeq(f) /\ Len(f) = Len(ps)
    BY <1>1, <2>2, MadeShape
  <2>. QED
    BY <2>3 DEF f
<1>3. \A i \in DOMAIN ps : Texts(ps, eol)[i] = PartText(ps[i], eol)
  BY DEF Texts
<1>4. \A i \in DOMAIN ps : IsSeq(PartText(ps[i], eol))
  <2>1. IsSeq(eol)
    BY LineEndShape
  <2>. QED
    BY <2>1, PartTextShape DEF PlainParts, PartPlain, PartShape
<1>5. DOMAIN Texts(ps, eol) = DOMAIN ps
  BY DEF Texts
<1>. QED
  BY <1>2, <1>3, <1>4, <1>5 DEF IsRows

LEMMA ClosingShape ==
  ASSUME NEW eol, IsLineEnd(eol)
  PROVE  /\ IsSeq(Dashes) /\ Len(Dashes) = 2 /\ Dashes[1] = "-" /\ Dashes[2] = "-"
         /\ IsSeq(Marker(Boundary) \o Dashes) /\ IsSeq(Closing(eol))
<1>1. IsSeq(Dashes) /\ Len(Dashes) = 2 /\ Dashes[1] = "-" /\ Dashes[2] = "-"
  BY TupleShape DEF Dashes
<1>2. IsSeq(Marker(Boundary)) /\ IsSeq(LineTail(eol))
  BY WordShapes, EolIs
<1>3. IsSeq(Marker(Boundary) \o Dashes)
  BY <1>1, <1>2, ConcatsAre
<1>. QED
  BY <1>1, <1>2, <1>3, ConcatsAre DEF Closing

LEMMA BodyIs ==
  ASSUME NEW ps, PlainParts(ps), NEW eol, IsLineEnd(eol)
  PROVE  IsSeq(Inner(ps, eol)) /\ MultipartBody(ps, eol) = Inner(ps, eol) \o <<LF>>
<1>. DEFINE F == FlattenSeq(Texts(ps, eol))
            d == Dashes
            M == Marker(Boundary)
            E == M \o d
            tail == LineTail(eol)
            lf == <<LF>>
<1>1. IsSeq(F)
  BY TextsAre, FlattenOfRows
<1>2. IsSeq(d) /\ IsSeq(E) /\ IsSeq(Boundary) /\ IsSeq(M) /\ IsSeq(tail) /\ IsSeq(lf) /\ IsSeq(eol)
  BY ClosingShape, WordShapes, EolIs, TupleShape DEF Boundary
<1>3. MultipartBody(ps, eol) = (((F \o d) \o Boundary) \o d) \o eol
  BY DEF MultipartBody, Texts, Dashes
<1>4. M = d \o Boundary
  BY DEF Marker, Dashes
<1>5. eol = tail \o lf
  BY EolIs
<1>. HIDE DEF F, d, M, tail, lf
<1>6. (F \o d) \o Boundary = F \o M
  <2>1. Associate(F, d, Boundary)
    BY <1>1, <1>2, ConcatsRegroup
  <2>. QED
    BY <1>4, <2>1 DEF Associate
<1>7. (F \o M) \o d = F \o E
  <2>1. Associate(F, M, d)
    BY <1>1, <1>2, ConcatsRegroup
  <2>. QED
    BY <2>1 DEF Associate
<1>. HIDE DEF E
<1>8. IsSeq(F \o E) /\ IsSeq(E \o tail)
  BY <1>1, <1>2, ConcatsAre
<1>9. (F \o E) \o (tail \o lf) = ((F \o E) \o tail) \o lf
  <2>1. Associate(F \o E, tail, lf)
    BY <1>2, <1>8, ConcatsRegroup
  <2>. QED
    BY <2>1 DEF Associate
<1>10. (F \o E) \o tail = F \o (E \o tail)
  <2>1. Associate(F, E, tail)
    BY <1>1, <1>2, ConcatsRegroup
  <2>. QED
    BY <2>1 DEF Associate
<1>11. IsSeq(F \o (E \o tail))
  BY <1>1, <1>8, ConcatsAre
<1>12. Inner(ps, eol) = F \o (E \o tail)
  BY DEF Inner, Closing, F, E, M, d, tail
<1>. QED
  BY <1>3, <1>5, <1>6, <1>7, <1>9, <1>10, <1>11, <1>12 DEF lf

ReadAt(t, p, part, next) ==
  PartAt(t, Boundary, p + 4) =
    [found |-> TRUE, name |-> part.name, filename |-> part.filename, content |-> part.content,
     last |-> StartsWith(t, next, Marker(Boundary) \o <<"-", "-">>), behind |-> next + 4]
PartGiven(t, p, part, eol, next) ==
  /\ IsSeq(t) /\ p \in Nat /\ p >= 1 /\ PartPlain(part) /\ IsLineEnd(eol)
  /\ At(t, p, PartText(part, eol)) /\ next = p + Len(PartText(part, eol)) /\ At(t, next, Marker(Boundary))
  /\ eol = <<LF>> => NoBlankCrLf(t) /\ ~EndsIn(part.content, CR)

LEMMA PartReadAt ==
  ASSUME NEW t, NEW p, NEW part, NEW eol, NEW next, PartGiven(t, p, part, eol, next)
  PROVE  ReadAt(t, p, part, next)
BY PartRead DEF PartGiven, ReadAt

(* Where each part starts, a boundary stands; the one behind the last part ends the form. *)
LEMMA MarkerFollows ==
  ASSUME NEW ps, PlainParts(ps), NEW eol, IsLineEnd(eol), NEW k \in 0 .. Len(ps)
  PROVE  LET t == Inner(ps, eol)
             p == StartOf(ps, eol, k)
         IN /\ p \in Nat /\ p >= 1 /\ At(t, p, Marker(Boundary))
            /\ StartsWith(t, p, Marker(Boundary) \o <<"-", "-">>) <=> k = Len(ps)
<1>. DEFINE t == Inner(ps, eol)
            rows == Texts(ps, eol)
            p == StartOf(ps, eol, k)
            m == Marker(Boundary)
            e == m \o Dashes
            n == Len(ps)
            close == Closing(eol)
<1>1. n \in Nat /\ DOMAIN ps = 1 .. n /\ IsSeq(t) /\ Len(t) \in Nat
  BY SeqShape, BodyIs DEF PlainParts
<1>2. IsRows(rows) /\ Len(rows) = n /\ \A i \in DOMAIN ps : rows[i] = PartText(ps[i], eol)
  BY TextsAre
<1>3. IsSeq(Dashes) /\ Len(Dashes) = 2 /\ Dashes[1] = "-" /\ IsSeq(e) /\ IsSeq(close) /\ IsSeq(m) /\ Len(m) = 4
  BY ClosingShape, WordShapes
<1>4. t = FlattenSeq(rows) \o close /\ p = RowStart(rows, k) /\ close = e \o LineTail(eol) /\ IsSeq(LineTail(eol))
  BY EolIs DEF Inner, StartOf, Closing
<1>. HIDE DEF t, rows, p, m, close
<1>5. CASE k = n
  <2>1. p \in Nat /\ p >= 1 /\ At(t, p, close)
    BY <1>2, <1>3, <1>4, <1>5, RowEnds
  <2>2. At(t, p, e)
    <3>. HIDE DEF e
    <3>. QED
      BY <1>1, <1>3, <1>4, <2>1, AtOfTwo
  <2>3. At(t, p, m)
    BY <1>1, <1>3, <2>1, <2>2, AtOfTwo
  <2>4. p <= Len(t) + 1
    <3>1. p + 4 - 1 <= Len(t)
      BY <1>3, <2>3 DEF At
    <3>. QED
      BY <1>1, <2>1, <3>1
  <2>. HIDE DEF e
  <2>5. StartsWith(t, p, e)
    BY <1>1, <1>3, <2>1, <2>2, <2>4, AtIsStart
  <2>. QED
    BY <1>5, <2>1, <2>3, <2>5 DEF e, t, p, m, Dashes
<1>6. CASE k # n
  <2>1. k \in Nat /\ k < n /\ k + 1 \in 1 .. n
    <3>1. n \in Nat /\ k \in 0 .. n
      BY <1>1
    <3>. HIDE DEF n
    <3>. QED
      BY <1>6, <3>1
  <2>2. p \in Nat /\ p >= 1 /\ At(t, p, rows[k + 1])
    BY <1>2, <1>3, <1>4, <2>1, RowStands
  <2>3. At(t, p, PartText(ps[k + 1], eol)) /\ PartShape(ps[k + 1])
    BY <1>1, <1>2, <2>1, <2>2 DEF PlainParts, PartPlain
  <2>4. IsSeq(eol) /\ Len(eol) \in 1 .. 2 /\ \A i \in 1 .. Len(eol) : eol[i] \in {CR, LF}
    BY LineEndShape
  <2>5. Stands(t, p, Disposition(ps[k + 1]), ps[k + 1].content, eol)
    BY <1>1, <2>2, <2>3, <2>4, PartStands
  <2>6. At(t, p, m) /\ At(t, p + 4, eol)
    BY <2>5 DEF Stands, m
  <2>7. ~At(t, p, e)
    <3>1. At(t, p, e) => At(t, p + Len(m), Dashes)
      BY <1>1, <1>3, <2>2, AtOfTwo
    <3>2. t[p + 4] = eol[1] /\ eol[1] \in {CR, LF}
      <4>1. 1 \in 1 .. Len(eol) /\ p + 4 + 1 - 1 = p + 4
        <5>1. p \in Nat
          BY <2>2
        <5>2. Len(eol) \in 1 .. 2
          BY <2>4
        <5>3. 1 \in 1 .. Len(eol)
          BY <5>2
        <5>. QED
          BY <5>1, <5>3
      <4>. QED
        BY <2>4, <2>6, <4>1 DEF At
    <3>3. At(t, p + 4, Dashes) => t[p + 4] = Dashes[1]
      <4>1. 1 \in 1 .. Len(Dashes) /\ p + 4 + 1 - 1 = p + 4
        BY <1>3, <2>2
      <4>. QED
        BY <4>1 DEF At
    <3>4. Dashes[1] \notin {CR, LF}
      <4>1. "-" \notin {CR, LF}
        BY DEF CR, LF
      <4>. QED
        BY <1>3, <4>1
    <3>5. p + Len(m) = p + 4
      BY <1>3
    <3>. HIDE DEF e
    <3>. QED
      BY <3>1, <3>2, <3>3, <3>4, <3>5
  <2>8. p <= Len(t) + 1
    <3>1. p + 4 - 1 <= Len(t)
      BY <1>3, <2>6 DEF At
    <3>. QED
      BY <1>1, <2>2, <3>1
  <2>. HIDE DEF e
  <2>9. ~StartsWith(t, p, e)
    BY <1>1, <1>3, <2>2, <2>7, <2>8, AtIsStart
  <2>. QED
    BY <1>6, <2>2, <2>6, <2>9 DEF e, t, p, m, Dashes
<1>. QED
  BY <1>5, <1>6

(* What one round makes of the part behind the first k. *)
RoundIs(part, ps, eol, k) ==
  /\ part.found
  /\ part.name = ps[k + 1].name /\ part.filename = ps[k + 1].filename /\ part.content = ps[k + 1].content
  /\ part.last <=> k + 1 = Len(ps)
  /\ part.behind = StartOf(ps, eol, k + 1) + 4

(* Contents whose line ends do not mislead. *)
Unmixed(ps, eol) ==
  eol = <<LF>> => NoBlankCrLf(Inner(ps, eol)) /\ \A i \in DOMAIN ps : ~EndsIn(ps[i].content, CR)

RoundGiven(ps, eol, k) ==
  PlainParts(ps) /\ IsLineEnd(eol) /\ Unmixed(ps, eol) /\ k \in 0 .. Len(ps) /\ k # Len(ps)

LEMMA RoundRead ==
  ASSUME NEW ps, NEW eol, NEW k, RoundGiven(ps, eol, k)
  PROVE  RoundIs(PartAt(Inner(ps, eol), Boundary, StartOf(ps, eol, k) + 4), ps, eol, k)
<1>. DEFINE n == Len(ps)
            t == Inner(ps, eol)
            rows == Texts(ps, eol)
            p == StartOf(ps, eol, k)
            next == StartOf(ps, eol, k + 1)
            part == ps[k + 1]
            text == PartText(part, eol)
            read == PartAt(t, Boundary, p + 4)
            close == Closing(eol)
            m == Marker(Boundary)
            e == m \o <<"-", "-">>
<1>. HIDE DEF n, t, rows, p, next, part, text, read, close, m, e
<1>0. PlainParts(ps) /\ IsLineEnd(eol) /\ Unmixed(ps, eol) /\ k \in 0 .. n /\ k # n
  BY DEF RoundGiven, n
<1>1. n \in Nat /\ DOMAIN ps = 1 .. n /\ IsSeq(t)
  BY <1>0, SeqShape, BodyIs DEF PlainParts, n, t
<1>2. k \in Nat /\ k < n /\ k + 1 \in 1 .. n /\ k + 1 \in 0 .. n
  BY <1>0, <1>1
<1>3. IsRows(rows) /\ Len(rows) = n /\ rows[k + 1] = text
  BY <1>0, <1>1, <1>2, TextsAre DEF rows, text, part, n
<1>4. IsSeq(close) /\ t = FlattenSeq(rows) \o close /\ p = RowStart(rows, k) /\ next = RowStart(rows, k + 1)
  BY <1>0, ClosingShape DEF Inner, StartOf, t, rows, p, next, close
<1>5. PartPlain(part)
  BY <1>0, <1>1, <1>2 DEF PlainParts, part
<1>6. At(t, next, m) /\ (StartsWith(t, next, e) <=> k + 1 = n)
  BY <1>0, <1>2, MarkerFollows DEF n, t, next, m, e
<1>7. eol = <<LF>> => NoBlankCrLf(t) /\ ~EndsIn(part.content, CR)
  BY <1>0, <1>1, <1>2 DEF Unmixed, t, part
<1>8. p \in Nat /\ p >= 1 /\ At(t, p, text) /\ next = p + Len(text)
  BY <1>2, <1>3, <1>4, RowStands
<1>9. read = [found |-> TRUE, name |-> part.name, filename |-> part.filename, content |-> part.content,
              last |-> StartsWith(t, next, e), behind |-> next + 4]
  <2>1. PartGiven(t, p, part, eol, next)
    BY <1>0, <1>1, <1>5, <1>6, <1>7, <1>8 DEF PartGiven, m, text
  <2>2. ReadAt(t, p, part, next)
    BY <2>1, PartReadAt
  <2>. QED
    BY <2>2 DEF ReadAt, read, e, m
<1>10. /\ read.found /\ read.name = part.name /\ read.filename = part.filename /\ read.content = part.content
       /\ read.last <=> StartsWith(t, next, e)
       /\ read.behind = next + 4
  BY <1>9
<1>. QED
  BY <1>6, <1>10 DEF RoundIs, read, t, p, next, part, n

-----------------------------------------------------------------------------
(***************************************************************************)
(* Of which characters an upload is, and when its line ends mislead.       *)
(***************************************************************************)

(* What a client sends is made of the characters of its parts and of a few words. *)
LEMMA WordsAny ==
  /\ DispositionWords \in Seq(AnyChar) /\ FileWords \in Seq(AnyChar) /\ <<Semicolon, " ", "file", "name", "=", Quote>> \in Seq(AnyChar)
  /\ <<Quote>> \in Seq(AnyChar) /\ <<LF>> \in Seq(AnyChar) /\ CRLF \in Seq(AnyChar) /\ <<CR>> \in Seq(AnyChar) /\ <<>> \in Seq(AnyChar)
  /\ Dashes \in Seq(AnyChar) /\ Boundary \in Seq(AnyChar)
<1>. DEFINE cd == "Content-Disposition"
            c == ":"
            blank == " "
            fd == "form-data"
            name == "name"
            file == "file"
            is == "="
            dash == "-"
            b == "b"
<1>1. /\ cd \in AnyChar /\ c \in AnyChar /\ blank \in AnyChar /\ fd \in AnyChar /\ name \in AnyChar /\ file \in AnyChar /\ is \in AnyChar
      /\ dash \in AnyChar /\ b \in AnyChar /\ Quote \in AnyChar /\ Semicolon \in AnyChar /\ LF \in AnyChar /\ CR \in AnyChar
  BY DEF AnyChar
<1>2. /\ DispositionWords = <<cd, c, blank, fd, Semicolon, blank, name, is, Quote>>
      /\ FileWords = <<Semicolon, blank, file, name, is>> /\ Boundary = <<dash, b>> /\ Dashes = <<dash, dash>>
      /\ CRLF = <<CR, LF>>
  BY DEF DispositionWords, FileWords, Semicolon, Boundary, Dashes, CRLF
<1>. HIDE DEF cd, c, blank, fd, name, file, is, dash, b
<1>3. <<cd, c, blank, fd, Semicolon, blank, name, is, Quote>> \in Seq(AnyChar)
  BY <1>1
<1>4. <<Semicolon, blank, file, name, is>> \in Seq(AnyChar) /\ <<Semicolon, blank, file, name, is, Quote>> \in Seq(AnyChar)
  BY <1>1
<1>5. <<dash, b>> \in Seq(AnyChar) /\ <<dash, dash>> \in Seq(AnyChar) /\ <<CR, LF>> \in Seq(AnyChar)
  BY <1>1
<1>6. <<Quote>> \in Seq(AnyChar) /\ <<LF>> \in Seq(AnyChar) /\ <<CR>> \in Seq(AnyChar) /\ <<>> \in Seq(AnyChar)
  BY <1>1
<1>. QED
  BY <1>2, <1>3, <1>4, <1>5, <1>6 DEF blank, file, name, is

LEMMA ConcatsOfAny == \A x, y \in Seq(AnyChar) : x \o y \in Seq(AnyChar)
BY ConcatProperties

PartOfAny(part) == part.name \in Seq(AnyChar) /\ part.filename \in Seq(AnyChar) /\ part.content \in Seq(AnyChar)

LEMMA PartOfAnyText ==
  ASSUME NEW part, PartOfAny(part), NEW eol \in Seq(AnyChar)
  PROVE  PartText(part, eol) \in Seq(AnyChar)
<1>. DEFINE Row == Seq(AnyChar)
            m == Dashes \o Boundary
            dw == DispositionWords
            q == <<Quote>>
            g == <<Semicolon, " ", "file", "name", "=", Quote>>
            f == FileWords
            none == <<>>
            nm == part.name
            fn == part.filename
            ct == part.content
            x == IF fn = none THEN none ELSE IF part.quoted THEN (g \o fn) \o q ELSE f \o fn
<1>1. dw \in Row /\ q \in Row /\ g \in Row /\ f \in Row /\ none \in Row /\ nm \in Row /\ fn \in Row /\ ct \in Row /\ eol \in Row
      /\ Dashes \in Row /\ Boundary \in Row
  BY WordsAny DEF PartOfAny
<1>2. \A a, b \in Row : a \o b \in Row
  BY ConcatsOfAny
<1>3. PartText(part, eol) = ((((((((m \o eol) \o dw) \o nm) \o q) \o x) \o eol) \o eol) \o ct) \o eol
  BY DEF PartText, Dashes, DispositionWords, FileWords, Quote, Semicolon, IsEmpty
<1>. HIDE DEF Row, dw, q, g, f, none, nm, fn, ct
<1>4. m \in Row
  BY <1>1, <1>2
<1>5. x \in Row
  <2>1. (g \o fn) \o q \in Row /\ f \o fn \in Row
    BY <1>1, <1>2
  <2>. QED
    BY <1>1, <2>1
<1>. HIDE DEF m, x
<1>6. (((m \o eol) \o dw) \o nm) \o q \in Row
  BY <1>1, <1>2, <1>4
<1>7. ((((((m \o eol) \o dw) \o nm) \o q) \o x) \o eol) \o eol \in Row
  BY <1>1, <1>2, <1>5, <1>6
<1>8. (((((((((m \o eol) \o dw) \o nm) \o q) \o x) \o eol) \o eol) \o ct) \o eol) \in Row
  BY <1>1, <1>2, <1>7
<1>. QED
  BY <1>3, <1>8 DEF Row

LEMMA InnerOfAny ==
  ASSUME NEW ps, PlainParts(ps), \A i \in DOMAIN ps : PartOfAny(ps[i]), NEW eol, IsLineEnd(eol)
  PROVE  Inner(ps, eol) \in Seq(AnyChar)
<1>. DEFINE rows == Texts(ps, eol)
            F == FlattenSeq(rows)
            Row == Seq(AnyChar)
<1>1. eol \in Row /\ LineTail(eol) \in Row /\ Boundary \in Row /\ Dashes \in Row
  BY WordsAny DEF IsLineEnd, LineTail
<1>2. IsRows(rows) /\ \A i \in DOMAIN ps : rows[i] = PartText(ps[i], eol)
  BY TextsAre
<1>3. DOMAIN rows = DOMAIN ps
  BY DEF Texts
<1>4. \A i \in DOMAIN rows : rows[i] \in Row
  BY <1>1, <1>2, <1>3, PartOfAnyText
<1>. HIDE DEF Row, rows
<1>5. rows \in Seq(Row)
  <2>1. rows \in Seq(Range(rows))
    BY <1>2 DEF IsRows, IsSeq
  <2>2. Range(rows) \subseteq Row
    BY <1>4 DEF Range
  <2>. QED
    BY <2>1, <2>2, SeqMonotonic
<1>6. F \in Row
  BY <1>5, FlattenType DEF Row
<1>7. \A a, b \in Row : a \o b \in Row
  BY ConcatsOfAny DEF Row
<1>. HIDE DEF F
<1>8. F \o (((Dashes \o Boundary) \o Dashes) \o LineTail(eol)) \in Row
  <2>1. Dashes \o Boundary \in Row
    BY <1>1, <1>7
  <2>2. (Dashes \o Boundary) \o Dashes \in Row
    BY <1>1, <1>7, <2>1
  <2>3. ((Dashes \o Boundary) \o Dashes) \o LineTail(eol) \in Row
    BY <1>1, <1>7, <2>2
  <2>. QED
    BY <1>6, <1>7, <2>3
<1>9. Marker(Boundary) = Dashes \o Boundary
  BY DEF Marker, Dashes
<1>. QED
  BY <1>8, <1>9 DEF Inner, Closing, F, rows, Row

(* No carriage returns, or none that misleads. *)
NoCr(w) == \A k \in 1 .. Len(w) : w[k] # CR
Quiet(w) == NoBlankCrLf(w) /\ (Len(w) > 0 => w[Len(w)] # CR)

LEMMA BlankAt ==
  ASSUME NEW t, NEW i \in Nat, At(t, i, CRLF \o CRLF)
  PROVE  i + 3 <= Len(t) /\ t[i] = CR /\ t[i + 1] = LF /\ t[i + 2] = CR /\ t[i + 3] = LF
<1>. DEFINE w == CRLF \o CRLF
<1>1. Len(w) = 4 /\ w[1] = CR /\ w[2] = LF /\ w[3] = CR /\ w[4] = LF
  BY BlankWords
<1>. HIDE DEF w
<1>2. i + Len(w) - 1 <= Len(t) /\ \A k \in 1 .. Len(w) : t[i + k - 1] = w[k]
  BY DEF At, w
<1>3. Len(w) = 4
  BY <1>1
<1>4. i + 4 - 1 <= Len(t) /\ \A k \in 1 .. 4 : t[i + k - 1] = w[k]
  BY <1>2, <1>3
<1>5. i + 4 - 1 = i + 3 /\ i + 1 - 1 = i /\ i + 2 - 1 = i + 1 /\ i + 3 - 1 = i + 2
      /\ 1 \in 1 .. 4 /\ 2 \in 1 .. 4 /\ 3 \in 1 .. 4 /\ 4 \in 1 .. 4
  OBVIOUS
<1>6. t[i] = w[1] /\ t[i + 1] = w[2] /\ t[i + 2] = w[3] /\ t[i + 3] = w[4] /\ i + 3 <= Len(t)
  BY <1>4, <1>5
<1>. QED
  BY <1>1, <1>6

LEMMA BlankHere ==
  ASSUME NEW t, IsSeq(t), NEW i \in Nat, i + 3 <= Len(t), t[i] = CR, t[i + 1] = LF, t[i + 2] = CR, t[i + 3] = LF
  PROVE  At(t, i, CRLF \o CRLF)
<1>. DEFINE w == CRLF \o CRLF
<1>1. w[1] = CR /\ w[2] = LF /\ w[3] = CR /\ w[4] = LF
  BY BlankWords
<1>2. Len(w) = 4
  BY BlankWords
<1>. HIDE DEF w
<1>3. i + 4 - 1 <= Len(t)
  BY SeqShape
<1>4. \A k \in 1 .. 4 : \/ k = 1 /\ i + k - 1 = i
                        \/ k = 2 /\ i + k - 1 = i + 1
                        \/ k = 3 /\ i + k - 1 = i + 2
                        \/ k = 4 /\ i + k - 1 = i + 3
  OBVIOUS
<1>5. \A k \in 1 .. 4 : t[i + k - 1] = w[k]
  BY <1>1, <1>4
<1>. QED
  BY <1>2, <1>3, <1>5 DEF At, w

LEMMA NoCrQuiet ==
  ASSUME NEW w, IsSeq(w), NoCr(w)
  PROVE  Quiet(w)
<1>1. Len(w) \in Nat
  BY SeqShape
<1>2. ASSUME NEW i \in 1 .. Len(w) PROVE ~At(w, i, CRLF \o CRLF)
  <2>1. At(w, i, CRLF \o CRLF) => w[i] = CR
    BY BlankAt
  <2>. QED
    BY <2>1 DEF NoCr
<1>3. Len(w) > 0 => Len(w) \in 1 .. Len(w)
  BY <1>1
<1>. QED
  BY <1>2, <1>3 DEF Quiet, NoBlankCrLf, NoCr

(* Two quiet texts are quiet together when the second begins with no CR, or the first has none. *)
LEMMA QuietTogether ==
  ASSUME NEW x, IsSeq(x), Quiet(x), NEW y, IsSeq(y), Quiet(y), NoCr(x) \/ (Len(y) > 0 => y[1] # CR)
  PROVE  IsSeq(x \o y) /\ Quiet(x \o y)
<1>. DEFINE z == x \o y
            n == Len(x)
            l == Len(y)
<1>1. n \in Nat /\ l \in Nat
  BY SeqShape
<1>2. IsSeq(z) /\ Len(z) = n + l /\ \A i \in 1 .. n + l : z[i] = IF i <= n THEN x[i] ELSE y[i - n]
  BY ConcatShape
<1>. HIDE DEF z
<1>3. \A j \in 1 .. l : z[n + j] = y[j]
  <2>1. \A j \in 1 .. l : n + j \in 1 .. n + l /\ ~(n + j <= n) /\ n + j - n = j
    BY <1>1
  <2>. HIDE DEF n, l
  <2>2. \A i \in 1 .. n + l : \A k : ~(i <= n) /\ k = i - n => z[i] = y[k]
    BY <1>2, Zenon
  <2>3. ASSUME NEW j \in 1 .. l PROVE z[n + j] = y[j]
    <3>1. n + j \in 1 .. n + l /\ ~(n + j <= n) /\ j = n + j - n
      BY <2>1
    <3>. DEFINE i == n + j
    <3>2. i \in 1 .. n + l /\ ~(i <= n) /\ j = i - n
      BY <1>1, <3>1
    <3>. HIDE DEF i
    <3>3. z[i] = y[j]
      BY <2>2, <3>2, Zenon
    <3>. QED
      BY <3>3 DEF i
  <2>. QED
    BY <2>3
<1>4. ASSUME NEW i \in 1 .. Len(z), At(z, i, CRLF \o CRLF) PROVE FALSE
  <2>. HIDE DEF n, l
  <2>1. i \in Nat /\ i >= 1
    BY <1>1, <1>2
  <2>2. i + 3 <= n + l /\ z[i] = CR /\ z[i + 1] = LF /\ z[i + 2] = CR /\ z[i + 3] = LF
    BY <1>2, <1>4, <2>1, BlankAt
  <2>3. i \in 1 .. n + l /\ i + 1 \in 1 .. n + l /\ i + 2 \in 1 .. n + l /\ i + 3 \in 1 .. n + l
    BY <1>1, <2>1, <2>2
  <2>4. CASE i + 3 <= n
    <3>1. i <= n /\ i + 1 <= n /\ i + 2 <= n /\ i \in 1 .. n
      BY <1>1, <2>1, <2>4
    <3>2. x[i] = CR /\ x[i + 1] = LF /\ x[i + 2] = CR /\ x[i + 3] = LF
      BY <1>2, <2>2, <2>3, <2>4, <3>1
    <3>3. At(x, i, CRLF \o CRLF)
      BY <2>1, <2>4, <3>2, BlankHere DEF n
    <3>. QED
      BY <3>1, <3>3 DEF Quiet, NoBlankCrLf, n
  <2>5. CASE i + 2 = n
    <3>1. x[n] = CR /\ n > 0
      <4>1. i + 2 <= n /\ n > 0
        BY <1>1, <2>1, <2>5
      <4>2. x[i + 2] = CR
        BY <1>2, <2>2, <2>3, <4>1
      <4>. QED
        BY <2>5, <4>1, <4>2
    <3>. QED
      BY <3>1 DEF Quiet, n
  <2>6. CASE i + 1 = n
    <3>1. i <= n /\ i \in 1 .. n /\ ~(i + 2 <= n) /\ i + 2 - n = 1 /\ l > 0
      BY <1>1, <2>1, <2>2, <2>6
    <3>2. x[i] = CR
      BY <1>2, <2>2, <2>3, <3>1
    <3>3. y[1] = CR
      <4>1. 1 \in 1 .. l /\ i + 2 = n + 1
        BY <1>1, <2>1, <2>6, <3>1
      <4>. QED
        BY <1>3, <2>2, <4>1
    <3>. QED
      BY <3>1, <3>2, <3>3 DEF NoCr, n, l
  <2>7. CASE i = n
    <3>1. i <= n /\ n > 0
      BY <1>1, <2>1, <2>7
    <3>2. x[n] = CR
      BY <1>2, <2>2, <2>3, <2>7, <3>1
    <3>. QED
      BY <3>1, <3>2 DEF Quiet, n
  <2>8. CASE i > n
    <3>. DEFINE j == i - n
    <3>1. /\ ~(i <= n) /\ ~(i + 1 <= n) /\ ~(i + 2 <= n) /\ ~(i + 3 <= n)
          /\ i + 1 - n = j + 1 /\ i + 2 - n = j + 2 /\ i + 3 - n = j + 3 /\ j \in Nat /\ j \in 1 .. l /\ j + 3 <= l
      BY <1>1, <2>1, <2>2, <2>8
    <3>2. y[j] = CR /\ y[j + 1] = LF /\ y[j + 2] = CR /\ y[j + 3] = LF
      <4>1. i = n + j /\ i + 1 = n + (j + 1) /\ i + 2 = n + (j + 2) /\ i + 3 = n + (j + 3)
        BY <1>1, <2>1, <2>8
      <4>2. j \in 1 .. l /\ j + 1 \in 1 .. l /\ j + 2 \in 1 .. l /\ j + 3 \in 1 .. l
        BY <1>1, <2>1, <2>2, <2>8
      <4>. QED
        BY <1>3, <2>2, <4>1, <4>2
    <3>. HIDE DEF j
    <3>3. At(y, j, CRLF \o CRLF)
      BY <3>1, <3>2, BlankHere DEF l
    <3>. QED
      BY <3>1, <3>3 DEF Quiet, NoBlankCrLf, l
  <2>. QED
    BY <1>1, <2>1, <2>4, <2>5, <2>6, <2>7, <2>8
<1>5. Len(z) > 0 => z[Len(z)] # CR
  <2>. SUFFICES ASSUME Len(z) > 0 PROVE z[Len(z)] # CR
    OBVIOUS
  <2>. HIDE DEF n, l
  <2>1. n + l \in 1 .. n + l /\ n + l = Len(z)
    BY <1>1, <1>2
  <2>2. CASE l > 0
    <3>1. l \in 1 .. l
      BY <1>1, <2>2
    <3>2. z[n + l] = y[l]
      BY <1>3, <3>1
    <3>. QED
      BY <2>1, <2>2, <3>2 DEF Quiet, l
  <2>3. CASE ~(l > 0)
    <3>1. n + l <= n /\ n + l = n /\ n > 0
      BY <1>1, <2>1, <2>3
    <3>2. z[n] = x[n]
      BY <1>2, <2>1, <3>1
    <3>. QED
      BY <2>1, <3>1, <3>2 DEF Quiet, n
  <2>. QED
    BY <2>2, <2>3
<1>. QED
  BY <1>2, <1>4, <1>5 DEF Quiet, NoBlankCrLf, z

(* A part whose lines end with LF, and whose content does not mislead. *)
QuietPart(part) == NoBlankCrLf(part.content) /\ ~EndsIn(part.content, CR)

LEMMA NoCrOfTwo ==
  \A x, y : IsSeq(x) /\ NoCr(x) /\ IsSeq(y) /\ NoCr(y) => IsSeq(x \o y) /\ NoCr(x \o y)
<1>. TAKE x, y
<1>. SUFFICES ASSUME IsSeq(x), NoCr(x), IsSeq(y), NoCr(y) PROVE IsSeq(x \o y) /\ NoCr(x \o y)
  OBVIOUS
<1>. DEFINE z == x \o y
<1>1. Len(x) \in Nat /\ Len(y) \in Nat
  BY SeqShape
<1>2. IsSeq(z) /\ Len(z) = Len(x) + Len(y) /\ \A i \in 1 .. Len(x) + Len(y) : z[i] = IF i <= Len(x) THEN x[i] ELSE y[i - Len(x)]
  BY ConcatShape
<1>. HIDE DEF z
<1>3. ASSUME NEW i \in 1 .. Len(z) PROVE z[i] # CR
  <2>1. i \in 1 .. Len(x) + Len(y)
    BY <1>2
  <2>2. (i <= Len(x) => i \in 1 .. Len(x)) /\ (~(i <= Len(x)) => i - Len(x) \in 1 .. Len(y))
    BY <1>1, <2>1
  <2>. QED
    BY <1>2, <2>1, <2>2 DEF NoCr
<1>. QED
  BY <1>2, <1>3 DEF NoCr, z

LEMMA NoCrWords ==
  /\ NoCr(Marker(Boundary)) /\ NoCr(Dashes) /\ NoCr(<<LF>>) /\ NoCr(<<>>)
  /\ \A w : NoLineEnd(w) => NoCr(w)
<1>1. \A w : NoLineEnd(w) => NoCr(w)
  BY DEF NoLineEnd, NoCr
<1>2. CR # LF
  BY DEF CR, LF
<1>3. \A i \in 1 .. 1 : i = 1
  OBVIOUS
<1>4. NoCr(<<LF>>)
  <2>. DEFINE w == <<LF>>
  <2>1. Len(w) = 1 /\ w[1] = LF
    OBVIOUS
  <2>. HIDE DEF w
  <2>2. NoCr(w)
    BY <1>2, <1>3, <2>1 DEF NoCr
  <2>. QED
    BY <2>2 DEF w
<1>5. NoCr(<<>>)
  BY DEF NoCr
<1>6. NoCr(Dashes)
  <2>1. Len(Dashes) = 2
    BY DEF Dashes
  <2>2. Dashes[1] # CR /\ Dashes[2] # CR
    BY DEF Dashes, CR
  <2>3. \A i \in 1 .. 2 : i = 1 \/ i = 2
    OBVIOUS
  <2>. QED
    BY <2>1, <2>2, <2>3 DEF NoCr
<1>7. NoCr(Marker(Boundary))
  <2>1. Len(Marker(Boundary)) = 4
    BY WordShapes
  <2>. DEFINE m == <<"-", "-", "-", "b">>
  <2>2. m[1] # CR /\ m[2] # CR /\ m[3] # CR /\ m[4] # CR
    BY DEF CR
  <2>3. m = Marker(Boundary)
    BY WordShapes
  <2>. HIDE DEF m
  <2>4. \A i \in 1 .. 4 : i = 1 \/ i = 2 \/ i = 3 \/ i = 4
    OBVIOUS
  <2>. QED
    BY <2>1, <2>2, <2>3, <2>4 DEF NoCr
<1>. QED
  BY <1>1, <1>4, <1>5, <1>6, <1>7

LEMMA PartQuiet ==
  ASSUME NEW part, PartPlain(part), QuietPart(part)
  PROVE  LET text == PartText(part, <<LF>>)
         IN IsSeq(text) /\ Quiet(text) /\ text[1] # CR
<1>. DEFINE lf == <<LF>>
            M == Marker(Boundary)
            m == Dashes \o Boundary
            dw == DispositionWords
            q == <<Quote>>
            g == <<Semicolon, " ", "file", "name", "=", Quote>>
            f == FileWords
            none == <<>>
            nm == part.name
            fn == part.filename
            ct == part.content
            x == FileText(part)
            text == PartText(part, lf)
            head == ((((((M \o lf) \o dw) \o nm) \o q) \o x) \o lf) \o lf
<1>1. text = ((((((((m \o lf) \o dw) \o nm) \o q) \o x) \o lf) \o lf) \o ct) \o lf
  BY DEF PartText, Dashes, DispositionWords, FileText, FileWords, Quote, Semicolon, IsEmpty
<1>2. M = m
  BY DEF Marker, Dashes
<1>3. IsSeq(M) /\ NoCr(M) /\ IsSeq(lf) /\ NoCr(lf) /\ IsSeq(dw) /\ NoCr(dw) /\ IsSeq(q) /\ NoCr(q)
  BY WordShapes, WordsPlain, NoCrWords, TupleShape
<1>4. IsSeq(nm) /\ NoCr(nm) /\ IsSeq(x) /\ IsSeq(ct)
  BY NoCrWords, DispositionPlain DEF PartPlain, PartShape
<1>5. NoCr(x)
  <2>1. g = <<";", " ", "file", "name", "=", Quote>>
    BY DEF Semicolon
  <2>2. IsSeq(g) /\ NoCr(g) /\ IsSeq(f) /\ NoCr(f) /\ IsSeq(none) /\ NoCr(none)
    BY <2>1, WordShapes, WordsPlain, NoCrWords, TupleShape
  <2>3. IsSeq(fn) /\ (fn = none \/ NoLineEnd(fn))
    <3>1. fn = none \/ NoLineEnd(fn) \/ Bare(fn)
      BY DEF PartPlain
    <3>2. Bare(fn) => NoLineEnd(fn)
      BY DEF Bare, NoLineEnd
    <3>. QED
      BY <3>1, <3>2 DEF PartPlain, PartShape
  <2>4. x = IF fn = none THEN none ELSE IF part.quoted THEN (g \o fn) \o q ELSE f \o fn
    BY <2>1 DEF FileText, IsEmpty
  <2>. HIDE DEF g, f, none, q, fn, x
  <2>5. NoCr(fn)
    BY <2>2, <2>3, NoCrWords
  <2>6. IsSeq(g \o fn) /\ NoCr(g \o fn) /\ NoCr(f \o fn)
    BY <2>2, <2>3, <2>5, NoCrOfTwo
  <2>7. NoCr((g \o fn) \o q)
    BY <1>3, <2>6, NoCrOfTwo
  <2>. QED
    BY <2>2, <2>4, <2>6, <2>7
<1>6. CR # LF /\ Len(lf) = 1 /\ lf[1] = LF
  BY DEF CR, LF
<1>7. Quiet(ct)
  <2>1. NoBlankCrLf(ct) /\ ~EndsIn(ct, CR)
    BY DEF QuietPart
  <2>2. Len(ct) > 0 => ct # <<>>
    OBVIOUS
  <2>. QED
    BY <2>1, <2>2 DEF Quiet, EndsIn, IsEmpty
<1>. HIDE DEF lf, M, m, dw, q, nm, ct, x, text
<1>8. IsSeq(head) /\ NoCr(head)
  <2>1. IsSeq(((M \o lf) \o dw) \o nm) /\ NoCr(((M \o lf) \o dw) \o nm)
    BY <1>3, <1>4, NoCrOfTwo
  <2>2. IsSeq(((((M \o lf) \o dw) \o nm) \o q) \o x) /\ NoCr(((((M \o lf) \o dw) \o nm) \o q) \o x)
    BY <1>3, <1>4, <1>5, <2>1, NoCrOfTwo
  <2>. QED
    BY <1>3, <2>2, NoCrOfTwo
<1>9. text = (head \o ct) \o lf
  BY <1>1, <1>2
<1>. HIDE DEF head
<1>10. IsSeq(head \o ct) /\ Quiet(head \o ct)
  BY <1>4, <1>7, <1>8, NoCrQuiet, QuietTogether
<1>11. IsSeq(text) /\ Quiet(text)
  <2>1. Quiet(lf) /\ (Len(lf) > 0 => lf[1] # CR)
    BY <1>3, <1>6, NoCrQuiet
  <2>. QED
    BY <1>3, <1>9, <1>10, <2>1, QuietTogether
<1>12. text[1] # CR
  <2>. DEFINE one == 1
  <2>1. one \in Nat /\ one >= 1
    OBVIOUS
  <2>2. At(text, one, text)
    <3>1. Len(text) \in Nat
      BY <1>11, SeqShape
    <3>2. 1 + Len(text) - 1 <= Len(text) /\ \A j \in 1 .. Len(text) : 1 + j - 1 = j
      BY <3>1
    <3>. QED
      BY <3>2 DEF At
  <2>. HIDE DEF one
  <2>3. PartShape(part)
    BY DEF PartPlain
  <2>4. Stands(text, one, Disposition(part), part.content, lf)
    <3>1. At(text, one, PartText(part, lf))
      BY <2>2 DEF text
    <3>. QED
      BY <1>3, <1>11, <2>1, <2>3, <3>1, PartStands
  <2>5. At(text, one, Marker(Boundary))
    BY <2>4 DEF Stands
  <2>6. Len(M) = 4
    BY WordShapes DEF M
  <2>7. 1 \in 1 .. Len(M) /\ one + 1 - 1 = 1
    BY <2>6 DEF one
  <2>8. text[1] = M[1]
    BY <2>5, <2>7 DEF At, M
  <2>. QED
    BY <1>3, <2>7, <2>8 DEF NoCr
<1>. QED
  BY <1>11, <1>12 DEF text, lf

LEMMA RowsQuiet ==
  ASSUME NEW rows, IsRows(rows), \A i \in DOMAIN rows : Quiet(rows[i]) /\ rows[i][1] # CR
  PROVE  IsSeq(FlattenSeq(rows)) /\ Quiet(FlattenSeq(rows))
<1>. DEFINE n == Len(rows)
            none == <<>>
            F == [k \in Nat |-> FlattenSeq(SubSeq(rows, 1, k))]
            S == {k \in Nat : k <= n => IsSeq(F[k]) /\ Quiet(F[k])}
<1>1. n \in Nat /\ DOMAIN rows = 1 .. n
  BY SeqShape DEF IsRows
<1>2. IsSeq(none) /\ NoCr(none) /\ FlattenSeq(none) = none
  BY TupleShape, NoCrWords, FlattenOfEmpty
<1>3. SubSeq(rows, 1, 0) = none /\ SubSeq(rows, 1, n) = rows
  BY <1>2, RowEnds
<1>. HIDE DEF none, n
<1>4. F[0] = none /\ F[n] = FlattenSeq(rows)
  BY <1>1, <1>2, <1>3
<1>5. \A k \in Nat : k < n => F[k + 1] = F[k] \o rows[k + 1]
  <2>1. ASSUME NEW k \in Nat, k < n
        PROVE  FlattenSeq(SubSeq(rows, 1, k + 1)) = FlattenSeq(SubSeq(rows, 1, k)) \o rows[k + 1]
    BY <1>2, <2>1, RowStands DEF n
  <2>2. \A k \in Nat : k + 1 \in Nat
    OBVIOUS
  <2>3. \A k \in Nat : F[k] = FlattenSeq(SubSeq(rows, 1, k))
    OBVIOUS
  <2>. HIDE DEF F
  <2>. QED
    BY <2>1, <2>2, <2>3
<1>. HIDE DEF F
<1>6. 0 \in S
  BY <1>2, <1>4, NoCrQuiet
<1>7. ASSUME NEW k \in Nat, k \in S PROVE k + 1 \in S
  <2>. SUFFICES ASSUME k + 1 <= n PROVE IsSeq(F[k + 1]) /\ Quiet(F[k + 1])
    OBVIOUS
  <2>1. k < n /\ k <= n /\ k + 1 \in 1 .. n
    BY <1>1
  <2>2. IsSeq(F[k]) /\ Quiet(F[k])
    BY <1>7, <2>1
  <2>3. IsSeq(rows[k + 1]) /\ Quiet(rows[k + 1]) /\ rows[k + 1][1] # CR
    BY <1>1, <2>1 DEF IsRows
  <2>4. F[k + 1] = F[k] \o rows[k + 1]
    BY <1>5, <2>1
  <2>5. IsSeq(F[k] \o rows[k + 1]) /\ Quiet(F[k] \o rows[k + 1])
    BY <2>2, <2>3, QuietTogether
  <2>. QED
    BY <2>4, <2>5
<1>. HIDE DEF S
<1>8. Nat \subseteq S
  BY <1>6, <1>7, Induction
<1>9. n \in S /\ n <= n
  BY <1>1, <1>8
<1>. QED
  BY <1>4, <1>9 DEF S

LEMMA InnerQuiet ==
  ASSUME NEW ps, PlainParts(ps), \A i \in DOMAIN ps : QuietPart(ps[i])
  PROVE  Quiet(Inner(ps, <<LF>>))
<1>. DEFINE lf == <<LF>>
            rows == Texts(ps, lf)
            F == FlattenSeq(rows)
            e == Marker(Boundary) \o Dashes
            close == Closing(lf)
<1>1. IsLineEnd(lf)
  BY DEF IsLineEnd
<1>2. IsRows(rows) /\ DOMAIN rows = DOMAIN ps /\ \A i \in DOMAIN ps : rows[i] = PartText(ps[i], lf)
  <2>1. DOMAIN rows = DOMAIN ps
    BY DEF Texts
  <2>. HIDE DEF lf
  <2>. QED
    BY <1>1, <2>1, TextsAre
<1>3. \A i \in DOMAIN rows : Quiet(rows[i]) /\ rows[i][1] # CR
  <2>1. \A i \in DOMAIN ps : PartPlain(ps[i])
    BY DEF PlainParts
  <2>. HIDE DEF rows
  <2>. QED
    BY <1>2, <2>1, PartQuiet
<1>4. IsSeq(F) /\ Quiet(F)
  <2>. HIDE DEF rows
  <2>. QED
    BY <1>2, <1>3, RowsQuiet
<1>5. IsSeq(close) /\ IsSeq(e) /\ IsSeq(Dashes) /\ IsSeq(Marker(Boundary)) /\ IsSeq(LineTail(lf))
  <2>. HIDE DEF lf
  <2>. QED
    BY <1>1, ClosingShape, WordShapes, EolIs
<1>6. NoCr(Marker(Boundary)) /\ NoCr(Dashes)
  BY NoCrWords
<1>7. NoCr(LineTail(lf))
  <2>1. lf # CRLF
    <3>1. Len(lf) = 1 /\ Len(CRLF) = 2
      BY <1>1, LineEndShape
    <3>. QED
      BY <3>1
  <2>2. LineTail(lf) = <<>>
    BY <2>1 DEF LineTail
  <2>. QED
    BY <2>2, NoCrWords
<1>. HIDE DEF lf, F
<1>8. IsSeq(close) /\ NoCr(close)
  <2>1. NoCr(e)
    BY <1>5, <1>6, NoCrOfTwo
  <2>. HIDE DEF e
  <2>2. NoCr(e \o LineTail(lf))
    BY <1>5, <1>7, <2>1, NoCrOfTwo
  <2>. QED
    BY <1>5, <2>2 DEF Closing, e
<1>. HIDE DEF close
<1>9. Quiet(close) /\ (Len(close) > 0 => close[1] # CR)
  <2>1. Len(close) \in Nat
    BY <1>8, SeqShape
  <2>2. Len(close) > 0 => 1 \in 1 .. Len(close)
    BY <2>1
  <2>. QED
    BY <1>8, <2>2, NoCrQuiet DEF NoCr
<1>10. Quiet(F \o close)
  BY <1>4, <1>8, <1>9, QuietTogether
<1>. QED
  BY <1>10 DEF Inner, F, rows, close, lf

LEMMA NoWord ==
  ASSUME NEW t, IsSeq(t), ~HasWord(t, CRLF \o CRLF)
  PROVE  NoBlankCrLf(t)
BY BlankWords, WordNowhere DEF NoBlankCrLf

LEMMA UnmixedForm ==
  ASSUME NEW a, PlainParts(a.parts), ~LineEndsMixed(a)
  PROVE  Unmixed(a.parts, a.eol)
<1>. DEFINE ps == a.parts
<1>. SUFFICES ASSUME a.eol = <<LF>> PROVE NoBlankCrLf(Inner(ps, <<LF>>)) /\ \A i \in DOMAIN ps : ~EndsIn(ps[i].content, CR)
  BY DEF Unmixed
<1>1. \A i \in DOMAIN ps : ~HasWord(ps[i].content, CRLF \o CRLF) /\ ~EndsIn(ps[i].content, CR)
  BY DEF LineEndsMixed
<1>2. \A i \in DOMAIN ps : IsSeq(ps[i].content)
  BY DEF PlainParts, PartPlain, PartShape
<1>. HIDE DEF ps
<1>3. \A i \in DOMAIN ps : QuietPart(ps[i])
  BY <1>1, <1>2, NoWord DEF QuietPart
<1>4. PlainParts(ps)
  BY DEF ps
<1>5. Quiet(Inner(ps, <<LF>>))
  BY <1>3, <1>4, InnerQuiet
<1>. QED
  BY <1>1, <1>5 DEF Quiet

(* A text without a line feed has no headers. *)
LEMMA NoHeaders ==
  ASSUME NEW t, IsSeq(t), \A i \in 1 .. Len(t) : t[i] # LF, NEW start \in Nat, start >= 1
  PROVE  HeadersEnd(t, start) = npos
<1>. DEFINE w == CRLF \o CRLF
            v == <<LF, LF>>
<1>1. Len(t) \in Nat
  BY SeqShape
<1>2. IsSeq(w) /\ IsSeq(v)
  BY BlankWords
<1>3. Len(w) = 4 /\ Len(v) = 2 /\ v[1] = LF
  BY BlankWords
<1>. HIDE DEF w, v
<1>4. ASSUME NEW i \in start .. Len(t) PROVE ~At(t, i, w) /\ ~At(t, i, v)
  <2>1. i \in Nat /\ i \in 1 .. Len(t)
    BY <1>1
  <2>2. At(t, i, w) => i + 3 <= Len(t) /\ t[i + 1] = LF
    BY <2>1, BlankAt DEF w
  <2>3. At(t, i, w) => i + 1 \in 1 .. Len(t)
    BY <1>1, <2>1, <2>2
  <2>4. At(t, i, v) => t[i] = LF
    <3>1. 1 \in 1 .. Len(v) /\ i + 1 - 1 = i
      BY <1>3, <2>1
    <3>2. At(t, i, v) => t[i + 1 - 1] = v[1]
      BY <3>1 DEF At
    <3>. QED
      BY <1>3, <3>1, <3>2
  <2>. QED
    BY <2>1, <2>2, <2>3, <2>4
<1>5. Find(t, w, start) = npos
  <2>1. Len(w) > 0
    BY <1>3
  <2>. QED
    BY <1>2, <1>4, <2>1, FindAt
<1>6. Find(t, v, start) = npos
  <2>1. Len(v) > 0
    BY <1>3
  <2>. QED
    BY <1>2, <1>4, <2>1, FindAt
<1>. QED
  BY <1>5, <1>6, Zenon DEF HeadersEnd, w, v

LEMMA EmptyForm ==
  ASSUME NEW ps, PlainParts(ps), Len(ps) = 0, NEW eol, IsLineEnd(eol)
  PROVE  PartAt(Inner(ps, eol), Boundary, 5) = NoPart
<1>. DEFINE rows == Texts(ps, eol)
            close == Closing(eol)
            t == Inner(ps, eol)
            dash == "-"
            b == "b"
            S == {dash, b, CR}
<1>1. rows = <<>>
  <2>1. IsRows(rows) /\ Len(rows) = 0 /\ IsSeq(close)
    BY TextsAre, ClosingShape
  <2>. HIDE DEF rows
  <2>2. SubSeq(rows, 1, 0) = <<>> /\ SubSeq(rows, 1, Len(rows)) = rows
    BY <2>1, RowEnds
  <2>. QED
    BY <2>1, <2>2
<1>2. t = <<>> \o close
  BY <1>1, FlattenOfEmpty DEF Inner
<1>3. Marker(Boundary) = <<dash, dash, dash, b>> /\ Dashes = <<dash, dash>>
  BY WordShapes DEF Dashes
<1>4. LF \notin S
  BY DEF LF, CR
<1>. HIDE DEF dash, b
<1>5. Marker(Boundary) \in Seq(S) /\ Dashes \in Seq(S) /\ LineTail(eol) \in Seq(S) /\ <<>> \in Seq(S)
  <2>1. <<dash, dash, dash, b>> \in Seq(S) /\ <<dash, dash>> \in Seq(S) /\ <<CR>> \in Seq(S) /\ <<>> \in Seq(S)
    OBVIOUS
  <2>2. LineTail(eol) \in {<<CR>>, <<>>}
    BY DEF LineTail
  <2>. HIDE DEF S
  <2>. QED
    BY <1>3, <2>1, <2>2
<1>. HIDE DEF S
<1>6. \A x, y \in Seq(S) : x \o y \in Seq(S)
  BY ConcatProperties
<1>7. t \in Seq(S)
  BY <1>2, <1>5, <1>6 DEF Closing
<1>. HIDE DEF t
<1>8. IsSeq(t) /\ \A i \in 1 .. Len(t) : t[i] # LF
  BY <1>4, <1>7, SeqIs, ElementOfSeq
<1>9. SkipLineEnd(t, 5) \in Nat /\ SkipLineEnd(t, 5) >= 1
  <2>1. SkipLineEnd(t, 5) \in {5, 5 + 1, 5 + 1 + 1}
    <3>. DEFINE five == 5
                lf == IF StartsWith(t, five, <<CR>>) THEN five + 1 ELSE five
    <3>1. SkipLineEnd(t, five) = IF StartsWith(t, lf, <<LF>>) THEN lf + 1 ELSE lf
      BY Zenon DEF SkipLineEnd
    <3>2. SkipLineEnd(t, five) \in {lf, lf + 1}
      BY <3>1, Zenon
    <3>3. lf \in {five, five + 1}
      BY Zenon
    <3>. HIDE DEF lf, five
    <3>4. SkipLineEnd(t, five) \in {five, five + 1, five + 1 + 1}
      BY <3>2, <3>3, Zenon
    <3>. QED
      BY <3>4 DEF five
  <2>. QED
    BY <2>1
<1>10. HeadersEnd(t, SkipLineEnd(t, 5)) = npos
  BY <1>8, <1>9, NoHeaders
<1>. QED
  BY <1>10, Zenon DEF PartAt, t

-----------------------------------------------------------------------------
(***************************************************************************)
(* What the client asks, and that its text is read.                        *)
(***************************************************************************)

LEMMA FirstMarker ==
  ASSUME NEW ps, PlainParts(ps), NEW eol, IsLineEnd(eol)
  PROVE  Find(Inner(ps, eol), Marker(Boundary), 1) = 1 /\ StartOf(ps, eol, 0) = 1 /\ Len(Marker(Boundary)) = 4
<1>. DEFINE t == Inner(ps, eol)
            m == Marker(Boundary)
            one == 1
            zero == 0
            n == Len(ps)
<1>1. IsRows(Texts(ps, eol)) /\ IsSeq(t) /\ n \in Nat
  BY TextsAre, BodyIs, SeqShape DEF PlainParts
<1>2. StartOf(ps, eol, 0) = 1
  <2>1. IsSeq(Closing(eol))
    BY ClosingShape
  <2>. QED
    BY <1>1, <2>1, RowEnds DEF StartOf
<1>3. IsSeq(m) /\ Len(m) = 4
  BY WordShapes
<1>4. zero \in 0 .. n
  BY <1>1
<1>. HIDE DEF n
<1>5. At(t, StartOf(ps, eol, zero), m)
  <2>. HIDE DEF zero
  <2>. QED
    BY <1>4, MarkerFollows DEF n
<1>6. At(t, one, m) /\ one \in Nat /\ one >= 1 /\ \A i \in one .. one - 1 : FALSE
  BY <1>2, <1>5
<1>. HIDE DEF t, m, one
<1>7. Len(m) > 0 /\ one <= one
  BY <1>3, <1>6
<1>8. Find(t, m, one) = one
  BY <1>1, <1>3, <1>6, <1>7, FindAt
<1>. QED
  BY <1>2, <1>3, <1>8 DEF t, m, one

(* What the client asks of an upload, and that the text of it is read. *)
UploadAsked(a) ==
  /\ PlainParts(a.parts) /\ IsLineEnd(a.eol) /\ a.header \in Clean /\ a.header # ":"
  /\ \A i \in DOMAIN a.parts : PartOfAny(a.parts[i])
  /\ a.header \in TypeNames \/ a.parts = <<>>

LEMMA UploadText ==
  ASSUME NEW a, a.route = "upload"
  PROVE  TextOf(a) = RequestText("POST", <<"/upload">>, a.header, TypeValue(a.quoted), MultipartBody(a.parts, a.eol), a.eol)
<1>1. TextOf(a) = RequestText("POST", <<"/upload">>, a.header,
                     <<"multipart", ";", " ", "boundary", "=">> \o
                       (IF a.quoted THEN <<"\"">> \o Boundary \o <<"\"">> ELSE Boundary),
                     MultipartBody(a.parts, a.eol), a.eol)
  <2>1. a.route # "shorten"
    BY Zenon
  <2>. QED
    BY <2>1, Zenon DEF TextOf
<1>2. TypeValue(a.quoted) = <<"multipart", ";", " ", "boundary", "=">> \o
                       (IF a.quoted THEN <<"\"">> \o Boundary \o <<"\"">> ELSE Boundary)
  BY Zenon DEF TypeValue, TypeWords, Semicolon, Quote
<1>. QED
  BY <1>1, <1>2, Zenon

UploadParsed(q, a) ==
  /\ q.method = <<"POST">> /\ q.uri = <<"/upload">> /\ q.body = Inner(a.parts, a.eol)
  /\ BoundaryOf(q) = IF a.header \in TypeNames THEN Boundary ELSE <<>>

LEMMA UploadAskRead ==
  ASSUME NEW a, a.route = "upload", UploadAsked(a)
  PROVE  UploadParsed(ParseRequest(TextOf(a)), a)
<1>. DEFINE header == a.header
            value == TypeValue(a.quoted)
            inner == Inner(a.parts, a.eol)
            eol == a.eol
            q == ParseRequest(TextOf(a))
<1>1. header \in Clean /\ header # ":" /\ IsLineEnd(eol) /\ value \in Seq(Clean)
  BY TypeShape DEF UploadAsked
<1>2. inner \in Seq(AnyChar) /\ MultipartBody(a.parts, a.eol) = inner \o <<LF>>
  BY InnerOfAny, BodyIs DEF UploadAsked
<1>3. TextOf(a) = RequestText("POST", <<"/upload">>, header, value, inner \o <<LF>>, eol)
  BY <1>2, UploadText
<1>4. UploadRead(RequestText("POST", <<"/upload">>, header, value, inner \o <<LF>>, eol), header, value, inner)
  <2>. HIDE DEF header, value, inner, eol
  <2>. QED
    BY <1>1, <1>2, UploadIsRead
<1>5. UploadRead(TextOf(a), header, value, inner)
  BY <1>3, <1>4
<1>6. q.method = <<"POST">> /\ q.uri = <<"/upload">> /\ q.body = inner
      /\ q.headers = AddHeader(AddHeader(NoFields, HostLine), HeaderOf(header, value))
  BY <1>5 DEF UploadRead
<1>7. q.headers = UploadHeaders(header, TypeValue(a.quoted))
  <2>1. AddHeader(AddHeader(NoFields, HostLine), HeaderOf(header, value)) = UploadHeaders(header, value)
    BY <1>1, HeadersMade
  <2>. QED
    BY <1>6, <2>1
<1>8. BoundaryOf(q) = IF header \in TypeNames THEN Boundary ELSE <<>>
  <2>. HIDE DEF q, header
  <2>. QED
    BY <1>7, BoundaryRead
<1>. QED
  BY <1>6, <1>8 DEF UploadParsed

LEMMA WellFormedIsPlain ==
  ASSUME NEW p, PartShape(p), WellFormedPart(p)
  PROVE  PartPlain(p)
<1>. DEFINE nm == p.name
            fn == p.filename
            c == p.content
            m == Marker(Boundary)
<1>1. IsSeq(nm) /\ IsSeq(fn) /\ IsSeq(c) /\ IsSeq(m) /\ IsSeq(FileKey)
      /\ DOMAIN nm = 1 .. Len(nm) /\ DOMAIN fn = 1 .. Len(fn) /\ Len(fn) \in Nat
  <2>1. IsSeq(nm) /\ IsSeq(fn) /\ IsSeq(c)
    BY DEF PartShape
  <2>2. IsSeq(FileKey)
    BY TupleShape DEF FileKey
  <2>. QED
    BY <2>1, <2>2, SeqShape, WordShapes
<1>2. ASSUME NEW w, Quotable(w), DOMAIN w = 1 .. Len(w)
      PROVE  NoLineEnd(w) /\ \A k \in 1 .. Len(w) : w[k] # Quote
  <2>1. \A k \in 1 .. Len(w) : w[k] \notin {CR, LF} /\ w[k] # Quote
    BY <1>2, Zenon DEF Quotable, Quote
  <2>. QED
    BY <2>1 DEF NoLineEnd
<1>3. ASSUME NEW w, Token(w), DOMAIN w = 1 .. Len(w), Len(w) > 0
      PROVE  Bare(w)
  <2>1. /\ \A k \in 1 .. Len(w) : w[k] \notin {CR, LF, Semicolon}
        /\ w[1] \notin {Quote, " ", "\t"} /\ w[Len(w)] \notin {" ", "\t"}
    BY <1>3, Zenon DEF Token, Quote, Semicolon
  <2>. QED
    BY <1>3, <2>1, Zenon DEF Bare
<1>4. NoLineEnd(nm) /\ \A k \in 1 .. Len(nm) : nm[k] # Quote
  <2>1. Quotable(nm)
    BY DEF WellFormedPart
  <2>. QED
    BY <1>1, <1>2, <2>1
<1>5. ~Holds(nm, FileKey)
  <2>1. ~HasWord(nm, FileKey)
    BY DEF WellFormedPart, FileKey
  <2>. QED
    BY <1>1, <2>1, WordNowhere DEF Holds
<1>6. HasNoMarker(c)
  <2>1. ~HasWord(c, m)
    BY DEF WellFormedPart
  <2>. QED
    BY <1>1, <2>1, WordNowhere DEF HasNoMarker
<1>7. CASE fn = <<>>
  BY <1>4, <1>5, <1>6, <1>7 DEF PartPlain
<1>8. CASE fn # <<>>
  <2>1. ~IsEmpty(fn) /\ Len(fn) > 0
    <3>1. ~IsEmpty(fn)
      BY <1>8 DEF IsEmpty
    <3>2. Len(fn) > 0
      BY <1>1, <1>8, SeqShape
    <3>. QED
      BY <3>1, <3>2
  <2>2. IF p.quoted THEN Quotable(fn) ELSE Token(fn)
    BY <2>1, Zenon DEF WellFormedPart
  <2>3. p.quoted => NoLineEnd(fn) /\ \A k \in 1 .. Len(fn) : fn[k] # Quote
    BY <1>1, <1>2, <2>2, Zenon
  <2>4. ~p.quoted => Bare(fn)
    BY <1>1, <1>3, <2>1, <2>2, Zenon
  <2>. QED
    BY <1>4, <1>5, <1>6, <1>8, <2>3, <2>4, Zenon DEF PartPlain
<1>. QED
  BY <1>7, <1>8

LEMMA AskedUploads ==
  ASSUME WellFormedUploads, NEW a \in Asks, a.route = "upload"
  PROVE  UploadAsked(a)
<1>. DEFINE ps == a.parts
            Part_ == [name : Seq(STRING), filename : Seq(STRING), quoted : BOOLEAN, content : Seq(STRING)]
<1>1. a.header \in STRING /\ a.eol \in {CRLF, <<LF>>} /\ ps \in Seq(Part_)
  BY AsksAssumption
<1>2. a.header \notin {CR, LF, ":"} /\ (a.header \in TypeNames \/ ps = <<>>) /\ \A i \in DOMAIN ps : WellFormedPart(ps[i])
  BY DEF WellFormedUploads, TypeNames, IsEmpty
<1>3. STRING \subseteq AnyChar
  BY DEF AnyChar
<1>. HIDE DEF ps
<1>4. IsSeq(ps) /\ \A i \in DOMAIN ps : ps[i] \in Part_
  <2>1. DOMAIN ps = 1 .. Len(ps) /\ \A i \in 1 .. Len(ps) : ps[i] \in Part_
    <3>. HIDE DEF Part_
    <3>. QED
      BY <1>1, LenProperties, ElementOfSeq
  <2>. QED
    BY <1>1, <2>1, SeqIs
<1>5. \A i \in DOMAIN ps : ps[i].name \in Seq(STRING) /\ ps[i].filename \in Seq(STRING) /\ ps[i].content \in Seq(STRING)
  BY <1>4
<1>6. \A i \in DOMAIN ps : PartShape(ps[i])
  BY <1>5, SeqIs DEF PartShape
<1>7. \A i \in DOMAIN ps : PartOfAny(ps[i])
  <2>1. Seq(STRING) \subseteq Seq(AnyChar)
    BY <1>3, SeqMonotonic
  <2>. QED
    BY <1>5, <2>1 DEF PartOfAny
<1>8. PlainParts(ps)
  BY <1>2, <1>4, <1>6, WellFormedIsPlain DEF PlainParts
<1>9. a.header \in Clean
  BY <1>1, <1>2, <1>3 DEF Clean
<1>. QED
  BY <1>1, <1>2, <1>7, <1>8, <1>9 DEF UploadAsked, IsLineEnd, ps

-----------------------------------------------------------------------------
(***************************************************************************)
(* The path of an upload: before each round, the parts that were read are  *)
(* kept, and the next one starts behind the boundary at pos.               *)
(***************************************************************************)
PartsAsked == Len(ask.parts)

BeforeRound ==
  /\ ask.header \in TypeNames
  /\ \E k \in 0 .. PartsAsked :
       /\ pos = StartOf(ask.parts, ask.eol, k) + 4 /\ FiledTo(files, fields, ask.parts, k)
       /\ k # PartsAsked \/ PartsAsked = 0

UploadSteps ==
  /\ pc \in {"handle_request", "extract_uploaded_file", "parse_part", "file_of_form", "done"}
  /\ raw = TextOf(ask)
  /\ pc # "handle_request" => body = Inner(ask.parts, ask.eol)
  /\ pc \in {"handle_request", "extract_uploaded_file"} => files = NoFields /\ fields = NoFields
  /\ ~LineEndsMixed(ask) =>
       /\ pc = "parse_part" => BeforeRound
       /\ pc \in {"file_of_form", "done"} => FiledTo(files, fields, ask.parts, PartsAsked)

UploadInv ==
  /\ pc = "compose" => ask.route = "none" /\ files = NoFields /\ fields = NoFields
  /\ pc # "compose" => ask \in Asks
  /\ ask.route = "upload" => UploadSteps

(* What one round makes of the files and fields. *)
RoundKept(fs, gs, part) ==
  /\ files' = IF ~part.found THEN fs ELSE FilesWith(fs, part)
  /\ fields' = IF ~part.found THEN gs ELSE FieldsWith(gs, part)

LEMMA RoundTaken ==
  ASSUME ParsePart
  PROVE  LET part == PartAt(body, BoundaryOf(ParseRequest(raw)), pos)
         IN /\ pc = "parse_part" /\ ask' = ask /\ raw' = raw /\ body' = body
            /\ pc' = IF ~part.found \/ part.last THEN "file_of_form" ELSE "parse_part"
            /\ pos' = IF ~part.found THEN pos ELSE part.behind
            /\ RoundKept(files, fields, part)
<1>. DEFINE part == PartAt(body, BoundaryOf(ParseRequest(raw)), pos)
<1>1. /\ pc = "parse_part" /\ ask' = ask /\ raw' = raw /\ body' = body
      /\ IF ~part.found THEN pc' = "file_of_form" /\ UNCHANGED <<pos, files, fields>>
         ELSE /\ pc' = IF part.last THEN "file_of_form" ELSE "parse_part"
              /\ pos' = part.behind
              /\ files' = FilesWith(files, part)
              /\ fields' = FieldsWith(fields, part)
  BY DEF ParsePart, FilesWith, FieldsWith
<1>. HIDE DEF part
<1>2. CASE part.found
  <2>1. /\ pc' = (IF part.last THEN "file_of_form" ELSE "parse_part") /\ pos' = part.behind
        /\ files' = FilesWith(files, part) /\ fields' = FieldsWith(fields, part)
    BY <1>1, <1>2, Zenon
  <2>. QED
    BY <1>1, <1>2, <2>1, Zenon DEF RoundKept, part
<1>3. CASE ~part.found
  <2>1. pc' = "file_of_form" /\ pos' = pos /\ files' = files /\ fields' = fields
    BY <1>1, <1>3
  <2>. QED
    BY <1>1, <1>3, <2>1, Zenon DEF RoundKept, part
<1>. QED
  BY <1>2, <1>3

LEMMA UploadRound ==
  ASSUME WellFormedUploads, UploadInv, ParsePart, ask.route = "upload"
  PROVE  UploadSteps'
<1>. DEFINE a == ask
            ps == ask.parts
            eol == ask.eol
            n == Len(ask.parts)
            read == PartAt(body, BoundaryOf(ParseRequest(raw)), pos)
<1>1. /\ pc = "parse_part" /\ ask' = ask /\ raw' = raw /\ body' = body
      /\ pc' = IF ~read.found \/ read.last THEN "file_of_form" ELSE "parse_part"
      /\ pos' = IF ~read.found THEN pos ELSE read.behind
      /\ RoundKept(files, fields, read)
  BY RoundTaken
<1>2. raw = TextOf(ask) /\ body = Inner(ps, eol) /\ ask \in Asks /\ pc' \in {"file_of_form", "parse_part"}
  BY <1>1 DEF UploadInv, UploadSteps
<1>3. UploadAsked(ask)
  BY <1>2, AskedUploads
<1>. SUFFICES ASSUME ~LineEndsMixed(ask)
              PROVE  /\ pc' = "parse_part" => BeforeRound'
                     /\ pc' = "file_of_form" => FiledTo(files', fields', ps, n)
  BY <1>1, <1>2 DEF UploadSteps, PartsAsked, LineEndsMixed
<1>4. BeforeRound
  BY <1>1 DEF UploadInv, UploadSteps
<1>5. ask.header \in TypeNames /\ read = PartAt(Inner(ps, eol), Boundary, pos)
  <2>1. BoundaryOf(ParseRequest(raw)) = Boundary
    BY <1>2, <1>3, <1>4, UploadAskRead DEF UploadParsed, BeforeRound
  <2>. QED
    BY <1>2, <1>4, <2>1 DEF BeforeRound
<1>6. PlainParts(ps) /\ IsLineEnd(eol) /\ Unmixed(ps, eol)
  BY <1>3, UnmixedForm DEF UploadAsked
<1>7. PICK k \in 0 .. n : pos = StartOf(ps, eol, k) + 4 /\ FiledTo(files, fields, ps, k) /\ (k # n \/ n = 0)
  BY <1>4 DEF BeforeRound, PartsAsked
<1>8. n \in Nat /\ DOMAIN ps = 1 .. n
  BY <1>6, SeqShape DEF PlainParts
<1>9. CASE k = n
  <2>1. n = 0 /\ k = 0
    BY <1>7, <1>9
  <2>2. pos = 5
    <3>1. StartOf(ps, eol, 0) = 1
      BY <1>6, FirstMarker
    <3>. QED
      BY <1>7, <2>1, <3>1
  <2>3. read = NoPart
    BY <1>5, <1>6, <2>1, <2>2, EmptyForm
  <2>4. ~read.found
    BY <2>3 DEF NoPart
  <2>. HIDE DEF read
  <2>5. pc' = "file_of_form" /\ files' = files /\ fields' = fields
    BY <1>1, <2>4 DEF RoundKept
  <2>. QED
    BY <1>7, <1>9, <2>5
<1>10. CASE k # n
  <2>. DEFINE p == ps[k + 1]
  <2>1. RoundIs(read, ps, eol, k)
    <3>1. RoundGiven(ps, eol, k)
      BY <1>6, <1>7, <1>10 DEF RoundGiven
    <3>. QED
      BY <1>5, <1>7, <3>1, RoundRead
  <2>2. read.found /\ read.name = p.name /\ read.filename = p.filename /\ read.content = p.content
        /\ (read.last <=> k + 1 = n) /\ read.behind = StartOf(ps, eol, k + 1) + 4
    BY <2>1 DEF RoundIs
  <2>. HIDE DEF read
  <2>3. k \in Nat /\ k + 1 \in 1 .. n /\ k + 1 \in 0 .. n
    <3>1. n \in Nat /\ k \in 0 .. n /\ k # n
      BY <1>7, <1>8, <1>10
    <3>. HIDE DEF n
    <3>. QED
      BY <3>1
  <2>4. files' = FilesWith(files, p) /\ fields' = FieldsWith(fields, p)
    <3>1. files' = FilesWith(files, read) /\ fields' = FieldsWith(fields, read)
      BY <1>1, <2>2 DEF RoundKept
    <3>2. FilesWith(files, read) = FilesWith(files, p) /\ FieldsWith(fields, read) = FieldsWith(fields, p)
      <4>. HIDE DEF p
      <4>. QED
        BY <2>2 DEF FilesWith, FieldsWith
    <3>. QED
      BY <3>1, <3>2
  <2>5. IsSeq(p.content)
    BY <1>6, <1>8, <2>3 DEF PlainParts, PartPlain, PartShape
  <2>6. FiledTo(files', fields', ps, k + 1)
    <3>1. k + 1 \in DOMAIN ps
      BY <1>8, <2>3
    <3>2. FiledTo(FilesWith(files, p), FieldsWith(fields, p), ps, k + 1)
      BY <1>7, <2>3, <2>5, <3>1, PartFiled
    <3>. QED
      BY <2>4, <3>2
  <2>7. pos' = StartOf(ps, eol, k + 1) + 4 /\ pc' = IF k + 1 = n THEN "file_of_form" ELSE "parse_part"
    <3>1. pos' = read.behind
      BY <1>1, <2>2, Zenon
    <3>2. pc' = IF read.last THEN "file_of_form" ELSE "parse_part"
      BY <1>1, <2>2, Zenon
    <3>. QED
      BY <2>2, <3>1, <3>2, Zenon
  <2>8. CASE k + 1 = n
    BY <2>6, <2>7, <2>8
  <2>9. CASE k + 1 # n
    <3>1. pc' = "parse_part"
      BY <2>7, <2>9
    <3>2. \E j \in 0 .. n : pos' = StartOf(ps, eol, j) + 4 /\ FiledTo(files', fields', ps, j) /\ (j # n \/ n = 0)
      BY <2>3, <2>6, <2>7, <2>9
    <3>3. BeforeRound'
      BY <1>1, <1>5, <3>2 DEF BeforeRound, PartsAsked
    <3>. QED
      BY <3>1, <3>3
  <2>. QED
    BY <2>8, <2>9
<1>. QED
  BY <1>9, <1>10

LEMMA UploadRouted ==
  ASSUME WellFormedUploads, UploadInv, HandleRequest, ask.route = "upload"
  PROVE  UploadSteps'
<1>. DEFINE request == ParseRequest(raw)
<1>1. pc = "handle_request" /\ ask' = ask /\ raw' = raw /\ files' = files /\ fields' = fields /\ ask \in Asks
  BY DEF HandleRequest, UploadInv
<1>2. raw = TextOf(ask) /\ files = NoFields /\ fields = NoFields
  BY <1>1 DEF UploadInv, UploadSteps
<1>3. UploadParsed(request, ask)
  BY <1>1, <1>2, AskedUploads, UploadAskRead
<1>4. request.method = <<"POST">> /\ request.uri = <<"/upload">> /\ request.body = Inner(ask.parts, ask.eol)
  BY <1>3 DEF UploadParsed
<1>5. /\ body' = request.body
      /\ \/ request.uri = <<"/shorten">>
         \/ /\ request.uri = <<"/upload">>
            /\ \/ ~(request.method = <<"POST">>) /\ Fail(405, <<"Method not allowed">>)
               \/ pc' = "extract_uploaded_file"
         \/ request.uri[1] = "/stats/"
         \/ request.uri[1] = "/qr/"
         \/ request.uri \notin {<<"/shorten">>, <<"/upload">>}
  BY DEF HandleRequest
<1>6. <<"/shorten">> # <<"/upload">> /\ <<"/upload">>[1] = "/upload"
  OBVIOUS
<1>. HIDE DEF request
<1>7. pc' = "extract_uploaded_file" /\ body' = Inner(ask.parts, ask.eol)
  BY <1>4, <1>5, <1>6
<1>. QED
  BY <1>1, <1>2, <1>7 DEF UploadSteps

LEMMA UploadOpened ==
  ASSUME WellFormedUploads, UploadInv, FindFirstBoundary, ask.route = "upload"
  PROVE  UploadSteps'
<1>. DEFINE ps == ask.parts
            boundary == BoundaryOf(ParseRequest(raw))
            first == Find(body, Marker(boundary), 1)
<1>1. /\ pc = "extract_uploaded_file" /\ ask' = ask /\ raw' = raw /\ body' = body /\ fields' = fields
      /\ \/ /\ IsEmpty(boundary) \/ first = npos
            /\ pc' = "done" /\ files' = files
         \/ /\ ~(IsEmpty(boundary) \/ first = npos)
            /\ pos' = first + Len(Marker(boundary)) /\ pc' = "parse_part" /\ files' = files
  BY DEF FindFirstBoundary, NoFileUploaded, Fail, Respond
<1>2. raw = TextOf(ask) /\ body = Inner(ps, ask.eol) /\ files = NoFields /\ fields = NoFields /\ ask \in Asks
  BY <1>1 DEF UploadInv, UploadSteps
<1>3. UploadAsked(ask)
  BY <1>2, AskedUploads
<1>4. boundary = IF ask.header \in TypeNames THEN Boundary ELSE <<>>
  BY <1>2, <1>3, UploadAskRead DEF UploadParsed
<1>5. PlainParts(ps) /\ IsLineEnd(ask.eol) /\ (ask.header \in TypeNames \/ ps = <<>>)
  BY <1>3 DEF UploadAsked
<1>6. Len(ps) \in Nat /\ (ps = <<>> => Len(ps) = 0)
  BY <1>5, SeqShape DEF PlainParts
<1>7. FiledTo(NoFields, NoFields, ps, 0)
  BY NothingFiled
<1>8. CASE ask.header \in TypeNames
  <2>1. boundary = Boundary
    BY <1>4, <1>8
  <2>2. first = 1 /\ Len(Marker(boundary)) = 4 /\ StartOf(ps, ask.eol, 0) = 1
    BY <1>2, <1>5, <2>1, FirstMarker
  <2>3. ~IsEmpty(boundary) /\ first # npos
    <3>1. Boundary # <<>>
      BY DEF Boundary
    <3>. QED
      BY <2>1, <2>2, <3>1 DEF IsEmpty, npos
  <2>. HIDE DEF boundary, first
  <2>4. pc' = "parse_part" /\ pos' = StartOf(ps, ask.eol, 0) + 4 /\ files' = files
    BY <1>1, <2>2, <2>3
  <2>5. \E k \in 0 .. Len(ps) : pos' = StartOf(ps, ask.eol, k) + 4 /\ FiledTo(files', fields', ps, k) /\ (k # Len(ps) \/ Len(ps) = 0)
    <3>1. 0 \in 0 .. Len(ps) /\ (0 # Len(ps) \/ Len(ps) = 0)
      BY <1>6
    <3>2. FiledTo(files', fields', ps, 0)
      BY <1>1, <1>2, <1>7, <2>4
    <3>. HIDE DEF ps
    <3>. QED
      BY <2>4, <3>1, <3>2
  <2>. QED
    BY <1>1, <1>2, <1>8, <2>4, <2>5 DEF UploadSteps, BeforeRound, PartsAsked, LineEndsMixed
<1>9. CASE ask.header \notin TypeNames
  <2>1. IsEmpty(boundary) /\ Len(ps) = 0
    BY <1>4, <1>5, <1>6, <1>9 DEF IsEmpty
  <2>. HIDE DEF boundary, first
  <2>2. pc' = "done" /\ files' = files
    BY <1>1, <2>1
  <2>. QED
    BY <1>1, <1>2, <1>7, <2>1, <2>2 DEF UploadSteps, BeforeRound, PartsAsked, LineEndsMixed
<1>. QED
  BY <1>8, <1>9

LEMMA UploadInvSteps ==
  ASSUME WellFormedUploads, UploadInv, [Next]_vars
  PROVE  UploadInv'
<1>1. CASE Compose
  <2>1. pc = "compose" /\ pc' = "handle_request" /\ raw' = TextOf(ask') /\ ask' \in Asks /\ files' = files /\ fields' = fields
    BY <1>1 DEF Compose
  <2>. QED
    BY <2>1 DEF UploadInv, UploadSteps
<1>2. CASE HandleRequest
  <2>1. pc = "handle_request" /\ ask' = ask /\ ask \in Asks /\ pc' # "compose"
    BY <1>2 DEF HandleRequest, UploadInv, Fail, Respond
  <2>. QED
    BY <1>2, <2>1, UploadRouted DEF UploadInv
<1>3. CASE FindFirstBoundary
  <2>1. pc = "extract_uploaded_file" /\ ask' = ask /\ ask \in Asks /\ pc' # "compose"
    BY <1>3 DEF FindFirstBoundary, NoFileUploaded, UploadInv, Fail, Respond
  <2>. QED
    BY <1>3, <2>1, UploadOpened DEF UploadInv
<1>4. CASE ParsePart
  <2>1. pc = "parse_part" /\ ask' = ask /\ ask \in Asks /\ pc' # "compose"
    BY <1>4 DEF ParsePart, UploadInv
  <2>. QED
    BY <1>4, <2>1, UploadRound DEF UploadInv
<1>5. CASE UploadFile
  <2>1. pc = "file_of_form" /\ ask' = ask /\ raw' = raw /\ body' = body /\ files' = files /\ fields' = fields /\ pc' = "done"
    BY <1>5 DEF UploadFile, Succeed, Fail, Respond
  <2>2. ask \in Asks
    BY <2>1 DEF UploadInv
  <2>. QED
    BY <2>1, <2>2 DEF UploadInv, UploadSteps, PartsAsked, LineEndsMixed
<1>6. CASE ParseForm \/ ShortenUrl \/ HandleStats \/ HandleQrCode
  <2>1. pc \in {"parse_form_data", "shorten_url", "handle_stats", "handle_qr_code"} /\ ask' = ask
    BY <1>6 DEF ParseForm, ShortenUrl, HandleStats, HandleQrCode
  <2>2. pc' # "compose"
    BY <1>6 DEF ParseForm, ShortenUrl, HandleStats, HandleQrCode, Succeed, Fail, Respond
  <2>. QED
    BY <2>1, <2>2 DEF UploadInv, UploadSteps
<1>7. CASE UNCHANGED vars
  BY <1>7 DEF vars, UploadInv, UploadSteps, BeforeRound, PartsAsked, LineEndsMixed
<1>. QED
  BY <1>1, <1>2, <1>3, <1>4, <1>5, <1>6, <1>7 DEF Next

LEMMA UploadHolds ==
  ASSUME WellFormedUploads, UploadInv
  PROVE  UploadAsSent
<1>. SUFFICES ASSUME ask.route = "upload", pc \in {"file_of_form", "done"}, ~LineEndsMixed(ask) PROVE UploadAsSent
  BY DEF UploadAsSent
<1>. DEFINE ps == ask.parts
            n == Len(ps)
            IsFile(p) == ~IsEmpty(p.filename)
            kept == {i \in DOMAIN ps : /\ ~IsEmpty(ps[i].name)
                                       /\ Len(ps[i].content) <= (IF IsFile(ps[i]) THEN MaxFile ELSE MaxField)}
            A == FilesOf(ps, n)
            B == FieldsIn(ps, n)
<1>1. ask \in Asks /\ FiledTo(files, fields, ps, n)
  BY DEF UploadInv, UploadSteps, PartsAsked
<1>2. DOMAIN ps = 1 .. n
  BY <1>1, AskedUploads, SeqShape DEF UploadAsked, PlainParts
<1>3. /\ DOMAIN files = {NamesOf(ps)[i] : i \in A}
      /\ \A i \in A : (\A j \in A : j > i => NamesOf(ps)[j] # NamesOf(ps)[i]) => files[NamesOf(ps)[i]] = FileValues(ps)[i]
      /\ DOMAIN fields = {NamesOf(ps)[i] : i \in B}
      /\ \A i \in B : (\A j \in B : j > i => NamesOf(ps)[j] # NamesOf(ps)[i]) => fields[NamesOf(ps)[i]] = FieldValues(ps)[i]
  BY <1>1 DEF FiledTo, Filed
<1>. HIDE DEF ps, n
<1>4. /\ A = {i \in kept : IsFile(ps[i])}
      /\ B = {i \in kept : ~IsFile(ps[i])}
      /\ A \subseteq DOMAIN ps /\ B \subseteq DOMAIN ps
  BY <1>2 DEF FilesOf, FieldsIn, KeptFile, KeptField, IsEmpty
<1>5. \A i \in DOMAIN ps : /\ NamesOf(ps)[i] = ps[i].name
                           /\ FileValues(ps)[i] = [filename |-> ps[i].filename, data |-> ps[i].content]
                           /\ FieldValues(ps)[i] = ps[i].content
  BY DEF NamesOf, FileValues, FieldValues
<1>. HIDE DEF A, B
<1>6. /\ \A i \in A : NamesOf(ps)[i] = ps[i].name
      /\ \A i \in B : NamesOf(ps)[i] = ps[i].name
  BY <1>4, <1>5
<1>7. DOMAIN files = {ps[i].name : i \in A} /\ DOMAIN fields = {ps[i].name : i \in B}
  <2>1. {NamesOf(ps)[i] : i \in A} = {ps[i].name : i \in A} /\ {NamesOf(ps)[i] : i \in B} = {ps[i].name : i \in B}
    BY <1>6
  <2>. QED
    BY <1>3, <2>1
<1>8. ASSUME NEW i \in A, \A j \in A : j > i => ps[j].name # ps[i].name
      PROVE  files[ps[i].name] = [filename |-> ps[i].filename, data |-> ps[i].content]
  <2>1. files[NamesOf(ps)[i]] = FileValues(ps)[i]
    <3>1. \A j \in A : j > i => NamesOf(ps)[j] # NamesOf(ps)[i]
      BY <1>6, <1>8, Zenon
    <3>. QED
      BY <1>3, <3>1, Zenon
  <2>. QED
    BY <1>4, <1>5, <1>6, <2>1
<1>9. ASSUME NEW i \in B, \A j \in B : j > i => ps[j].name # ps[i].name
      PROVE  fields[ps[i].name] = ps[i].content
  <2>1. fields[NamesOf(ps)[i]] = FieldValues(ps)[i]
    <3>1. \A j \in B : j > i => NamesOf(ps)[j] # NamesOf(ps)[i]
      BY <1>6, <1>9, Zenon
    <3>. QED
      BY <1>3, <3>1, Zenon
  <2>. QED
    BY <1>4, <1>5, <1>6, <2>1
<1>. DEFINE LastOf(i) == \A j \in kept : j > i => ps[j].name # ps[i].name \/ IsFile(ps[j]) # IsFile(ps[i])
<1>10. ASSUME NEW i \in kept, LastOf(i)
      PROVE  IF IsFile(ps[i]) THEN files[ps[i].name] = [filename |-> ps[i].filename, data |-> ps[i].content]
             ELSE fields[ps[i].name] = ps[i].content
  <2>. HIDE DEF kept
  <2>1. CASE IsFile(ps[i])
    <3>1. i \in A /\ \A j \in A : j > i => ps[j].name # ps[i].name
      BY <1>4, <1>10, <2>1
    <3>. QED
      BY <1>8, <2>1, <3>1
  <2>2. CASE ~IsFile(ps[i])
    <3>1. i \in B /\ \A j \in B : j > i => ps[j].name # ps[i].name
      BY <1>4, <1>10, <2>2
    <3>. QED
      BY <1>9, <2>2, <3>1
  <2>. QED
    BY <2>1, <2>2
<1>. QED
  BY <1>4, <1>7, <1>10 DEF UploadAsSent, ps

THEOREM UploadsAreReadAsSent ==
  ASSUME WellFormedUploads
  PROVE  Spec => []UploadAsSent
<1>1. Init => UploadInv
  BY DEF Init, UploadInv
<1>2. UploadInv /\ [Next]_vars => UploadInv'
  BY UploadInvSteps
<1>3. UploadInv => UploadAsSent
  BY UploadHolds
<1>. QED
  BY <1>1, <1>2, <1>3, PTL DEF Spec

=============================================================================
