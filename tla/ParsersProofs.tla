--------------------------- MODULE ParsersProofs ---------------------------
(***************************************************************************)
(* The parsers compute what they are meant to, for texts of any length and *)
(* any number of header fields.                                            *)
(***************************************************************************)
EXTENDS Parsers, SequenceTheorems, FiniteSetTheorems, WellFoundedInduction, TLAPS

-----------------------------------------------------------------------------
(* Texts                                                                   *)

\* A set of natural numbers has a least element.
LEMMA Least ==
    ASSUME NEW T \in SUBSET Nat, T # {}
    PROVE  /\ \E x \in T : \A y \in T : x <= y
           /\ Min(T) \in T /\ \A y \in T : Min(T) <= y
<1> DEFINE R == OpToRel(<, Nat)
<1>1. IsWellFoundedOn(R, Nat)
  BY NatLessThanWellFounded, Zenon
<1>2. \A x, y \in Nat : <<y, x>> \in R <=> y < x
  BY DEF OpToRel
<1> HIDE DEF R
<1>3. PICK x \in T : \A y \in T : ~(<<y, x>> \in R)
  BY <1>1, WFMin
<1>4. ASSUME NEW y \in T
      PROVE  x <= y
  <2>1. x \in Nat /\ y \in Nat
    OBVIOUS
  <2>2. ~(y < x)
    BY <1>2, <1>3, <2>1, Zenon
  <2> QED BY <2>1, <2>2
<1> QED BY <1>4 DEF Min

\* Scan finds the first character of stop, if there is one.
LEMMA ScanFirst ==
    ASSUME NEW S, NEW t \in Seq(S), NEW i \in Nat \ {0}, NEW stop
    PROVE  LET j == Scan(t, i, stop)
           IN  /\ j \in Nat
               /\ j = Len(t) + 1 \/ (j \in i .. Len(t) /\ t[j] \in stop)
               /\ \A h \in i .. Len(t) : h < j => t[h] \notin stop
<1>0. Len(t) \in Nat
  BY LenProperties
<1> DEFINE T == {j \in i .. Len(t) : t[j] \in stop} \cup {Len(t) + 1}
<1>1. T \in SUBSET Nat /\ T # {}
  BY <1>0
<1>2. Scan(t, i, stop) \in T /\ \A y \in T : Scan(t, i, stop) <= y
  BY <1>1, Least DEF Scan
<1>3. \A h \in i .. Len(t) : h < Scan(t, i, stop) => t[h] \notin stop
  BY <1>0, <1>1, <1>2
<1> QED BY <1>0, <1>2, <1>3

\* A part of a text.
LEMMA PartOf ==
    ASSUME NEW S, NEW t \in Seq(S), NEW a \in Nat \ {0}, NEW b \in Nat, b <= Len(t) + 1
    PROVE  /\ Part(t, a, b) \in Seq(S)
           /\ Len(Part(t, a, b)) = IF a < b THEN b - a ELSE 0
           /\ a < b => \A i \in 1 .. b - a : Part(t, a, b)[i] = t[a + i - 1]
<1>0. Len(t) \in Nat
  BY LenProperties
<1>1. CASE ~(a < b)
  <2>1. Part(t, a, b) = <<>> /\ Len(<<>>) = 0 /\ <<>> \in Seq(S)
    BY <1>1, EmptySeq DEF Part
  <2> QED BY <1>1, <2>1
<1>2. CASE a < b
  <2> DEFINE p == [i \in 1 .. b - a |-> At(t, a + i - 1)]
  <2>1. \A i \in 1 .. b - a : a + i - 1 \in 1 .. Len(t) /\ At(t, a + i - 1) = t[a + i - 1]
    BY <1>0, <1>2 DEF At
  <2>2. \A i \in 1 .. b - a : t[a + i - 1] \in S
    BY <2>1, ElementOfSeq
  <2>3. p \in [1 .. b - a -> S] /\ \A i \in 1 .. b - a : p[i] = t[a + i - 1]
    BY <2>1, <2>2
  <2>4. Part(t, a, b) = p
    BY <1>2 DEF Part
  <2> HIDE DEF p
  <2>5. b - a \in Nat
    BY <1>2
  <2>6. p \in Seq(S) /\ Len(p) = b - a
    BY <2>3, <2>5
  <2> QED BY <1>2, <2>3, <2>4, <2>6
<1> QED BY <1>1, <1>2

\* Its characters.
LEMMA PartChars ==
    ASSUME NEW S, NEW t \in Seq(S), NEW a \in Nat \ {0}, NEW b \in Nat, b <= Len(t) + 1
    PROVE  \A c : c \in Chars(Part(t, a, b)) <=> \E i \in a .. b - 1 : t[i] = c
<1> DEFINE p == Part(t, a, b)
           n == Len(p)
<1>1. /\ n = IF a < b THEN b - a ELSE 0
      /\ a < b => \A i \in 1 .. b - a : p[i] = t[a + i - 1]
  BY PartOf
<1>2. \A c : c \in Chars(p) <=> \E i \in 1 .. n : p[i] = c
  BY DEF Chars
<1> HIDE DEF p, n
<1>3. ASSUME NEW i \in 1 .. n
      PROVE  \E j \in a .. b - 1 : t[j] = p[i]
  <2>1. a < b /\ i \in 1 .. b - a
    BY <1>1
  <2>2. a + i - 1 \in a .. b - 1 /\ p[i] = t[a + i - 1]
    BY <1>1, <2>1
  <2> QED BY <2>2
<1>4. ASSUME NEW j \in a .. b - 1
      PROVE  \E i \in 1 .. n : p[i] = t[j]
  <2>1. a < b /\ j - a + 1 \in 1 .. b - a /\ a + (j - a + 1) - 1 = j
    OBVIOUS
  <2>2. j - a + 1 \in 1 .. n /\ p[j - a + 1] = t[j]
    BY <1>1, <2>1
  <2> QED BY <2>2
<1>5. \A c : c \in Chars(p) <=> \E i \in a .. b - 1 : t[i] = c
  BY <1>2, <1>3, <1>4
<1> QED BY <1>5 DEF p

\* Characters of a text, and its end.
LEMMA AtEnd ==
    ASSUME NEW S, "end" \notin S, NEW t \in Seq(S), NEW i \in Nat \ {0}
    PROVE  /\ i <= Len(t) => At(t, i) = t[i] /\ At(t, i) # "end" /\ t[i] \in S
           /\ i > Len(t) <=> At(t, i) = "end"
<1>0. Len(t) \in Nat
  BY LenProperties
<1>1. i <= Len(t) => t[i] \in S
  BY <1>0, ElementOfSeq
<1> QED BY <1>0, <1>1 DEF At

-----------------------------------------------------------------------------
(* The text                                                                *)

\* The text is one of its grammar.
TextOK == grammar \in DOMAIN Alphabet /\ text \in Seq(Alphabet[grammar])

\* A text stays in its grammar: AddChar takes characters of it only.
LEMMA TextInv == Spec => []TextOK
<1>1. Init => TextOK
  BY EmptySeq DEF Init, TextOK
<1>2. TextOK /\ [Next]_vars => TextOK'
  <2> SUFFICES ASSUME TextOK, [Next]_vars
               PROVE  TextOK'
    OBVIOUS
  <2>1. CASE AddChar
    <3>1. PICK c \in Alphabet[grammar] : text' = Append(text, c)
      BY <2>1 DEF AddChar
    <3>2. text' \in Seq(Alphabet[grammar])
      BY <3>1, AppendProperties DEF TextOK
    <3> QED BY <2>1, <3>2 DEF AddChar, TextOK
  <2>2. CASE AddField
    BY <2>2 DEF AddField, TextOK
  <2>3. CASE UNCHANGED vars
    BY <2>3 DEF vars, TextOK
  <2> QED BY <2>1, <2>2, <2>3 DEF Next
<1> QED BY <1>1, <1>2, PTL DEF Spec

\* Which characters a text has.
LEMMA Grammars ==
    ASSUME TextOK
    PROVE  /\ grammar = "uri" => text \in Seq(UriChars)
           /\ grammar = "request" => text \in Seq(RequestChars)
           /\ grammar = "list" => text \in Seq(ListChars)
           /\ grammar = "json" => text \in Seq(JsonChars)
  BY DEF TextOK, Alphabet

-----------------------------------------------------------------------------
(* The request line                                                        *)

\* The target of a request line, cut out at a and b.
LEMMA Target ==
    ASSUME NEW S, NEW t \in Seq(S), NEW a \in Nat \ {0}, NEW b \in Nat, a <= b,
           b <= Len(t) + 1
    PROVE  Part(t, a, b) = SubSeq(t, a, b - 1)
<1>0. Len(t) \in Nat
  BY LenProperties
<1> DEFINE p == Part(t, a, b)
           q == SubSeq(t, a, b - 1)
<1>1. /\ p \in Seq(S) /\ Len(p) = IF a < b THEN b - a ELSE 0
      /\ a < b => \A i \in 1 .. b - a : p[i] = t[a + i - 1]
  BY PartOf
<1>2. /\ q \in Seq(S) /\ Len(q) = IF a <= b - 1 THEN (b - 1) - a + 1 ELSE 0
      /\ \A i \in 1 .. Len(q) : q[i] = t[a + i - 1]
  <2>1. \A i \in a .. b - 1 : t[i] \in S
    BY <1>0, ElementOfSeq
  <2> QED BY <1>0, <2>1, SubSeqProperties
<1> HIDE DEF p, q
<1>3. Len(p) = Len(q) /\ Len(p) \in Nat /\ \A i \in 1 .. Len(p) : p[i] = q[i]
  BY <1>1, <1>2
<1>4. p = q
  BY <1>1, <1>2, <1>3, SeqEqual
<1> QED BY <1>4 DEF p, q

\* A request line that is cut at a and b, the blanks behind method and target.
RequestCut(t, a, b) ==
    /\ a \in 1 .. Len(t) /\ b \in a + 1 .. Len(t) /\ Len(t) = b + 1
    /\ \A i \in 1 .. a - 1 : t[i] \in UpperCase
    /\ t[a] = "blank" /\ t[b] = "blank" /\ t[b + 1] = "v"
    /\ \A i \in a + 1 .. b - 1 : t[i] # "blank"

Parts(t, a, b, r) == r.method = Part(t, 1, a) /\ r.target = Part(t, a + 1, b)

\* parse_request_line finds the cut, which is unique.
LEMMA RequestLine ==
    ASSUME NEW t \in Seq(RequestChars)
    PROVE  LET r == parse_request_line(t)
           IN  /\ r.ok => \E a, b \in Nat : RequestCut(t, a, b) /\ Parts(t, a, b, r)
               /\ \A a, b \in Nat : RequestCut(t, a, b) => r.ok /\ Parts(t, a, b, r)
<1>0. Len(t) \in Nat /\ "end" \notin RequestChars /\ (t = <<>> <=> Len(t) = 0)
      /\ "blank" \notin UpperCase
  BY LenProperties, EmptySeq DEF RequestChars, UpperCase
<1> DEFINE T == {j \in 1 .. Len(t) : t[j] \notin UpperCase} \cup {Len(t) + 1}
           a == Min(T)
           b == Scan(t, a + 1, {"blank"})
           r == parse_request_line(t)
<1>1. a \in T /\ \A y \in T : a <= y
  <2>1. T \in SUBSET Nat /\ T # {}
    BY <1>0
  <2> QED BY <2>1, Least
<1>2. /\ a \in Nat \ {0} /\ a <= Len(t) + 1 /\ \A i \in 1 .. a - 1 : t[i] \in UpperCase
      /\ a <= Len(t) => t[a] \notin UpperCase
  <2>1. a \in Nat \ {0} /\ a <= Len(t) + 1 /\ (a <= Len(t) => t[a] \notin UpperCase)
    BY <1>0, <1>1
  <2>2. ASSUME NEW i \in 1 .. a - 1
        PROVE  t[i] \in UpperCase
    <3>1. i \in 1 .. Len(t) /\ ~(a <= i)
      BY <1>0, <2>1
    <3>2. i \notin T
      BY <1>1, <3>1
    <3> QED BY <3>1, <3>2
  <2> QED BY <2>1, <2>2
<1>3. IF \/ t = <<>> \/ At(t, a) # "blank" \/ At(t, b) # "blank"
         \/ Len(t) # b + 1 \/ At(t, b + 1) # "v"
      THEN r = [ok |-> FALSE]
      ELSE r = [ok |-> TRUE, method |-> Part(t, 1, a), target |-> Part(t, a + 1, b)]
  BY DEF parse_request_line
<1> HIDE DEF a, r
<1>4. /\ b \in Nat
      /\ b = Len(t) + 1 \/ (b \in a + 1 .. Len(t) /\ t[b] = "blank")
      /\ \A h \in a + 1 .. Len(t) : h < b => t[h] # "blank"
  <2>1. a + 1 \in Nat \ {0}
    BY <1>2
  <2> QED BY <2>1, ScanFirst
<1> HIDE DEF b
<1>5. ASSUME r.ok
      PROVE  RequestCut(t, a, b) /\ Parts(t, a, b, r)
  <2>1. /\ At(t, a) = "blank" /\ At(t, b) = "blank" /\ Len(t) = b + 1 /\ At(t, b + 1) = "v"
        /\ Parts(t, a, b, r)
    BY <1>3, <1>5 DEF Parts
  <2>2. a <= Len(t) /\ t[a] = "blank"
    BY <1>0, <1>2, <2>1, AtEnd
  <2>3. b <= Len(t) /\ b \in a + 1 .. Len(t) /\ t[b] = "blank" /\ At(t, b + 1) = t[b + 1]
    BY <1>0, <1>4, <2>1, AtEnd
  <2> QED BY <1>0, <1>2, <1>4, <2>1, <2>2, <2>3 DEF RequestCut
<1>6. ASSUME NEW x \in Nat, NEW y \in Nat, RequestCut(t, x, y)
      PROVE  r.ok /\ Parts(t, x, y, r)
  <2>1. a = x
    <3>1. x \in T
      BY <1>0, <1>6 DEF RequestCut
    <3>2. a <= x
      BY <1>1, <3>1
    <3>3. ~(a < x)
      BY <1>0, <1>2, <1>6 DEF RequestCut
    <3> QED BY <1>2, <3>2, <3>3
  <2>2. b = y
    BY <1>0, <1>4, <1>6, <2>1 DEF RequestCut
  <2>3. /\ t # <<>> /\ At(t, a) = "blank" /\ At(t, b) = "blank"
        /\ Len(t) = b + 1 /\ At(t, b + 1) = "v"
    BY <1>0, <1>6, <2>1, <2>2 DEF RequestCut, At
  <2> QED BY <1>3, <2>1, <2>2, <2>3 DEF Parts
<1>7. a \in Nat /\ b \in Nat
  BY <1>2, <1>4
<1> QED BY <1>5, <1>6, <1>7 DEF r

\* What RequestLineParsed says of m and n, the lengths of method and target.
Describes(t, m, n) ==
    /\ Len(t) = m + n + 3
    /\ \A i \in 1 .. m : t[i] \in UpperCase
    /\ m = 3 => t[1] = "G" /\ t[2] = "E" /\ t[3] = "T"
    /\ t[m + 1] = "blank" /\ t[m + n + 2] = "blank"
    /\ t[m + n + 3] = "v"
    /\ "blank" \notin Chars(SubSeq(t, m + 2, m + n + 1))
    /\ SubSeq(t, m + 2, m + n + 1) \notin {<<>>, <<"star">>}

\* A method of three letters.
LEMMA ThreeLetters ==
    ASSUME NEW S, NEW t \in Seq(S), 3 <= Len(t)
    PROVE  Part(t, 1, 4) = <<"G", "E", "T">> <=> t[1] = "G" /\ t[2] = "E" /\ t[3] = "T"
<1>0. Len(t) \in Nat
  BY LenProperties
<1> DEFINE f == [i \in 1 .. 3 |-> At(t, 1 + i - 1)]
<1>1. Part(t, 1, 4) = f
  BY DEF Part
<1>2. At(t, 1) = t[1] /\ At(t, 2) = t[2] /\ At(t, 3) = t[3]
  BY <1>0 DEF At
<1>3. f[1] = t[1] /\ f[2] = t[2] /\ f[3] = t[3]
      /\ \A y : y = f <=> (/\ y = [x \in 1 .. 3 |-> y[x]]
                           /\ y[1] = f[1] /\ y[2] = f[2] /\ y[3] = f[3])
  BY <1>2
<1> HIDE DEF f
<1>4. f = <<"G", "E", "T">> <=> f[1] = "G" /\ f[2] = "E" /\ f[3] = "T"
  BY <1>3
<1> QED BY <1>1, <1>3, <1>4

\* These lengths are a cut whose method and target are valid ones.
LEMMA DescribesCut ==
    ASSUME NEW t \in Seq(RequestChars), NEW m \in Nat, NEW n \in Nat
    PROVE  Describes(t, m, n) <=> /\ RequestCut(t, m + 1, m + n + 2)
                                  /\ m = 3 => Part(t, 1, m + 1) = <<"G", "E", "T">>
                                  /\ Part(t, m + 2, m + n + 2) \notin {<<>>, <<"star">>}
<1>0. Len(t) \in Nat
  BY LenProperties
<1>1. CASE Len(t) # m + n + 3
  BY <1>0, <1>1 DEF Describes, RequestCut
<1>2. CASE Len(t) = m + n + 3
  <2> DEFINE a == m + 2
             b == m + n + 2
  <2>1. a \in Nat \ {0} /\ b \in Nat /\ a <= b /\ b <= Len(t) + 1 /\ b - 1 = m + n + 1
    BY <1>2
  <2> HIDE DEF a, b
  <2>2. Part(t, a, b) = SubSeq(t, a, b - 1)
    BY <2>1, Target
  <2>3. \A c : c \in Chars(Part(t, a, b)) <=> \E i \in a .. b - 1 : t[i] = c
    BY <2>1, PartChars
  <2>4. a = m + 2 /\ b = m + n + 2
    BY DEF a, b
  <2>5. SubSeq(t, m + 2, m + n + 1) = Part(t, m + 2, m + n + 2)
    BY <2>1, <2>2, <2>4
  <2>6. "blank" \notin Chars(SubSeq(t, m + 2, m + n + 1))
        <=> \A i \in m + 2 .. m + n + 1 : t[i] # "blank"
    <3>1. a .. b - 1 = m + 2 .. m + n + 1
      BY <2>1, <2>4
    <3>2. Chars(Part(t, a, b)) = Chars(SubSeq(t, m + 2, m + n + 1))
      BY <2>4, <2>5
    <3> QED BY <2>3, <3>1, <3>2
  <2>7. RequestCut(t, m + 1, m + n + 2)
        <=> /\ \A i \in 1 .. m : t[i] \in UpperCase
            /\ t[m + 1] = "blank" /\ t[m + n + 2] = "blank"
            /\ t[m + n + 3] = "v"
            /\ \A i \in m + 2 .. m + n + 1 : t[i] # "blank"
    <3>1. /\ m + 1 \in 1 .. Len(t) /\ m + n + 2 \in (m + 1) + 1 .. Len(t)
          /\ Len(t) = (m + n + 2) + 1 /\ (m + 1) - 1 = m /\ (m + 1) + 1 = m + 2
          /\ (m + n + 2) - 1 = m + n + 1 /\ (m + n + 2) + 1 = m + n + 3
      BY <1>2
    <3> QED BY <3>1 DEF RequestCut
  <2>8. m = 3 => (Part(t, 1, m + 1) = <<"G", "E", "T">>
                  <=> t[1] = "G" /\ t[2] = "E" /\ t[3] = "T")
    BY <1>2, ThreeLetters
  <2> QED BY <1>2, <2>5, <2>6, <2>7, <2>8 DEF Describes
<1> QED BY <1>1, <1>2

\* RequestLineParsed holds of every text.
LEMMA RequestParsed == TextOK => RequestLineParsed
<1> SUFFICES ASSUME TextOK, grammar = "request"
             PROVE  LET r == parse_request_line(text)
                    IN  (r.ok /\ is_valid_req_line(r)) <=>
                           \E m, n \in 0 .. Len(text) : Describes(text, m, n)
  BY DEF RequestLineParsed, Describes
<1>0. text \in Seq(RequestChars) /\ Len(text) \in Nat
  BY Grammars, LenProperties
<1> DEFINE r == parse_request_line(text)
<1>1. /\ r.ok => \E a, b \in Nat : RequestCut(text, a, b) /\ Parts(text, a, b, r)
      /\ \A a, b \in Nat : RequestCut(text, a, b) => r.ok /\ Parts(text, a, b, r)
  BY <1>0, RequestLine
<1> HIDE DEF r
<1>5. ASSUME NEW a \in Nat, NEW b \in Nat, RequestCut(text, a, b), Parts(text, a, b, r)
      PROVE  Len(r.method) = a - 1
  <2>1. 1 \in Nat \ {0} /\ a <= Len(text) + 1 /\ a >= 1
    BY <1>0, <1>5 DEF RequestCut
  <2>2. Len(Part(text, 1, a)) = IF 1 < a THEN a - 1 ELSE 0
    BY <1>0, <2>1, PartOf
  <2> QED BY <1>5, <2>1, <2>2 DEF Parts
<1>2. ASSUME r.ok, is_valid_req_line(r)
      PROVE  \E m, n \in 0 .. Len(text) : Describes(text, m, n)
  <2>1. PICK a, b \in Nat : RequestCut(text, a, b) /\ Parts(text, a, b, r)
    BY <1>1, <1>2
  <2> DEFINE m == a - 1
             n == b - a - 1
  <2>2. /\ m \in 0 .. Len(text) /\ n \in 0 .. Len(text)
        /\ m + 1 = a /\ m + n + 2 = b /\ m + 2 = a + 1
    BY <1>0, <2>1 DEF RequestCut
  <2> HIDE DEF m, n
  <2>3. m \in Nat /\ n \in Nat
    BY <1>0, <2>2
  <2>4. Describes(text, m, n)
    <3>1. Len(r.method) = m
      BY <1>5, <2>1, <2>2
    <3>2. m = 3 => Part(text, 1, m + 1) = <<"G", "E", "T">>
      BY <1>2, <2>1, <2>2, <3>1 DEF is_valid_req_line, Parts
    <3>3. Part(text, m + 2, m + n + 2) \notin {<<>>, <<"star">>}
      BY <1>2, <2>1, <2>2 DEF is_valid_req_line, Parts
    <3> QED BY <1>0, <2>1, <2>2, <2>3, <3>2, <3>3, DescribesCut
  <2> QED BY <2>2, <2>4
<1>3. ASSUME NEW m \in 0 .. Len(text), NEW n \in 0 .. Len(text), Describes(text, m, n)
      PROVE  r.ok /\ is_valid_req_line(r)
  <2>1. m \in Nat /\ n \in Nat /\ m + 1 \in Nat /\ m + n + 2 \in Nat /\ (m + 1) + 1 = m + 2
    BY <1>0
  <2>2. /\ RequestCut(text, m + 1, m + n + 2)
        /\ m = 3 => Part(text, 1, m + 1) = <<"G", "E", "T">>
        /\ Part(text, m + 2, m + n + 2) \notin {<<>>, <<"star">>}
    BY <1>0, <1>3, <2>1, DescribesCut
  <2>3. r.ok /\ Parts(text, m + 1, m + n + 2, r)
    BY <1>1, <2>1, <2>2
  <2>4. Len(r.method) = m
    <3>1. Len(r.method) = (m + 1) - 1
      BY <1>5, <2>1, <2>2, <2>3
    <3> QED BY <2>1, <3>1
  <2> QED BY <2>1, <2>2, <2>3, <2>4 DEF is_valid_req_line, Parts
<1> QED BY <1>2, <1>3 DEF r

-----------------------------------------------------------------------------
(* parse_uri                                                               *)

\* The path of a URI begins at k.
PathAt(t, k) == k <= Len(t) => t[k] = "slash" /\ At(t, k + 1) # "slash"

\* uri_path cuts off the fragment.
LEMMA PathFound ==
    ASSUME NEW t \in Seq(UriChars), NEW k \in Nat \ {0}, k <= Len(t) + 1,
           NEW s, NEW h, NEW p
    PROVE  uri_path(t, k, s, h, p) =
              IF PathAt(t, k) THEN Uri(s, h, p, UriPath(t, k)) ELSE NoUri
<1>0. Len(t) \in Nat /\ "end" \notin UriChars
  BY LenProperties DEF UriChars
<1>1. CASE k = Len(t) + 1
  <2>1. At(t, k) = "end" /\ PathAt(t, k)
    BY <1>0, <1>1 DEF At, PathAt
  <2>2. UriPath(t, k) = <<"slash">>
    BY <1>1 DEF UriPath
  <2>3. uri_path(t, k, s, h, p) = Uri(s, h, p, <<"slash">>)
    BY <2>1 DEF uri_path
  <2> QED BY <2>1, <2>2, <2>3
<1>2. CASE k <= Len(t)
  <2>1. At(t, k) = t[k] /\ At(t, k) # "end" /\ k # Len(t) + 1
    BY <1>0, <1>2, AtEnd
  <2> DEFINE f == Scan(t, k, {"hash"})
             N == {m \in k .. Len(t) : "hash" \notin Chars(Part(t, k, m + 1))}
  <2>2. /\ f \in Nat
        /\ f = Len(t) + 1 \/ (f \in k .. Len(t) /\ t[f] = "hash")
        /\ \A x \in k .. Len(t) : x < f => t[x] # "hash"
    BY ScanFirst
  <2> HIDE DEF f
  <2>3. N = k .. f - 1
    <3>1. ASSUME NEW m \in k .. Len(t)
          PROVE  "hash" \notin Chars(Part(t, k, m + 1)) <=> m <= f - 1
      <4>1. m + 1 \in Nat /\ m + 1 <= Len(t) + 1 /\ (m + 1) - 1 = m
        BY <1>0
      <4>2. \A c : c \in Chars(Part(t, k, m + 1)) <=> \E i \in k .. (m + 1) - 1 : t[i] = c
        BY <4>1, PartChars
      <4>3. "hash" \in Chars(Part(t, k, m + 1)) <=> \E i \in k .. m : t[i] = "hash"
        BY <4>1, <4>2
      <4>4. (\E i \in k .. m : t[i] = "hash") <=> f <= m
        BY <1>0, <2>2
      <4>5. f <= m <=> ~(m <= f - 1)
        BY <1>0, <2>2
      <4> QED BY <4>3, <4>4, <4>5
    <3> QED BY <1>0, <2>2, <3>1
  <2>4. Cardinality(N) = f - k
    <3>1. k \in Int /\ f - 1 \in Int /\ f >= k
      BY <1>0, <1>2, <2>2
    <3>2. Cardinality(k .. f - 1) = IF k > f - 1 THEN 0 ELSE f - 1 - k + 1
      BY <3>1, FS_Interval
    <3>3. (IF k > f - 1 THEN 0 ELSE f - 1 - k + 1) = f - k
      BY <2>2, <3>1
    <3> QED BY <2>3, <3>2, <3>3
  <2>5. UriPath(t, k) = Part(t, k, f)
    <3>1. k + (f - k) = f
      BY <2>2
    <3>2. UriPath(t, k) = Part(t, k, k + Cardinality(N))
      BY <2>1 DEF UriPath
    <3> QED BY <2>4, <3>1, <3>2
  <2>6. PathAt(t, k) <=> ~(At(t, k) # "slash" \/ At(t, k + 1) = "slash")
    BY <1>2, <2>1 DEF PathAt
  <2> QED BY <2>1, <2>5, <2>6 DEF uri_path, f
<1> QED BY <1>0, <1>1, <1>2

\* Scheme, host and port end at i, j and k.
Cut(t, i, j, k) ==
    /\ i \in 2 .. Len(t) /\ i + 2 <= Len(t)
    /\ \A x \in 1 .. i - 1 : t[x] # "colon"
    /\ t[i] = "colon" /\ t[i + 1] = "slash" /\ t[i + 2] = "slash"
    /\ j \in i + 4 .. Len(t) + 1 /\ k \in j .. Len(t) + 1
    /\ \A x \in i + 3 .. j - 1 : t[x] # "colon" /\ t[x] # "slash"
    /\ \/ k = j
       \/ k > j + 1 /\ t[j] = "colon" /\ \A x \in j + 1 .. k - 1 : t[x] # "slash"
    /\ PathAt(t, k)

\* A part of three characters.
LEMMA ThreeChars ==
    ASSUME NEW t, NEW i \in Nat
    PROVE  Part(t, i, i + 3) = <<"colon", "slash", "slash">>
           <=> At(t, i) = "colon" /\ At(t, i + 1) = "slash" /\ At(t, i + 2) = "slash"
<1>1. i < i + 3 /\ (i + 3) - i = 3
  OBVIOUS
<1>2. Part(t, i, i + 3) = [x \in 1 .. 3 |-> At(t, i + x - 1)]
  BY <1>1 DEF Part
<1>3. i + 1 - 1 = i /\ i + 2 - 1 = i + 1 /\ i + 3 - 1 = i + 2
  OBVIOUS
<1> DEFINE f == [x \in 1 .. 3 |-> At(t, i + x - 1)]
<1>4. f[1] = At(t, i) /\ f[2] = At(t, i + 1) /\ f[3] = At(t, i + 2)
      /\ \A y : y = f <=> (/\ y = [x \in 1 .. 3 |-> y[x]]
                           /\ y[1] = f[1] /\ y[2] = f[2] /\ y[3] = f[3])
  BY <1>3
<1> HIDE DEF f
<1>5. f = <<"colon", "slash", "slash">> <=> f[1] = "colon" /\ f[2] = "slash" /\ f[3] = "slash"
  BY <1>4
<1> QED BY <1>2, <1>4, <1>5 DEF f

\* Neither host nor port has a character that ends them and is not seen.
Ended(t, i, j, k) ==
    /\ \A x \in i + 3 .. j - 1 : t[x] # "query" /\ t[x] # "hash"
    /\ \A x \in j + 1 .. k - 1 : t[x] # "query" /\ t[x] # "hash"

\* Of such cuts SchemeEnds and UriCut speak.
LEMMA CutIs ==
    ASSUME NEW t \in Seq(UriChars), NEW i \in Nat, NEW j \in Nat, NEW k \in Nat
    PROVE  Cut(t, i, j, k) /\ Ended(t, i, j, k)
           <=> /\ i \in SchemeEnds(t) /\ j \in 1 .. Len(t) + 1
               /\ k \in 1 .. Len(t) + 1 /\ UriCut(t, i, j, k)
<1>0. Len(t) \in Nat /\ "end" \notin UriChars
  BY LenProperties DEF UriChars
<1>1. i \in SchemeEnds(t)
      <=> /\ i \in 2 .. Len(t) /\ i + 2 <= Len(t)
          /\ \A x \in 1 .. i - 1 : t[x] # "colon"
          /\ t[i] = "colon" /\ t[i + 1] = "slash" /\ t[i + 2] = "slash"
  <2>1. CASE i \in 2 .. Len(t)
    <3>1. \A c : c \in Chars(Part(t, 1, i)) <=> \E x \in 1 .. i - 1 : t[x] = c
      <4>1. 1 \in Nat \ {0} /\ i <= Len(t) + 1
        BY <1>0, <2>1
      <4> QED BY <4>1, PartChars
    <3>2. /\ At(t, i) = t[i]
          /\ i + 1 <= Len(t) => At(t, i + 1) = t[i + 1]
          /\ i + 2 <= Len(t) => At(t, i + 2) = t[i + 2]
          /\ ~(i + 2 <= Len(t)) => At(t, i + 2) = "end"
      BY <1>0, <2>1 DEF At
    <3>3. i + 2 <= Len(t) => i + 1 <= Len(t)
      BY <1>0
    <3> QED BY <2>1, <3>1, <3>2, <3>3, ThreeChars DEF SchemeEnds
  <2>2. CASE i \notin 2 .. Len(t)
    BY <2>2 DEF SchemeEnds
  <2> QED BY <2>1, <2>2
<1>2. ASSUME i \in 2 .. Len(t), j \in 1 .. Len(t) + 1, k \in 1 .. Len(t) + 1
      PROVE  UriCut(t, i, j, k)
             <=> /\ j >= i + 4 /\ k >= j
                 /\ \A x \in i + 3 .. j - 1 : t[x] # "colon" /\ t[x] # "slash"
                 /\ \/ k = j
                    \/ k > j + 1 /\ t[j] = "colon" /\ \A x \in j + 1 .. k - 1 : t[x] # "slash"
                 /\ PathAt(t, k)
                 /\ Ended(t, i, j, k)
  <2>1. \A c : c \in Chars(Part(t, i + 3, j)) <=> \E x \in i + 3 .. j - 1 : t[x] = c
    <3>1. i + 3 \in Nat \ {0} /\ j <= Len(t) + 1
      BY <1>0, <1>2
    <3> QED BY <3>1, PartChars
  <2>2. \A c : c \in Chars(Part(t, j + 1, k)) <=> \E x \in j + 1 .. k - 1 : t[x] = c
    <3>1. j + 1 \in Nat \ {0} /\ k <= Len(t) + 1
      BY <1>0, <1>2
    <3> QED BY <3>1, PartChars
  <2>3. Chars(Part(t, i + 3, j)) \cap {"colon", "slash", "query", "hash"} = {}
        <=> \A x \in i + 3 .. j - 1 : /\ t[x] # "colon" /\ t[x] # "slash"
                                      /\ t[x] # "query" /\ t[x] # "hash"
    BY <2>1
  <2>4. Chars(Part(t, j + 1, k)) \cap {"slash", "query", "hash"} = {}
        <=> \A x \in j + 1 .. k - 1 : t[x] # "slash" /\ t[x] # "query" /\ t[x] # "hash"
    BY <2>2
  <2>5. /\ j > i + 3 <=> j >= i + 4
        /\ k = j \/ k > j + 1 => k >= j
        /\ k = j => j + 1 .. k - 1 = {}
    BY <1>2
  <2> QED BY <2>3, <2>4, <2>5 DEF UriCut, PathAt, Ended
<1>3. Cut(t, i, j, k) => j \in 1 .. Len(t) + 1 /\ k \in 1 .. Len(t) + 1
  BY <1>0 DEF Cut
<1>4. ASSUME j \in 1 .. Len(t) + 1, k \in 1 .. Len(t) + 1
      PROVE  /\ j \in i + 4 .. Len(t) + 1 <=> j >= i + 4
             /\ k \in j .. Len(t) + 1 <=> k >= j
  BY <1>0, <1>4
<1> QED BY <1>1, <1>2, <1>3, <1>4 DEF Cut

\* parse_uri finds a cut, if there is one, and there is only one.
LEMMA UriFound ==
    ASSUME NEW t \in Seq(UriChars)
    PROVE  LET r == parse_uri(t)
           IN  /\ r.ok => \E i, j, k \in Nat : Cut(t, i, j, k)
               /\ \A i, j, k \in Nat : Cut(t, i, j, k) =>
                     r = Uri(Part(t, 1, i), Part(t, i + 3, j), Part(t, j + 1, k), UriPath(t, k))
<1>0. Len(t) \in Nat /\ "end" \notin UriChars /\ NoUri.ok = FALSE
  BY LenProperties DEF UriChars, NoUri
<1> DEFINE a == Scan(t, 1, {"colon"})
           b == Scan(t, a + 3, {"colon", "slash"})
           c == Scan(t, b + 1, {"slash"})
           r == parse_uri(t)
           Bad == \/ At(t, a) = "end" \/ a = 1
                  \/ At(t, a + 1) # "slash" \/ At(t, a + 2) # "slash"
                  \/ b = a + 3
<1>1. r = IF Bad THEN NoUri
          ELSE IF At(t, b) = "colon"
          THEN IF c = b + 1 THEN NoUri
               ELSE uri_path(t, c, Part(t, 1, a), Part(t, a + 3, b), Part(t, b + 1, c))
          ELSE uri_path(t, b, Part(t, 1, a), Part(t, a + 3, b), <<>>)
  BY DEF parse_uri
<1> HIDE DEF r
<1>2. /\ a \in Nat
      /\ a = Len(t) + 1 \/ (a \in 1 .. Len(t) /\ t[a] = "colon")
      /\ \A h \in 1 .. Len(t) : h < a => t[h] # "colon"
  <2>1. 1 \in Nat \ {0}
    OBVIOUS
  <2> QED BY <2>1, ScanFirst
<1> HIDE DEF a
<1>3. /\ b \in Nat
      /\ b = Len(t) + 1 \/ (b \in a + 3 .. Len(t) /\ t[b] \in {"colon", "slash"})
      /\ \A h \in a + 3 .. Len(t) : h < b => t[h] \notin {"colon", "slash"}
  <2>1. a + 3 \in Nat \ {0}
    BY <1>2
  <2> QED BY <2>1, ScanFirst
<1> HIDE DEF b
<1>4. /\ c \in Nat
      /\ c = Len(t) + 1 \/ (c \in b + 1 .. Len(t) /\ t[c] = "slash")
      /\ \A h \in b + 1 .. Len(t) : h < c => t[h] # "slash"
  <2>1. b + 1 \in Nat \ {0}
    BY <1>3
  <2> QED BY <2>1, ScanFirst
<1> HIDE DEF c
<1>5. ~Bad <=> /\ a \in 2 .. Len(t) /\ a + 2 <= Len(t)
               /\ t[a + 1] = "slash" /\ t[a + 2] = "slash" /\ b >= a + 4
  <2>1. /\ a # 0 => (At(t, a) = "end" <=> a > Len(t))
        /\ a # 0
    BY <1>0, <1>2, AtEnd
  <2>2. /\ At(t, a + 1) = IF a + 1 <= Len(t) THEN t[a + 1] ELSE "end"
        /\ At(t, a + 2) = IF a + 2 <= Len(t) THEN t[a + 2] ELSE "end"
    BY DEF At
  <2>3. a + 2 <= Len(t) => (b # a + 3 <=> b >= a + 4) /\ a + 1 <= Len(t) /\ a <= Len(t)
    BY <1>0, <1>2, <1>3
  <2>4. ~(a > Len(t)) /\ a # 1 <=> a \in 2 .. Len(t)
    BY <1>0, <1>2, <2>1
  <2> QED BY <2>1, <2>2, <2>3, <2>4
<1> HIDE DEF Bad
<1>6. ASSUME ~Bad, NEW k \in Nat, k <= Len(t) + 1, PathAt(t, k),
             \/ k = b /\ At(t, b) # "colon"
             \/ k = c /\ c # b + 1 /\ At(t, b) = "colon"
      PROVE  Cut(t, a, b, k)
  <2>1. a \in 2 .. Len(t) /\ a + 2 <= Len(t) /\ t[a + 1] = "slash" /\ t[a + 2] = "slash"
        /\ t[a] = "colon" /\ b \in a + 4 .. Len(t) + 1
    BY <1>0, <1>2, <1>3, <1>5, <1>6
  <2>2. /\ \A x \in 1 .. a - 1 : t[x] # "colon"
        /\ \A x \in a + 3 .. b - 1 : t[x] # "colon" /\ t[x] # "slash"
    BY <1>0, <1>2, <1>3, <2>1
  <2>3. CASE k = b
    BY <1>0, <1>3, <1>6, <2>1, <2>2, <2>3 DEF Cut
  <2>4. CASE k = c /\ c # b + 1 /\ At(t, b) = "colon"
    <3>1. b <= Len(t) /\ t[b] = "colon"
      BY <1>0, <1>3, <2>1, <2>4, AtEnd
    <3>2. c > b + 1 /\ c \in b .. Len(t) + 1 /\ \A x \in b + 1 .. c - 1 : t[x] # "slash"
      BY <1>0, <1>3, <1>4, <2>4, <3>1
    <3> QED BY <1>6, <2>1, <2>2, <2>4, <3>1, <3>2 DEF Cut
  <2> QED BY <1>6, <2>3, <2>4
<1>7. b <= Len(t) + 1 /\ c <= Len(t) + 1 /\ (~Bad => b \in Nat \ {0} /\ c \in Nat \ {0})
  BY <1>0, <1>2, <1>3, <1>4, <1>5
<1>8. ASSUME r.ok
      PROVE  \E i, j, k \in Nat : Cut(t, i, j, k)
  <2>1. ~Bad
    BY <1>0, <1>1, <1>8
  <2>2. CASE At(t, b) = "colon"
    <3>1. c # b + 1
      BY <1>0, <1>1, <1>8, <2>1, <2>2
    <3>2. r = uri_path(t, c, Part(t, 1, a), Part(t, a + 3, b), Part(t, b + 1, c))
      BY <1>1, <2>1, <2>2, <3>1
    <3>3. PathAt(t, c)
      BY <1>0, <1>7, <1>8, <2>1, <3>2, PathFound
    <3>4. Cut(t, a, b, c)
      BY <1>4, <1>6, <1>7, <2>1, <2>2, <3>1, <3>3
    <3> QED BY <1>2, <1>3, <1>4, <3>4
  <2>3. CASE At(t, b) # "colon"
    <3>1. r = uri_path(t, b, Part(t, 1, a), Part(t, a + 3, b), <<>>)
      BY <1>1, <2>1, <2>3
    <3>2. PathAt(t, b)
      BY <1>0, <1>7, <1>8, <2>1, <3>1, PathFound
    <3>3. Cut(t, a, b, b)
      BY <1>3, <1>6, <1>7, <2>1, <2>3, <3>2
    <3> QED BY <1>2, <1>3, <3>3
  <2> QED BY <2>2, <2>3
<1>9. ASSUME NEW i \in Nat, NEW j \in Nat, NEW k \in Nat, Cut(t, i, j, k)
      PROVE  r = Uri(Part(t, 1, i), Part(t, i + 3, j), Part(t, j + 1, k), UriPath(t, k))
  <2>1. a = i
    <3>1. ~(i < a) /\ ~(a < i)
      BY <1>0, <1>2, <1>9 DEF Cut
    <3> QED BY <1>2, <3>1
  <2>2. j = Len(t) + 1 \/ (j <= Len(t) /\ t[j] \in {"colon", "slash"})
    BY <1>0, <1>9 DEF Cut, PathAt
  <2>3. b = j
    <3>1. ~(j < b) /\ ~(b < j)
      BY <1>0, <1>3, <1>9, <2>1, <2>2 DEF Cut
    <3> QED BY <1>3, <3>1
  <2>4. ~Bad
    BY <1>5, <1>9, <2>1, <2>3 DEF Cut
  <2>5. k \in Nat \ {0} /\ k <= Len(t) + 1 /\ PathAt(t, k)
    BY <1>0, <1>9 DEF Cut
  <2>6. CASE k = j
    <3>1. At(t, b) # "colon"
      BY <1>0, <2>2, <2>3, <2>5, <2>6 DEF PathAt, At
    <3>2. r = uri_path(t, b, Part(t, 1, a), Part(t, a + 3, b), <<>>)
      BY <1>1, <2>4, <3>1
    <3>3. Part(t, j + 1, k) = <<>>
      BY <2>6 DEF Part
    <3> QED BY <2>1, <2>3, <2>5, <2>6, <3>2, <3>3, PathFound
  <2>7. CASE k > j + 1
    <3>1. j <= Len(t) /\ t[j] = "colon" /\ \A x \in j + 1 .. k - 1 : t[x] # "slash"
      BY <1>0, <1>9, <2>7 DEF Cut
    <3>2. At(t, b) = "colon"
      BY <2>3, <3>1 DEF At
    <3>3. c = k
      <4>1. k = Len(t) + 1 \/ (k <= Len(t) /\ t[k] = "slash")
        BY <1>0, <2>5 DEF PathAt
      <4>2. ~(k < c) /\ ~(c < k)
        BY <1>0, <1>4, <2>3, <2>5, <2>7, <3>1, <4>1
      <4> QED BY <1>4, <4>2
    <3>4. c # b + 1
      BY <2>3, <2>7, <3>3
    <3>5. r = uri_path(t, c, Part(t, 1, a), Part(t, a + 3, b), Part(t, b + 1, c))
      BY <1>1, <2>4, <3>2, <3>4
    <3> QED BY <2>1, <2>3, <2>5, <3>3, <3>5, PathFound
  <2> QED BY <1>9, <2>6, <2>7 DEF Cut
<1> QED BY <1>8, <1>9 DEF r

\* Which of them Unended finds in the parts.
LEMMA EndedIs ==
    ASSUME NEW t \in Seq(UriChars), NEW i \in Nat, NEW j \in Nat, NEW k \in Nat,
           Cut(t, i, j, k), NEW r, r.host = Part(t, i + 3, j), r.port = Part(t, j + 1, k)
    PROVE  Unended(r) <=> ~Ended(t, i, j, k)
<1>1. /\ i + 3 \in Nat \ {0} /\ j + 1 \in Nat \ {0}
      /\ j <= Len(t) + 1 /\ k <= Len(t) + 1
  BY LenProperties DEF Cut
<1>2. \A c : c \in Chars(r.host) <=> \E x \in i + 3 .. j - 1 : t[x] = c
  BY <1>1, PartChars
<1>3. \A c : c \in Chars(r.port) <=> \E x \in j + 1 .. k - 1 : t[x] = c
  BY <1>1, PartChars
<1>4. Unended(r) <=> \/ "query" \in Chars(r.host) \/ "hash" \in Chars(r.host)
                     \/ "query" \in Chars(r.port) \/ "hash" \in Chars(r.port)
  BY DEF Unended
<1> QED BY <1>2, <1>3, <1>4 DEF Ended

\* UriParsed holds of every text.
LEMMA UriIsParsed == TextOK => UriParsed
<1> SUFFICES ASSUME TextOK, grammar = "uri"
             PROVE  UriParsed
  BY DEF UriParsed
<1>0. text \in Seq(UriChars) /\ Len(text) \in Nat
  BY Grammars, LenProperties
<1> DEFINE r == parse_uri(text)
           all == 1 .. Len(text) + 1
           cuts == {x \in SchemeEnds(text) \X all \X all : UriCut(text, x[1], x[2], x[3])}
<1>1. /\ r.ok => \E i, j, k \in Nat : Cut(text, i, j, k)
      /\ \A i, j, k \in Nat : Cut(text, i, j, k) =>
            r = Uri(Part(text, 1, i), Part(text, i + 3, j), Part(text, j + 1, k),
                    UriPath(text, k))
  BY <1>0, UriFound
<1> HIDE DEF r
<1>2. \A i, j, k \in Nat :
         Cut(text, i, j, k) /\ Ended(text, i, j, k) => <<i, j, k>> \in cuts
  BY <1>0, CutIs
<1>3. ASSUME NEW x \in cuts
      PROVE  x[1] \in Nat /\ x[2] \in Nat /\ x[3] \in Nat
             /\ Cut(text, x[1], x[2], x[3]) /\ Ended(text, x[1], x[2], x[3])
  <2>1. /\ x[1] \in SchemeEnds(text) /\ x[2] \in all /\ x[3] \in all
        /\ UriCut(text, x[1], x[2], x[3])
    OBVIOUS
  <2>2. x[1] \in Nat /\ x[2] \in Nat /\ x[3] \in Nat
    BY <1>0, <2>1 DEF SchemeEnds
  <2> QED BY <1>0, <2>1, <2>2, CutIs
<1> HIDE DEF cuts
<1>4. ASSUME r.ok
      PROVE  cuts # {} \/ Unended(r)
  <2>1. PICK i, j, k \in Nat : Cut(text, i, j, k)
    BY <1>1, <1>4
  <2>2. r = Uri(Part(text, 1, i), Part(text, i + 3, j), Part(text, j + 1, k),
                UriPath(text, k))
    BY <1>1, <2>1
  <2>3. r.host = Part(text, i + 3, j) /\ r.port = Part(text, j + 1, k)
    BY <2>2 DEF Uri
  <2>4. Unended(r) <=> ~Ended(text, i, j, k)
    BY <1>0, <2>1, <2>3, EndedIs
  <2> QED BY <1>2, <2>1, <2>4
<1>5. ASSUME NEW x \in cuts
      PROVE  /\ r.ok /\ ~Unended(r)
             /\ r.scheme = Part(text, 1, x[1])
             /\ r.host = Part(text, x[1] + 3, x[2])
             /\ r.port = Part(text, x[2] + 1, x[3])
             /\ r.path = UriPath(text, x[3])
  <2>1. r = Uri(Part(text, 1, x[1]), Part(text, x[1] + 3, x[2]), Part(text, x[2] + 1, x[3]),
                UriPath(text, x[3]))
    BY <1>1, <1>3
  <2>2. /\ r.ok
        /\ r.scheme = Part(text, 1, x[1])
        /\ r.host = Part(text, x[1] + 3, x[2])
        /\ r.port = Part(text, x[2] + 1, x[3])
        /\ r.path = UriPath(text, x[3])
    BY <2>1 DEF Uri
  <2>3. ~Unended(r)
    BY <1>0, <1>3, <2>2, EndedIs
  <2> QED BY <2>2, <2>3
<1> QED BY <1>4, <1>5 DEF UriParsed, r, cuts

-----------------------------------------------------------------------------
(* Recursive functions                                                     *)

\* f is the function on 0 .. m whose value at 0 is b and at i is st[i, f[i - 1]].
Computes(f, m, S, b, st) ==
    /\ f \in [0 .. m -> S]
    /\ f[0] = b
    /\ \A i \in 1 .. m : f[i] = st[<<i, f[i - 1]>>]

\* There is one.
LEMMA Recursion ==
    ASSUME NEW n \in Nat, NEW S, NEW b \in S, NEW st \in [(1 .. n) \X S -> S]
    PROVE  \E f : Computes(f, n, S, b, st)
<1> DEFINE T == {m \in 0 .. n : ~\E f : Computes(f, m, S, b, st)}
<1>1. ASSUME T # {}
      PROVE  FALSE
  <2>1. T \in SUBSET Nat
    OBVIOUS
  <2>2. PICK m \in T : \A y \in T : m <= y
    BY <1>1, <2>1, Least
  <2>3. m \in 0 .. n /\ ~\E f : Computes(f, m, S, b, st)
    BY <2>2
  <2>4. CASE m = 0
    <3>1. Computes([i \in 0 .. 0 |-> b], 0, S, b, st)
      BY DEF Computes
    <3> QED BY <2>3, <2>4, <3>1
  <2>5. CASE m > 0
    <3>1. m - 1 \in 0 .. n /\ m - 1 \notin T
      BY <2>2, <2>3, <2>5
    <3>2. PICK f : Computes(f, m - 1, S, b, st)
      BY <3>1
    <3> DEFINE g == [i \in 0 .. m |-> IF i = m THEN st[<<m, f[m - 1]>>] ELSE f[i]]
    <3>3. f[m - 1] \in S /\ m \in 1 .. n
      BY <2>3, <2>5, <3>2 DEF Computes
    <3>4. st[<<m, f[m - 1]>>] \in S
      BY <3>3
    <3>5. \A i \in 0 .. m : i # m => i \in 0 .. m - 1 /\ f[i] \in S
      BY <2>3, <3>2 DEF Computes
    <3>6. g \in [0 .. m -> S] /\ g[0] = b
      BY <2>3, <2>5, <3>2, <3>4, <3>5 DEF Computes
    <3>7. ASSUME NEW i \in 1 .. m
          PROVE  g[i] = st[<<i, g[i - 1]>>]
      <4>1. i - 1 \in 0 .. m /\ i - 1 # m /\ g[i - 1] = f[i - 1]
        BY <2>3, <3>7
      <4>2. CASE i = m
        BY <2>3, <2>5, <4>1, <4>2
      <4>3. CASE i # m
        <5>1. i \in 1 .. m - 1 /\ g[i] = f[i]
          BY <2>3, <3>7, <4>3
        <5> QED BY <3>2, <4>1, <5>1 DEF Computes
      <4> QED BY <4>2, <4>3
    <3>8. Computes(g, m, S, b, st)
      BY <3>6, <3>7 DEF Computes
    <3> QED BY <2>3, <3>8
  <2> QED BY <2>3, <2>4, <2>5
<1>2. n \in 0 .. n
  OBVIOUS
<1> QED BY <1>1, <1>2

-----------------------------------------------------------------------------
(* Header fields                                                           *)

Requests == [host : [present : BOOLEAN, good : BOOLEAN],
             upgrade : [present : BOOLEAN, good : BOOLEAN],
             conn : [present : BOOLEAN, good : BOOLEAN],
             conn2 : [present : BOOLEAN, good : BOOLEAN]]
NoFields == [host |-> Absent, upgrade |-> Absent, conn |-> Absent, conn2 |-> Absent]

\* What the loop of http_recv has found after i fields.
Loop(fs, req) ==
    /\ req[0] = NoFields
    /\ \A i \in 1 .. Len(fs) :
          req[i] = IF i \in Seen(fs) THEN parse_header_field(fs[i], req[i - 1])
                   ELSE req[i - 1]

\* parse_header_field keeps a request a request.
LEMMA FieldTypes ==
    ASSUME NEW f \in HeaderFields, NEW q \in Requests
    PROVE  /\ parse_header_field(f, q) \in Requests
           /\ Value(f) \in [present : BOOLEAN, good : BOOLEAN]
           /\ Value(f).present <=> ~f.colon \/ f.value # "empty"
           /\ Value(f).good <=> f.value = "good"
           /\ Value(f).good => Value(f).present
<1>1. /\ Value(f) \in [present : BOOLEAN, good : BOOLEAN]
      /\ Value(f).present <=> ~f.colon \/ f.value # "empty"
      /\ Value(f).good <=> f.value = "good"
      /\ Value(f).good => Value(f).present
  BY DEF Value, HeaderFields
<1>2. parse_header_field(f, q) \in Requests
  BY <1>1 DEF parse_header_field, HeaderFields, Requests
<1> QED BY <1>1, <1>2

\* The recursion of parsed has a solution, so it computes what Loop says.
LEMMA ParsedLoop ==
    ASSUME NEW fs \in Seq(HeaderFields)
    PROVE  \E req : Loop(fs, req) /\ parsed(fs) = req[Len(fs)]
<1> DEFINE n == Len(fs)
           st == [x \in (1 .. n) \X Requests |->
                     IF x[1] \in Seen(fs) THEN parse_header_field(fs[x[1]], x[2]) ELSE x[2]]
           F(f) == [i \in 0 .. n |->
                       IF i = 0 THEN [host |-> Absent, upgrade |-> Absent, conn |-> Absent,
                                      conn2 |-> Absent]
                       ELSE IF i \in Seen(fs) THEN parse_header_field(fs[i], f[i - 1])
                       ELSE f[i - 1]]
           req == CHOOSE f : f = F(f)
<1>0. n \in Nat /\ \A i \in 1 .. n : fs[i] \in HeaderFields
  BY LenProperties, ElementOfSeq
<1>1. parsed(fs) = req[n]
  BY DEF parsed
<1>2. \E f : f = F(f)
  <2>1. st \in [(1 .. n) \X Requests -> Requests]
    <3>1. ASSUME NEW x \in (1 .. n) \X Requests
          PROVE  (IF x[1] \in Seen(fs) THEN parse_header_field(fs[x[1]], x[2]) ELSE x[2])
                 \in Requests
      <4>1. x[1] \in 1 .. n /\ x[2] \in Requests
        OBVIOUS
      <4> QED BY <1>0, <4>1, FieldTypes
    <3> QED BY <3>1
  <2>2. NoFields \in Requests
    BY DEF NoFields, Absent, Requests
  <2>3. \A i \in 1 .. n, q \in Requests :
           st[<<i, q>>] = IF i \in Seen(fs) THEN parse_header_field(fs[i], q) ELSE q
    OBVIOUS
  <2> HIDE DEF st
  <2>4. PICK f : Computes(f, n, Requests, NoFields, st)
    BY <1>0, <2>1, <2>2, Recursion
  <2>5. ASSUME NEW i \in 0 .. n
        PROVE  f[i] = F(f)[i]
    <3>1. CASE i = 0
      BY <2>4, <3>1 DEF Computes, NoFields
    <3>2. CASE i # 0
      <4>1. i \in 1 .. n /\ f[i - 1] \in Requests
        BY <1>0, <2>4, <3>2 DEF Computes
      <4> QED BY <2>3, <2>4, <3>2, <4>1 DEF Computes
    <3> QED BY <3>1, <3>2
  <2>6. f = F(f)
    BY <2>4, <2>5 DEF Computes
  <2> QED BY <2>6
<1>3. req = F(req)
  BY <1>2
<1> HIDE DEF req
<1>4. Loop(fs, req)
  BY <1>0, <1>3 DEF Loop, NoFields
<1> QED BY <1>1, <1>4

\* The fields of name n among the first i that are seen.
Named(fs, i, n) == {j \in Seen(fs) : j <= i /\ fs[j].name = n}

\* What is kept of the first i fields: of a Host; of an Upgrade; of one Connection
\* field that is not empty, and if there are others, of one of them.
Kept(fs, i, q) ==
    /\ q \in Requests
    /\ \/ Named(fs, i, "Host") = {} /\ ~q.host.present
       \/ \E j \in Named(fs, i, "Host") : q.host.present = Value(fs[j]).present
    /\ \/ Named(fs, i, "Upgrade") = {} /\ ~q.upgrade.good
       \/ \E j \in Named(fs, i, "Upgrade") : q.upgrade.good = Value(fs[j]).good
    /\ \/ /\ \A j \in Named(fs, i, "Connection") : ~Value(fs[j]).present
          /\ ~q.conn.present /\ ~q.conn.good /\ ~q.conn2.good
       \/ \E j \in Named(fs, i, "Connection") :
             /\ q.conn.present /\ q.conn.good = Value(fs[j]).good
             /\ \/ /\ \A k \in Named(fs, i, "Connection") \ {j} : ~Value(fs[k]).present
                   /\ ~q.conn2.good
                \/ \E k \in Named(fs, i, "Connection") \ {j} :
                      q.conn2.good = Value(fs[k]).good

\* The i-th field is added if it is seen and has the name.
LEMMA NamedStep ==
    ASSUME NEW fs \in Seq(HeaderFields), NEW i \in 1 .. Len(fs), NEW n
    PROVE  /\ Named(fs, i, n) = Named(fs, i - 1, n)
                                \cup (IF i \in Seen(fs) /\ fs[i].name = n THEN {i} ELSE {})
           /\ i \notin Named(fs, i - 1, n)
<1>1. \A j \in Seen(fs) : j \in Nat
  BY LenProperties DEF Seen
<1>2. \A j \in Seen(fs) : j <= i <=> j <= i - 1 \/ j = i
  BY <1>1, LenProperties
<1>3. ~(i <= i - 1)
  BY LenProperties
<1> QED BY <1>2, <1>3 DEF Named

\* One field more.
LEMMA KeptStep ==
    ASSUME NEW fs \in Seq(HeaderFields), NEW i \in 1 .. Len(fs), NEW q, NEW r,
           Kept(fs, i - 1, q),
           r = IF i \in Seen(fs) THEN parse_header_field(fs[i], q) ELSE q
    PROVE  Kept(fs, i, r)
<1> DEFINE H == Named(fs, i, "Host")
           U == Named(fs, i, "Upgrade")
           C == Named(fs, i, "Connection")
           H0 == Named(fs, i - 1, "Host")
           U0 == Named(fs, i - 1, "Upgrade")
           C0 == Named(fs, i - 1, "Connection")
           f == fs[i]
<1>1. f \in HeaderFields /\ q \in Requests
  BY ElementOfSeq DEF Kept
<1>2. /\ Value(f) \in [present : BOOLEAN, good : BOOLEAN]
      /\ Value(f).good => Value(f).present
      /\ parse_header_field(f, q) \in Requests
  BY <1>1, FieldTypes
<1>3. /\ H = H0 \cup (IF i \in Seen(fs) /\ f.name = "Host" THEN {i} ELSE {})
      /\ U = U0 \cup (IF i \in Seen(fs) /\ f.name = "Upgrade" THEN {i} ELSE {})
      /\ C = C0 \cup (IF i \in Seen(fs) /\ f.name = "Connection" THEN {i} ELSE {})
      /\ i \notin C0
  BY NamedStep
<1>4. /\ \/ H0 = {} /\ ~q.host.present
         \/ \E j \in H0 : q.host.present = Value(fs[j]).present
      /\ \/ U0 = {} /\ ~q.upgrade.good
         \/ \E j \in U0 : q.upgrade.good = Value(fs[j]).good
      /\ \/ /\ \A j \in C0 : ~Value(fs[j]).present
            /\ ~q.conn.present /\ ~q.conn.good /\ ~q.conn2.good
         \/ \E j \in C0 :
               /\ q.conn.present /\ q.conn.good = Value(fs[j]).good
               /\ \/ (\A k \in C0 \ {j} : ~Value(fs[k]).present) /\ ~q.conn2.good
                  \/ \E k \in C0 \ {j} : q.conn2.good = Value(fs[k]).good
  BY DEF Kept
<1> SUFFICES
      /\ r \in Requests
      /\ \/ H = {} /\ ~r.host.present
         \/ \E j \in H : r.host.present = Value(fs[j]).present
      /\ \/ U = {} /\ ~r.upgrade.good
         \/ \E j \in U : r.upgrade.good = Value(fs[j]).good
      /\ \/ /\ \A j \in C : ~Value(fs[j]).present
            /\ ~r.conn.present /\ ~r.conn.good /\ ~r.conn2.good
         \/ \E j \in C :
               /\ r.conn.present /\ r.conn.good = Value(fs[j]).good
               /\ \/ (\A k \in C \ {j} : ~Value(fs[k]).present) /\ ~r.conn2.good
                  \/ \E k \in C \ {j} : r.conn2.good = Value(fs[k]).good
  BY DEF Kept
<1> HIDE DEF H, U, C, H0, U0, C0
<1>5. CASE i \notin Seen(fs) \/ f.name = "other"
  <2>1. r = q
    BY <1>5 DEF parse_header_field
  <2>2. H = H0 /\ U = U0 /\ C = C0
    BY <1>3, <1>5
  <2> QED BY <1>1, <1>4, <2>1, <2>2
<1>6. CASE i \in Seen(fs) /\ f.name = "Host"
  <2>1. r = [q EXCEPT !.host = Value(f)]
    BY <1>6 DEF parse_header_field
  <2>2. /\ r \in Requests /\ r.host = Value(f)
        /\ r.upgrade = q.upgrade /\ r.conn = q.conn /\ r.conn2 = q.conn2
    BY <1>1, <1>2, <2>1 DEF Requests
  <2>3. i \in H /\ U = U0 /\ C = C0
    BY <1>3, <1>6
  <2> QED BY <1>4, <2>2, <2>3
<1>7. CASE i \in Seen(fs) /\ f.name = "Upgrade"
  <2>1. r = [q EXCEPT !.upgrade = Value(f)]
    BY <1>7 DEF parse_header_field
  <2>2. /\ r \in Requests /\ r.upgrade = Value(f)
        /\ r.host = q.host /\ r.conn = q.conn /\ r.conn2 = q.conn2
    BY <1>1, <1>2, <2>1 DEF Requests
  <2>3. H = H0 /\ i \in U /\ C = C0
    BY <1>3, <1>7
  <2> QED BY <1>4, <2>2, <2>3
<1>8. CASE i \in Seen(fs) /\ f.name = "Connection"
  <2>1. H = H0 /\ U = U0 /\ C = C0 \cup {i}
    BY <1>3, <1>8
  <2>2. CASE q.conn.present
    <3>1. r = [q EXCEPT !.conn2 = Value(f)]
      BY <1>8, <2>2 DEF parse_header_field
    <3>2. /\ r \in Requests /\ r.conn2 = Value(f)
          /\ r.host = q.host /\ r.upgrade = q.upgrade /\ r.conn = q.conn
      BY <1>1, <1>2, <3>1 DEF Requests
    <3>3. PICK j \in C0 : q.conn.good = Value(fs[j]).good
      BY <1>4, <2>2
    <3>4. j \in C /\ i \in C \ {j}
      BY <1>3, <2>1, <3>3
    <3> QED BY <1>4, <2>1, <2>2, <3>2, <3>3, <3>4
  <2>3. CASE ~q.conn.present
    <3>1. r = [q EXCEPT !.conn = Value(f)]
      BY <1>8, <2>3 DEF parse_header_field
    <3>2. /\ r \in Requests /\ r.conn = Value(f)
          /\ r.host = q.host /\ r.upgrade = q.upgrade /\ r.conn2 = q.conn2
      BY <1>1, <1>2, <3>1 DEF Requests
    <3>3. (\A j \in C0 : ~Value(fs[j]).present) /\ ~q.conn2.good
      BY <1>4, <2>3
    <3>4. i \in C /\ \A j \in C \ {i} : ~Value(fs[j]).present
      BY <2>1, <3>3
    <3>5. CASE Value(f).present
      BY <1>4, <2>1, <3>2, <3>3, <3>4, <3>5
    <3>6. CASE ~Value(f).present
      <4>1. \A j \in C : ~Value(fs[j]).present
        BY <3>4, <3>6
      <4> QED BY <1>2, <1>4, <2>1, <3>2, <3>3, <3>6, <4>1
    <3> QED BY <3>5, <3>6
  <2> QED BY <2>2, <2>3
<1> QED BY <1>1, <1>5, <1>6, <1>7, <1>8 DEF HeaderFields

\* The loop keeps what Kept says.
LEMMA LoopKeeps ==
    ASSUME NEW fs \in Seq(HeaderFields), NEW req, Loop(fs, req)
    PROVE  Kept(fs, Len(fs), req[Len(fs)])
<1> DEFINE n == Len(fs)
           T == {i \in 0 .. n : ~Kept(fs, i, req[i])}
<1>0. n \in Nat
  BY LenProperties
<1>1. ASSUME T # {}
      PROVE  FALSE
  <2>1. T \in SUBSET Nat
    BY <1>0
  <2>2. PICK i \in T : \A y \in T : i <= y
    BY <1>1, <2>1, Least
  <2>3. i \in 0 .. n /\ ~Kept(fs, i, req[i])
    BY <2>2
  <2>4. CASE i = 0
    <3>1. \A m : Named(fs, 0, m) = {}
      BY <1>0 DEF Named, Seen
    <3>2. req[0] = NoFields
      BY DEF Loop
    <3>3. Kept(fs, 0, NoFields)
      BY <3>1 DEF Kept, NoFields, Absent, Requests
    <3> QED BY <2>3, <2>4, <3>2, <3>3
  <2>5. CASE i > 0
    <3>1. i \in 1 .. Len(fs) /\ i - 1 \in 0 .. n /\ i - 1 \notin T
      BY <1>0, <2>2, <2>3, <2>5
    <3>2. Kept(fs, i - 1, req[i - 1])
      BY <3>1
    <3>3. req[i] = IF i \in Seen(fs) THEN parse_header_field(fs[i], req[i - 1])
                   ELSE req[i - 1]
      BY <3>1 DEF Loop
    <3>4. Kept(fs, i, req[i])
      BY <3>1, <3>2, <3>3, KeptStep
    <3> QED BY <2>3, <3>4
  <2> QED BY <1>0, <2>3, <2>4, <2>5
<1> QED BY <1>0, <1>1

\* A set of at most two has no three.
LEMMA NoThird ==
    ASSUME NEW S, IsFiniteSet(S), Cardinality(S) <= 2,
           NEW i \in S, NEW j \in S, NEW k \in S, i # j
    PROVE  k = i \/ k = j
<1> SUFFICES ASSUME k # i, k # j
             PROVE  FALSE
  OBVIOUS
<1> DEFINE A == {i}
           B == A \cup {j}
           D == B \cup {k}
<1>1. IsFiniteSet(A) /\ Cardinality(A) = 1
  BY FS_Singleton
<1>2. j \notin A /\ k \notin B
  OBVIOUS
<1>3. D \in SUBSET S
  OBVIOUS
<1> HIDE DEF A
<1>4. IsFiniteSet(B) /\ Cardinality(B) = 2
  BY <1>1, <1>2, FS_AddElement
<1> HIDE DEF B
<1>5. Cardinality(D) = Cardinality(B) + 1
  BY <1>2, <1>4, FS_AddElement
<1> HIDE DEF D
<1>6. Cardinality(D) <= Cardinality(S)
  BY <1>3, FS_Subset
<1>7. Cardinality(S) \in Nat
  BY FS_CardinalityType
<1> QED BY <1>4, <1>5, <1>6, <1>7

FieldsOK == fields \in Seq(HeaderFields)

\* Header fields are header fields: AddField takes Lines only.
LEMMA FieldsInv == Spec => []FieldsOK
<1>1. Init => FieldsOK
  BY EmptySeq DEF Init, FieldsOK
<1>2. FieldsOK /\ [Next]_vars => FieldsOK'
  <2> SUFFICES ASSUME FieldsOK, [Next]_vars
               PROVE  FieldsOK'
    OBVIOUS
  <2>1. CASE AddChar
    BY <2>1 DEF AddChar, FieldsOK
  <2>2. CASE AddField
    <3>1. PICK f \in Lines : fields' = Append(fields, f)
      BY <2>2 DEF AddField
    <3>2. f \in HeaderFields
      BY <3>1, ParsersAssumption
    <3> QED BY <3>1, <3>2, AppendProperties DEF FieldsOK
  <2>3. CASE UNCHANGED vars
    BY <2>3 DEF vars, FieldsOK
  <2> QED BY <2>1, <2>2, <2>3 DEF Next
<1> QED BY <1>1, <1>2, PTL DEF Spec

\* FieldsFound holds of all header fields.
LEMMA FieldsAreFound == FieldsOK => FieldsFound
<1> SUFFICES ASSUME FieldsOK
             PROVE  FieldsFound
  OBVIOUS
<1> DEFINE N == Len(fields)
           q == parsed(fields)
           with(n) == {i \in 1 .. N : fields[i].name = n}
           good(n) == {i \in with(n) : fields[i].value = "good"}
           plain == /\ \A i \in 1 .. N : /\ ~fields[i].more /\ ~fields[i].odd
                                         /\ fields[i].colon
                    /\ Cardinality(with("Host")) = 1 /\ Cardinality(with("Upgrade")) = 1
                    /\ Cardinality(with("Connection")) <= 2
           needed == /\ \E i \in with("Host") : ~fields[i].colon \/ fields[i].value # "empty"
                     /\ good("Upgrade") # {} /\ good("Connection") # {}
           accepted == q.host.present /\ q.upgrade.good /\ (q.conn.good \/ q.conn2.good)
           H == Named(fields, N, "Host")
           U == Named(fields, N, "Upgrade")
           C == Named(fields, N, "Connection")
<1>1. N \in Nat
  BY LenProperties DEF FieldsOK
<1>2. Kept(fields, N, q)
  BY ParsedLoop, LoopKeeps DEF FieldsOK
<1>3. /\ \/ H = {} /\ ~q.host.present
         \/ \E j \in H : q.host.present = Value(fields[j]).present
      /\ \/ U = {} /\ ~q.upgrade.good
         \/ \E j \in U : q.upgrade.good = Value(fields[j]).good
      /\ \/ /\ \A j \in C : ~Value(fields[j]).present
            /\ ~q.conn.present /\ ~q.conn.good /\ ~q.conn2.good
         \/ \E j \in C :
               /\ q.conn.present /\ q.conn.good = Value(fields[j]).good
               /\ \/ (\A k \in C \ {j} : ~Value(fields[k]).present) /\ ~q.conn2.good
                  \/ \E k \in C \ {j} : q.conn2.good = Value(fields[k]).good
  BY <1>2 DEF Kept
<1>8. \A i \in 1 .. N :
         /\ Value(fields[i]).present <=> ~fields[i].colon \/ fields[i].value # "empty"
         /\ Value(fields[i]).good <=> fields[i].value = "good"
         /\ Value(fields[i]).good => Value(fields[i]).present
  <2>1. NoFields \in Requests /\ \A i \in 1 .. N : fields[i] \in HeaderFields
    BY ElementOfSeq DEF FieldsOK, NoFields, Absent, Requests
  <2> QED BY <2>1, FieldTypes
<1>4. \A n : Named(fields, N, n) \subseteq with(n)
  BY <1>1 DEF Named, Seen
<1>5. http_recv(fields) <=> accepted
  BY DEF http_recv
<1> HIDE DEF q, H, U, C, N
<1>6. accepted => needed
  <2>1. H \subseteq with("Host") /\ U \subseteq with("Upgrade") /\ C \subseteq with("Connection")
    BY <1>4 DEF H, U, C
  <2> HAVE accepted
  <2>2. \E j \in H : Value(fields[j]).present
    BY <1>3
  <2>3. \E j \in U : Value(fields[j]).good
    BY <1>3
  <2>4. \E j \in C : Value(fields[j]).good
    BY <1>3
  <2>5. /\ \E i \in with("Host") : ~fields[i].colon \/ fields[i].value # "empty"
        /\ good("Upgrade") # {} /\ good("Connection") # {}
    BY <1>8, <2>1, <2>2, <2>3, <2>4
  <2> QED BY <2>5
<1>7. plain /\ needed => accepted
  <2> HAVE plain /\ needed
  <2>1. Seen(fields) = 1 .. N
    BY <1>1 DEF Seen, N
  <2>2. \A n : Named(fields, N, n) = with(n)
    BY <1>1, <2>1 DEF Named
  <2>3. H = with("Host") /\ U = with("Upgrade") /\ C = with("Connection")
    BY <2>2 DEF H, U, C
  <2>4. IsFiniteSet(1 .. N)
    BY <1>1, FS_Interval
  <2>5. IsFiniteSet(H) /\ IsFiniteSet(U) /\ IsFiniteSet(C)
    BY <2>3, <2>4, FS_Subset
  <2>6. PICK h, u : H = {h} /\ U = {u}
    <3>1. \E h : H = {h}
      BY <2>3, <2>5, FS_Singleton
    <3>2. \E u : U = {u}
      BY <2>3, <2>5, FS_Singleton
    <3> QED BY <3>1, <3>2
  <2>7. Value(fields[h]).present /\ Value(fields[u]).good
    BY <1>8, <2>3, <2>6
  <2>8. q.host.present /\ q.upgrade.good
    BY <1>3, <2>6, <2>7
  <2>9. PICK c \in C : Value(fields[c]).good /\ Value(fields[c]).present
    BY <1>8, <2>3
  <2>10. q.conn.good \/ q.conn2.good
    <3>1. PICK j \in C :
             /\ q.conn.good = Value(fields[j]).good
             /\ \/ \A k \in C \ {j} : ~Value(fields[k]).present
                \/ \E k \in C \ {j} : q.conn2.good = Value(fields[k]).good
      BY <1>3, <2>9
    <3>2. CASE \A k \in C \ {j} : ~Value(fields[k]).present
      BY <2>9, <3>1, <3>2
    <3>3. CASE \E k \in C \ {j} : q.conn2.good = Value(fields[k]).good
      <4>1. PICK k \in C \ {j} : q.conn2.good = Value(fields[k]).good
        BY <3>3
      <4>2. c = j \/ c = k
        BY <2>3, <2>5, <2>9, <3>1, <4>1, NoThird
      <4> QED BY <2>9, <3>1, <4>1, <4>2
    <3> QED BY <3>1, <3>2, <3>3
  <2> QED BY <2>8, <2>10
<1> QED BY <1>5, <1>6, <1>7 DEF FieldsFound, N

-----------------------------------------------------------------------------
(* balanced_span                                                           *)

\* How often c is among the first i characters.
Count(t, i, c) == Cardinality({j \in 1 .. i : t[j] = c})

\* A count grows by one at its character.
LEMMA Counting ==
    ASSUME NEW t, NEW i \in Nat, NEW c
    PROVE  /\ Count(t, i, c) \in Nat
           /\ Count(t, 0, c) = 0
           /\ i > 0 => Count(t, i, c) = Count(t, i - 1, c) + (IF t[i] = c THEN 1 ELSE 0)
<1> DEFINE S(n) == {j \in 1 .. n : t[j] = c}
<1>1. \A n \in Int : IsFiniteSet(S(n))
  <2>1. \A n \in Int : IsFiniteSet(1 .. n)
    BY FS_Interval
  <2>2. \A n \in Int : S(n) \in SUBSET (1 .. n)
    OBVIOUS
  <2> HIDE DEF S
  <2> QED BY <2>1, <2>2, FS_Subset
<1>2. S(0) = {}
  OBVIOUS
<1>3. i > 0 => /\ i \notin S(i - 1)
               /\ S(i) = IF t[i] = c THEN S(i - 1) \cup {i} ELSE S(i - 1)
  OBVIOUS
<1>4. \A n : Count(t, n, c) = Cardinality(S(n))
  BY DEF Count
<1> HIDE DEF S
<1>5. \A n \in Int : Cardinality(S(n)) \in Nat
  BY <1>1, FS_CardinalityType
<1>6. Cardinality(S(0)) = 0
  BY <1>2, FS_EmptySet
<1>7. i > 0 => Cardinality(S(i)) = Cardinality(S(i - 1)) + (IF t[i] = c THEN 1 ELSE 0)
  <2> HAVE i > 0
  <2>1. CASE t[i] = c
    <3>1. i - 1 \in Int /\ S(i) = S(i - 1) \cup {i} /\ i \notin S(i - 1)
      BY <1>3, <2>1
    <3>2. IsFiniteSet(S(i - 1))
      BY <1>1, <3>1
    <3>3. Cardinality(S(i - 1) \cup {i}) = Cardinality(S(i - 1)) + 1
      BY <3>1, <3>2, FS_AddElement
    <3> QED BY <2>1, <3>1, <3>3
  <2>2. CASE t[i] # c
    BY <1>3, <1>5, <2>2
  <2> QED BY <2>1, <2>2
<1> QED BY <1>4, <1>5, <1>6, <1>7

\* What num is after the character c, if it was n.
Counted(c, n) == IF c = "open" THEN (IF n = -1 THEN 1 ELSE n + 1)
                 ELSE IF c = "close" THEN n - 1 ELSE n

Braces(t, num) ==
    /\ num[0] = -1
    /\ \A i \in 1 .. Len(t) : num[i] = Counted(t[i], num[i - 1])

SpanEnds(t, num) == {i \in 1 .. Len(t) : t[i] = "close" /\ num[i] = 0}

\* The recursion of balanced_span has a solution.
LEMMA SpanLoop ==
    ASSUME NEW t \in Seq(JsonChars)
    PROVE  \E num : /\ Braces(t, num)
                    /\ balanced_span(t) = IF SpanEnds(t, num) = {} THEN -1
                                          ELSE Min(SpanEnds(t, num))
<1> DEFINE n == Len(t)
           st == [x \in (1 .. n) \X Int |-> Counted(t[x[1]], x[2])]
           F(f) == [i \in 0 .. n |->
                       IF i = 0 THEN -1
                       ELSE IF t[i] = "open"
                       THEN (IF f[i - 1] = -1 THEN 1 ELSE f[i - 1] + 1)
                       ELSE IF t[i] = "close" THEN f[i - 1] - 1 ELSE f[i - 1]]
           num == CHOOSE f : f = F(f)
<1>0. n \in Nat
  BY LenProperties
<1>1. balanced_span(t) = IF SpanEnds(t, num) = {} THEN -1 ELSE Min(SpanEnds(t, num))
  BY DEF balanced_span, SpanEnds
<1>2. \E f : f = F(f)
  <2>1. st \in [(1 .. n) \X Int -> Int]
    BY DEF Counted
  <2>2. \A i \in 1 .. n, q \in Int : st[<<i, q>>] = Counted(t[i], q)
    OBVIOUS
  <2>3. -1 \in Int
    OBVIOUS
  <2> HIDE DEF st
  <2>4. PICK f : Computes(f, n, Int, -1, st)
    BY <1>0, <2>1, <2>3, Recursion
  <2>5. ASSUME NEW i \in 0 .. n
        PROVE  f[i] = F(f)[i]
    <3>1. CASE i = 0
      BY <2>4, <3>1 DEF Computes
    <3>2. CASE i # 0
      <4>1. i \in 1 .. n /\ f[i - 1] \in Int
        BY <1>0, <2>4, <3>2 DEF Computes
      <4>2. f[i] = Counted(t[i], f[i - 1])
        BY <2>2, <2>4, <4>1 DEF Computes
      <4> QED BY <3>2, <4>1, <4>2 DEF Counted
    <3> QED BY <3>1, <3>2
  <2>6. f = F(f)
    BY <2>4, <2>5 DEF Computes
  <2> QED BY <2>6
<1>3. num = F(num)
  BY <1>2
<1> HIDE DEF num
<1>4. Braces(t, num)
  <2>1. 0 \in 0 .. n /\ num[0] = F(num)[0]
    BY <1>0, <1>3
  <2>2. ASSUME NEW i \in 1 .. n
        PROVE  num[i] = Counted(t[i], num[i - 1])
    <3>1. i \in 0 .. n /\ i # 0
      BY <1>0
    <3>2. F(num)[i] = Counted(t[i], num[i - 1])
      BY <3>1 DEF Counted
    <3> HIDE DEF F
    <3> QED BY <1>3, <3>2
  <2> QED BY <2>1, <2>2 DEF Braces
<1> QED BY <1>1, <1>4

\* Ends of an object: as many braces are closed as were opened, and some were.
Balanced(t) == {i \in 1 .. Len(t) : /\ Count(t, i, "open") > 0
                                    /\ Count(t, i, "open") = Count(t, i, "close")}

\* Up to the first such end num is -1 in front of the object, and else the depth.
Depth(t, i, num) ==
    \/ Count(t, i, "open") = 0 /\ Count(t, i, "close") = 0 /\ num[i] = -1
    \/ /\ Count(t, i, "open") > 0 /\ Count(t, i, "open") >= Count(t, i, "close")
       /\ num[i] = Count(t, i, "open") - Count(t, i, "close")

NoStrayClose(t) ==
    \A i \in 1 .. Len(t) : Count(t, i, "open") > 0 \/ Count(t, i, "close") = 0

\* One character more.
LEMMA DepthStep ==
    ASSUME NEW t \in Seq(JsonChars), NEW num, Braces(t, num), NoStrayClose(t),
           NEW i \in 1 .. Len(t), i - 1 \notin Balanced(t), Depth(t, i - 1, num)
    PROVE  /\ Depth(t, i, num)
           /\ i \in Balanced(t) <=> i \in SpanEnds(t, num)
<1> DEFINE o == Count(t, i, "open")
           s == Count(t, i, "close")
           o0 == Count(t, i - 1, "open")
           s0 == Count(t, i - 1, "close")
<1>0. Len(t) \in Nat /\ i \in Nat /\ i - 1 \in Nat /\ i > 0 /\ t[i] \in JsonChars
  BY LenProperties, ElementOfSeq
<1>1. /\ o \in Nat /\ s \in Nat /\ o0 \in Nat /\ s0 \in Nat
      /\ o = o0 + (IF t[i] = "open" THEN 1 ELSE 0)
      /\ s = s0 + (IF t[i] = "close" THEN 1 ELSE 0)
  BY <1>0, Counting
<1>2. i - 1 = 0 => o0 = 0 /\ s0 = 0
  BY <1>0, Counting
<1>3. o0 > 0 => o0 # s0
  BY <1>0, <1>2 DEF Balanced
<1>4. o > 0 \/ s = 0
  BY DEF NoStrayClose
<1>5. \/ o0 = 0 /\ s0 = 0 /\ num[i - 1] = -1
      \/ o0 > 0 /\ o0 >= s0 /\ num[i - 1] = o0 - s0
  BY DEF Depth
<1>6. num[i] = Counted(t[i], num[i - 1])
  BY DEF Braces
<1>7. i \in Balanced(t) <=> o > 0 /\ o = s
  BY DEF Balanced
<1>8. i \in SpanEnds(t, num) <=> t[i] = "close" /\ num[i] = 0
  BY DEF SpanEnds
<1>9. Depth(t, i, num) <=> \/ o = 0 /\ s = 0 /\ num[i] = -1
                           \/ o > 0 /\ o >= s /\ num[i] = o - s
  BY DEF Depth
<1> HIDE DEF o, s, o0, s0
<1>10. CASE t[i] = "open"
  BY <1>1, <1>3, <1>4, <1>5, <1>6, <1>7, <1>8, <1>9, <1>10 DEF Counted
<1>11. CASE t[i] = "close"
  BY <1>1, <1>3, <1>4, <1>5, <1>6, <1>7, <1>8, <1>9, <1>11 DEF Counted
<1>12. CASE t[i] \in {"quote", "c"}
  BY <1>1, <1>3, <1>4, <1>5, <1>6, <1>7, <1>8, <1>9, <1>12 DEF Counted
<1> QED BY <1>0, <1>10, <1>11, <1>12 DEF JsonChars

\* Up to the first end of an object, balanced_span sees the same ends.
LEMMA SameEnds ==
    ASSUME NEW t \in Seq(JsonChars), NEW num, Braces(t, num), NoStrayClose(t),
           NEW i \in 1 .. Len(t), \A j \in 1 .. i - 1 : j \notin Balanced(t)
    PROVE  i \in Balanced(t) <=> i \in SpanEnds(t, num)
<1> DEFINE T == {k \in 0 .. i - 1 : ~Depth(t, k, num)}
<1>0. Len(t) \in Nat /\ i \in Nat /\ i > 0 /\ 0 \notin Balanced(t)
  BY LenProperties DEF Balanced
<1>1. ASSUME T # {}
      PROVE  FALSE
  <2>1. T \in SUBSET Nat
    BY <1>0
  <2>2. PICK k \in T : \A y \in T : k <= y
    BY <1>1, <2>1, Least
  <2>3. k \in 0 .. i - 1 /\ ~Depth(t, k, num)
    BY <2>2
  <2>4. Depth(t, 0, num)
    <3>1. Count(t, 0, "open") = 0 /\ Count(t, 0, "close") = 0
      BY Counting
    <3>2. num[0] = -1
      BY DEF Braces
    <3> QED BY <3>1, <3>2 DEF Depth
  <2>5. k \in 1 .. Len(t) /\ k - 1 \in 0 .. i - 1 /\ k - 1 \notin T /\ k - 1 \notin Balanced(t)
    <3>1. k # 0
      BY <2>3, <2>4
    <3>2. k \in 1 .. Len(t) /\ k - 1 \in 0 .. i - 1
      BY <1>0, <2>3, <3>1
    <3>3. ~(k <= k - 1)
      BY <3>2
    <3>4. k - 1 \notin T
      BY <2>2, <3>3
    <3>5. k - 1 = 0 \/ k - 1 \in 1 .. i - 1
      BY <3>2
    <3> QED BY <1>0, <3>2, <3>4, <3>5
  <2>6. Depth(t, k - 1, num)
    BY <2>5
  <2>7. Depth(t, k, num)
    BY <2>5, <2>6, DepthStep
  <2> QED BY <2>3, <2>7
<1>2. i - 1 \in 0 .. i - 1 /\ (i - 1 = 0 \/ i - 1 \in 1 .. i - 1)
  BY <1>0
<1>3. Depth(t, i - 1, num) /\ i - 1 \notin Balanced(t)
  BY <1>0, <1>1, <1>2
<1> QED BY <1>3, DepthStep

\* SpanFound holds of every text.
LEMMA SpanIsFound == TextOK => SpanFound
<1> SUFFICES ASSUME TextOK, grammar = "json", NoStray(text),
                    \A i \in 1 .. Len(text) :
                       InString(text, i) => text[i] \notin {"open", "close"}
             PROVE  balanced_span(text) = ObjectEnd(text)
  BY DEF SpanFound
<1>1. text \in Seq(JsonChars) /\ Len(text) \in Nat
  BY Grammars, LenProperties
<1>7. ASSUME NEW c \in {"open", "close"}, NEW i \in 1 .. Len(text)
      PROVE  Outside(text, i, c) = Count(text, i, c)
  <2>1. {j \in 1 .. i : text[j] = c /\ ~InString(text, j)} = {j \in 1 .. i : text[j] = c}
    <3>1. \A j \in 1 .. i : j \in 1 .. Len(text)
      BY <1>1
    <3> QED BY <3>1
  <2> QED BY <2>1 DEF Outside, Count
<1>8. NoStrayClose(text)
  BY <1>7 DEF NoStray, NoStrayClose
<1>9. ObjectEnd(text) = IF Balanced(text) = {} THEN -1 ELSE Min(Balanced(text))
  <2>1. {i \in 1 .. Len(text) : /\ Outside(text, i, "open") > 0
                                /\ Outside(text, i, "open") = Outside(text, i, "close")}
        = Balanced(text)
    BY <1>7 DEF Balanced
  <2> QED BY <2>1 DEF ObjectEnd
<1>2. PICK num : /\ Braces(text, num)
                 /\ balanced_span(text) = IF SpanEnds(text, num) = {} THEN -1
                                          ELSE Min(SpanEnds(text, num))
  BY <1>1, SpanLoop
<1> DEFINE B == Balanced(text)
           E == SpanEnds(text, num)
<1>3. B \in SUBSET Nat /\ B \subseteq 1 .. Len(text) /\ E \subseteq 1 .. Len(text)
  BY <1>1 DEF Balanced, SpanEnds
<1>4. \A i \in 1 .. Len(text) :
         (\A j \in 1 .. i - 1 : j \notin B) => (i \in B <=> i \in E)
  BY <1>1, <1>2, <1>8, SameEnds
<1> HIDE DEF B, E
<1>5. CASE B = {}
  <2>1. E = {}
    BY <1>3, <1>4, <1>5
  <2> QED BY <1>2, <1>5, <1>9, <2>1 DEF B, E
<1>6. CASE B # {}
  <2> DEFINE m == Min(B)
             e == Min(E)
  <2>1. m \in B /\ \A y \in B : m <= y
    BY <1>3, <1>6, Least
  <2> HIDE DEF m
  <2>2. m \in Nat /\ m \in 1 .. Len(text)
    BY <1>3, <2>1
  <2>3. ASSUME NEW j \in 1 .. m - 1
        PROVE  j \notin B
    <3>1. ~(m <= j)
      BY <2>2
    <3> QED BY <2>1, <3>1
  <2>4. m \in E
    BY <1>4, <2>1, <2>2, <2>3
  <2>5. E \in SUBSET Nat
    BY <1>1, <1>3
  <2>6. e \in E /\ \A y \in E : e <= y
    BY <2>4, <2>5, Least
  <2> HIDE DEF e
  <2>7. e = m
    <3>1. e \in 1 .. Len(text) /\ e <= m
      BY <1>3, <2>4, <2>6
    <3>2. \A j \in 1 .. e - 1 : j \in 1 .. m - 1
      BY <1>1, <2>2, <3>1
    <3>3. e \in B
      BY <1>4, <2>3, <2>6, <3>1, <3>2
    <3>4. m <= e
      BY <2>1, <3>3
    <3> QED BY <1>1, <2>2, <3>1, <3>4
  <2> QED BY <1>2, <1>6, <1>9, <2>4, <2>7 DEF B, E, m, e
<1> QED BY <1>5, <1>6 DEF B

-----------------------------------------------------------------------------
(* Lists of words                                                          *)

\* The length of the element at i, and is the word found in it?
TokLen(t, i) == IF i > Len(t) THEN 0 ELSE http_field_value_tok(t, i)
Hit(t, i) == has_upgrade(t, i, TokLen(t, i))

\* An element begins at k if the search begins at i.
Begins(t, i, k) == k = i \/ t[k - 1] = "comma"

\* The word is found from i on: in an element in front of which none is empty.
Finds(t, i) ==
    \E k \in i .. Len(t) : /\ Begins(t, i, k) /\ t[k] # "comma" /\ Hit(t, k)
                           /\ \A j \in i .. k - 1 : ~(Begins(t, i, j) /\ t[j] = "comma")

\* http_field_value_tok measures up to the next comma, or the end.
LEMMA TokIs ==
    ASSUME NEW t \in Seq(ListChars), NEW i \in 1 .. Len(t) + 2
    PROVE  LET n == TokLen(t, i)
           IN  /\ n \in Nat
               /\ n > 0 <=> i <= Len(t) /\ t[i] # "comma"
               /\ n > 0 => /\ i + n <= Len(t) + 1
                           /\ i + n = Len(t) + 1 \/ t[i + n] = "comma"
                           /\ \A h \in i .. i + n - 1 : t[h] # "comma"
<1> DEFINE s == Scan(t, i, {"comma"})
<1>0. Len(t) \in Nat /\ i \in Nat \ {0}
  BY LenProperties
<1>1. /\ s \in Nat
      /\ s = Len(t) + 1 \/ (s \in i .. Len(t) /\ t[s] \in {"comma"})
      /\ \A h \in i .. Len(t) : h < s => t[h] \notin {"comma"}
  BY <1>0, ScanFirst
<1>2. TokLen(t, i) = IF i > Len(t) THEN 0 ELSE s - i
  BY DEF TokLen, http_field_value_tok
<1> HIDE DEF s
<1>3. CASE i > Len(t)
  BY <1>0, <1>2, <1>3
<1>4. CASE i <= Len(t)
  <2>1. i \in i .. Len(t) /\ i <= s /\ s <= Len(t) + 1
    BY <1>0, <1>1, <1>4
  <2>2. TokLen(t, i) = s - i /\ s - i \in Nat /\ i + (s - i) = s
    BY <1>0, <1>1, <1>2, <1>4, <2>1
  <2>3. s - i > 0 <=> t[i] # "comma"
    BY <1>0, <1>1, <1>4, <2>1
  <2>4. \A h \in i .. s - 1 : t[h] # "comma"
    BY <1>0, <1>1, <2>1
  <2>5. s = Len(t) + 1 \/ t[s] = "comma"
    BY <1>1
  <2> QED BY <1>4, <2>1, <2>2, <2>3, <2>4, <2>5
<1> QED BY <1>0, <1>3, <1>4

\* The search goes from an element to the next, and ends at one that is empty.
LEMMA FindsStep ==
    ASSUME NEW t \in Seq(ListChars), NEW i \in 1 .. Len(t) + 2
    PROVE  Finds(t, i) <=> /\ TokLen(t, i) > 0
                           /\ Hit(t, i) \/ Finds(t, i + TokLen(t, i) + 1)
<1> DEFINE n == TokLen(t, i)
           L == Len(t)
           b == i + n
<1>0. L \in Nat /\ i \in Nat \ {0} /\ i <= L + 2
  BY LenProperties
<1>1. /\ n \in Nat
      /\ n > 0 <=> i <= L /\ t[i] # "comma"
      /\ n > 0 => /\ b <= L + 1
                  /\ b = L + 1 \/ t[b] = "comma"
                  /\ \A h \in i .. b - 1 : t[h] # "comma"
  BY TokIs
<1> HIDE DEF n, L
<1>2. ASSUME Finds(t, i)
      PROVE  n > 0 /\ (Hit(t, i) \/ Finds(t, b + 1))
  <2>1. PICK k \in i .. L :
           /\ Begins(t, i, k) /\ t[k] # "comma" /\ Hit(t, k)
           /\ \A j \in i .. k - 1 : ~(Begins(t, i, j) /\ t[j] = "comma")
    BY <1>2 DEF Finds, L
  <2>2. Begins(t, i, i)
    BY DEF Begins
  <2>3. n > 0
    <3>1. i <= L
      BY <1>0, <2>1
    <3>2. k = i \/ i \in i .. k - 1
      BY <1>0, <2>1
    <3>3. t[i] # "comma"
      BY <2>1, <2>2, <3>2
    <3> QED BY <1>1, <3>1, <3>3
  <2>4. CASE k = i
    BY <2>1, <2>3, <2>4
  <2>5. CASE k # i
    <3>1. t[k - 1] = "comma" /\ k - 1 \in Nat /\ k \in Nat /\ k - 1 >= i
      BY <1>0, <2>1, <2>5 DEF Begins
    <3>2. k - 1 >= b
      BY <1>0, <1>1, <2>3, <3>1
    <3>3. b <= L /\ t[b] = "comma" /\ k \in b + 1 .. L
      BY <1>0, <1>1, <2>1, <2>3, <3>1, <3>2
    <3>4. Begins(t, b + 1, k)
      BY <3>1 DEF Begins
    <3>5. ASSUME NEW j \in b + 1 .. k - 1, Begins(t, b + 1, j)
          PROVE  t[j] # "comma"
      <4>1. j \in i .. k - 1
        BY <1>0, <1>1, <3>1
      <4>2. (b + 1) - 1 = b
        BY <1>0, <1>1
      <4>3. Begins(t, i, j)
        BY <3>3, <3>5, <4>2 DEF Begins
      <4> QED BY <2>1, <4>1, <4>3
    <3>6. Finds(t, b + 1)
      BY <2>1, <3>3, <3>4, <3>5 DEF Finds, L
    <3> QED BY <2>3, <3>6
  <2> QED BY <2>4, <2>5
<1>3. ASSUME n > 0, Hit(t, i)
      PROVE  Finds(t, i)
  <2>1. i \in i .. L /\ t[i] # "comma" /\ i .. i - 1 = {}
    BY <1>0, <1>1, <1>3
  <2>2. Begins(t, i, i)
    BY DEF Begins
  <2> QED BY <1>3, <2>1, <2>2 DEF Finds, L
<1>4. ASSUME n > 0, Finds(t, b + 1)
      PROVE  Finds(t, i)
  <2>1. PICK k \in b + 1 .. L :
           /\ Begins(t, b + 1, k) /\ t[k] # "comma" /\ Hit(t, k)
           /\ \A j \in b + 1 .. k - 1 : ~(Begins(t, b + 1, j) /\ t[j] = "comma")
    BY <1>4 DEF Finds, L
  <2>2. b <= L /\ t[b] = "comma" /\ b \in Nat /\ k \in Nat /\ k \in i .. L /\ b > i
    BY <1>0, <1>1, <1>4, <2>1
  <2>3. (b + 1) - 1 = b
    BY <2>2
  <2>4. Begins(t, i, k)
    BY <2>1, <2>2, <2>3 DEF Begins
  <2>5. ASSUME NEW j \in i .. k - 1, Begins(t, i, j)
        PROVE  t[j] # "comma"
    <3>1. CASE j < b
      <4>1. j \in i .. b - 1
        BY <1>0, <2>2, <3>1
      <4> QED BY <1>1, <1>4, <4>1
    <3>2. CASE j = b
      <4>1. j # i /\ j - 1 \in i .. b - 1
        BY <1>0, <2>2, <3>2
      <4>2. t[j - 1] = "comma"
        BY <2>5, <4>1 DEF Begins
      <4> QED BY <1>1, <1>4, <4>1, <4>2
    <3>3. CASE j > b
      <4>1. j \in b + 1 .. k - 1 /\ j # i
        BY <1>0, <2>2, <3>3
      <4>2. Begins(t, b + 1, j)
        BY <2>5, <4>1 DEF Begins
      <4> QED BY <2>1, <4>1, <4>2
    <3> QED BY <1>0, <2>2, <3>1, <3>2, <3>3
  <2> QED BY <2>1, <2>2, <2>4, <2>5 DEF Finds, L
<1> QED BY <1>2, <1>3, <1>4 DEF n

\* f satisfies the recursion of tokenise_connection.
Searches(t, f) ==
    \A i \in 1 .. Len(t) + 2 :
        f[i] <=> TokLen(t, i) > 0 /\ (Hit(t, i) \/ f[i + TokLen(t, i) + 1])

\* It has only one solution.
LEMMA SearchesOne ==
    ASSUME NEW t \in Seq(ListChars), NEW f, NEW g, Searches(t, f), Searches(t, g)
    PROVE  f[1] <=> g[1]
<1> DEFINE L == Len(t)
           T == {m \in 0 .. L + 1 : ~(f[L + 2 - m] <=> g[L + 2 - m])}
<1>0. L \in Nat
  BY LenProperties
<1>1. ASSUME T # {}
      PROVE  FALSE
  <2>1. T \in SUBSET Nat
    BY <1>0
  <2>2. PICK m \in T : \A y \in T : m <= y
    BY <1>1, <2>1, Least
  <2> DEFINE i == L + 2 - m
             n == TokLen(t, i)
  <2>3. m \in 0 .. L + 1 /\ ~(f[i] <=> g[i]) /\ i \in 1 .. L + 2
    BY <1>0, <2>2
  <2>4. /\ f[i] <=> n > 0 /\ (Hit(t, i) \/ f[i + n + 1])
        /\ g[i] <=> n > 0 /\ (Hit(t, i) \/ g[i + n + 1])
    BY <2>3 DEF Searches
  <2>5. n \in Nat /\ (n > 0 => i + n <= L + 1)
    BY <2>3, TokIs
  <2> HIDE DEF n
  <2>6. CASE n > 0
    <3>1. m - n - 1 \in 0 .. L + 1 /\ L + 2 - (m - n - 1) = i + n + 1 /\ ~(m <= m - n - 1)
      BY <1>0, <2>3, <2>5, <2>6
    <3>2. m - n - 1 \notin T
      BY <2>2, <3>1
    <3>3. f[i + n + 1] <=> g[i + n + 1]
      BY <3>1, <3>2
    <3> QED BY <2>3, <2>4, <3>3
  <2>7. CASE ~(n > 0)
    BY <2>3, <2>4, <2>7
  <2> QED BY <2>6, <2>7
<1>2. L + 1 \in 0 .. L + 1 /\ L + 2 - (L + 1) = 1
  BY <1>0
<1>3. L + 1 \notin T
  BY <1>1
<1> QED BY <1>2, <1>3

\* The recursion of tokenise_connection has a solution: Finds.
LEMMA SearchLoop ==
    ASSUME NEW t \in Seq(ListChars)
    PROVE  tokenise_connection(t) <=> Finds(t, 1)
<1> DEFINE D == 1 .. Len(t) + 2
           F(f) == [i \in D |->
                       LET n == IF i > Len(t) THEN 0 ELSE http_field_value_tok(t, i)
                       IN  n > 0 /\ (has_upgrade(t, i, n) \/ f[i + n + 1])]
           G(f) == [i \in D |-> TokLen(t, i) > 0 /\ (Hit(t, i) \/ f[i + TokLen(t, i) + 1])]
           found == CHOOSE f : f = F(f)
           g == [i \in D |-> Finds(t, i)]
<1>0. Len(t) \in Nat /\ 1 \in D
  BY LenProperties
<1>1. tokenise_connection(t) = found[1]
  BY DEF tokenise_connection
<1>2. \A f : F(f) = G(f)
  BY DEF TokLen, Hit
<1>3. ASSUME NEW i \in D
      PROVE  Finds(t, i) <=> TokLen(t, i) > 0 /\ (Hit(t, i) \/ g[i + TokLen(t, i) + 1])
  <2> DEFINE n == TokLen(t, i)
  <2>1. n \in Nat /\ (n > 0 => i + n <= Len(t) + 1)
    BY TokIs
  <2>2. Finds(t, i) <=> n > 0 /\ (Hit(t, i) \/ Finds(t, i + n + 1))
    BY FindsStep
  <2> HIDE DEF n
  <2>3. n > 0 => i + n + 1 \in D
    BY <1>0, <2>1
  <2>4. n > 0 => g[i + n + 1] = Finds(t, i + n + 1)
    BY <2>3
  <2>5. Finds(t, i) <=> n > 0 /\ (Hit(t, i) \/ g[i + n + 1])
    BY <2>2, <2>4
  <2> QED BY <2>5 DEF n
<1>4. Searches(t, g)
  <2>1. \A i \in D : g[i] = Finds(t, i)
    OBVIOUS
  <2> HIDE DEF g
  <2> QED BY <1>3, <2>1 DEF Searches
<1>5. g = G(g)
  <2>1. ASSUME NEW i \in D
        PROVE  Finds(t, i) = (TokLen(t, i) > 0 /\ (Hit(t, i) \/ g[i + TokLen(t, i) + 1]))
    <3>1. Finds(t, i) \in BOOLEAN
      BY DEF Finds
    <3> HIDE DEF g
    <3> QED BY <1>3, <3>1
  <2> QED BY <2>1
<1>6. found = G(found)
  <2>1. \E f : f = F(f)
    BY <1>2, <1>5
  <2>2. found = F(found)
    BY <2>1
  <2> QED BY <1>2, <2>2
<1> HIDE DEF found, g
<1>7. Searches(t, found)
  <2>1. ASSUME NEW i \in D
        PROVE  found[i] <=> TokLen(t, i) > 0 /\ (Hit(t, i) \/ found[i + TokLen(t, i) + 1])
    <3>1. G(found)[i] = (TokLen(t, i) > 0 /\ (Hit(t, i) \/ found[i + TokLen(t, i) + 1]))
      OBVIOUS
    <3> HIDE DEF G
    <3> QED BY <1>6, <3>1
  <2> QED BY <2>1 DEF Searches
<1>8. found[1] <=> g[1]
  BY <1>4, <1>7, SearchesOne
<1>9. g[1] <=> Finds(t, 1)
  BY <1>0 DEF g
<1> QED BY <1>1, <1>8, <1>9

\* The word is in front of the element a .. b - 1.
WordFirst(t, a, b) ==
    \E i \in a .. b - 1 : t[i] = "U" /\ \A j \in a .. i - 1 : Blank(t[j])

\* trim finds it, if there are not more blanks than it can skip.
LEMMA HitIs ==
    ASSUME NEW t \in Seq(ListChars), NEW a \in 1 .. Len(t), NEW n \in Nat,
           n > 0, a + n <= Len(t) + 1,
           Blank(t[a]) => /\ a + 2 < a + n
                          /\ ~Blank(t[a + 1]) /\ ~Blank(t[a + 2])
    PROVE  has_upgrade(t, a, n) <=> WordFirst(t, a, a + n)
<1> DEFINE K == {j \in 0 .. n : j = n \/ ~Blank(At(t, a + 2 * j))}
           k == Min(K)
<1>0. Len(t) \in Nat /\ a \in Nat /\ a > 0
  BY LenProperties
<1>1. has_upgrade(t, a, n) <=> At(t, a + k) = "U"
  BY DEF has_upgrade, trim
<1>2. K \in SUBSET Nat /\ n \in K
  OBVIOUS
<1>3. \A j : j \in K <=> j \in 0 .. n /\ (j = n \/ ~Blank(At(t, a + 2 * j)))
  OBVIOUS
<1> HIDE DEF K
<1>4. k \in K /\ \A y \in K : k <= y
  BY <1>2, Least
<1> HIDE DEF k
<1>5. CASE ~Blank(t[a])
  <2>1. At(t, a) = t[a] /\ a + 2 * 0 = a
    BY <1>0 DEF At
  <2>2. 0 \in K
    BY <1>3, <1>5, <2>1
  <2>3. k \in Nat /\ k <= 0
    BY <1>2, <1>4, <2>2
  <2>4. a + k = a
    BY <1>0, <2>3
  <2>5. has_upgrade(t, a, n) <=> t[a] = "U"
    BY <1>1, <2>1, <2>4
  <2>6. a \in a .. a + n - 1 /\ a .. a - 1 = {}
    BY <1>0
  <2>7. ASSUME WordFirst(t, a, a + n)
        PROVE  t[a] = "U"
    <3>1. PICK i \in a .. a + n - 1 : t[i] = "U" /\ \A j \in a .. i - 1 : Blank(t[j])
      BY <2>7 DEF WordFirst
    <3>2. i = a \/ a \in a .. i - 1
      BY <1>0, <3>1
    <3> QED BY <1>5, <3>1, <3>2
  <2>8. ASSUME t[a] = "U"
        PROVE  WordFirst(t, a, a + n)
    BY <2>6, <2>8 DEF WordFirst
  <2> QED BY <2>5, <2>7, <2>8
<1>6. CASE Blank(t[a])
  <2>0. n > 2 /\ a + 2 <= Len(t) /\ ~Blank(t[a + 1]) /\ ~Blank(t[a + 2])
    BY <1>0, <1>6
  <2>1. /\ At(t, a) = t[a] /\ At(t, a + 1) = t[a + 1] /\ At(t, a + 2) = t[a + 2]
        /\ a + 2 * 0 = a /\ a + 2 * 1 = a + 2
    BY <1>0, <2>0 DEF At
  <2>2. 1 \in K /\ 0 \notin K
    BY <1>3, <1>6, <2>0, <2>1
  <2>3. k \in Nat /\ k <= 1 /\ k # 0
    BY <1>2, <1>4, <2>2
  <2>4. k = 1
    BY <2>3
  <2>5. has_upgrade(t, a, n) <=> t[a + 1] = "U"
    BY <1>1, <2>1, <2>4
  <2>6. a + 1 \in a .. a + n - 1 /\ a .. (a + 1) - 1 = {a}
    BY <1>0, <2>0
  <2>7. ASSUME WordFirst(t, a, a + n)
        PROVE  t[a + 1] = "U"
    <3>1. PICK i \in a .. a + n - 1 : t[i] = "U" /\ \A j \in a .. i - 1 : Blank(t[j])
      BY <2>7 DEF WordFirst
    <3>2. i # a
      BY <1>6, <3>1 DEF Blank
    <3>3. i = a + 1 \/ a + 1 \in a .. i - 1
      BY <1>0, <3>1, <3>2
    <3> QED BY <2>0, <3>1, <3>3
  <2>8. ASSUME t[a + 1] = "U"
        PROVE  WordFirst(t, a, a + n)
    BY <1>6, <2>6, <2>8 DEF WordFirst
  <2> QED BY <2>5, <2>7, <2>8
<1> QED BY <1>5, <1>6

\* The element that begins at a.
LEMMA ElementAt ==
    ASSUME NEW t \in Seq(ListChars), NEW a \in 1 .. Len(t), Begins(t, 1, a)
    PROVE  IF t[a] = "comma" THEN <<a, a>> \in Elements(t)
           ELSE <<a, a + TokLen(t, a)>> \in Elements(t)
<1> DEFINE n == TokLen(t, a)
           b == IF t[a] = "comma" THEN a ELSE a + n
<1>0. Len(t) \in Nat /\ a \in Nat \ {0} /\ a \in 1 .. Len(t) + 2
  BY LenProperties
<1>1. /\ n \in Nat
      /\ n > 0 <=> a <= Len(t) /\ t[a] # "comma"
      /\ n > 0 => /\ a + n <= Len(t) + 1
                  /\ a + n = Len(t) + 1 \/ t[a + n] = "comma"
                  /\ \A h \in a .. a + n - 1 : t[h] # "comma"
  BY <1>0, TokIs
<1> HIDE DEF n
<1>2. /\ b \in 1 .. Len(t) + 1 /\ a <= b
      /\ b = Len(t) + 1 \/ t[b] = "comma"
      /\ \A h \in a .. b - 1 : t[h] # "comma"
  BY <1>0, <1>1
<1> HIDE DEF b
<1>3. At(t, b) \in {"comma", "end"}
  BY <1>0, <1>2 DEF At
<1>4. "comma" \notin Chars(Part(t, a, b))
  BY <1>0, <1>2, PartChars
<1>5. <<a, b>> \in Elements(t)
  BY <1>0, <1>2, <1>3, <1>4 DEF Elements, Begins
<1> QED BY <1>5 DEF b, n

\* The only one, unless it is empty.
LEMMA ElementIs ==
    ASSUME NEW t \in Seq(ListChars), NEW x \in Elements(t), x[1] < x[2]
    PROVE  /\ x[1] \in 1 .. Len(t) /\ Begins(t, 1, x[1]) /\ t[x[1]] # "comma"
           /\ x[2] = x[1] + TokLen(t, x[1])
<1> DEFINE a == x[1]
           b == x[2]
           n == TokLen(t, a)
<1>1. /\ a \in 1 .. Len(t) + 1 /\ b \in 1 .. Len(t) + 1
      /\ a = 1 \/ t[a - 1] = "comma"
      /\ At(t, b) \in {"comma", "end"}
      /\ "comma" \notin Chars(Part(t, a, b))
  BY DEF Elements
<1>2. a < b
  OBVIOUS
<1> HIDE DEF a, b
<1>0. Len(t) \in Nat /\ a \in Nat \ {0} /\ a \in 1 .. Len(t) + 2 /\ a \in 1 .. Len(t)
  BY <1>1, <1>2, LenProperties
<1>3. \A h \in a .. b - 1 : t[h] # "comma"
  BY <1>0, <1>1, PartChars
<1>4. /\ n \in Nat
      /\ n > 0 <=> a <= Len(t) /\ t[a] # "comma"
      /\ n > 0 => /\ a + n <= Len(t) + 1
                  /\ a + n = Len(t) + 1 \/ t[a + n] = "comma"
                  /\ \A h \in a .. a + n - 1 : t[h] # "comma"
  BY <1>0, TokIs
<1> HIDE DEF n
<1>5. t[a] # "comma"
  BY <1>0, <1>1, <1>2, <1>3
<1>6. b = Len(t) + 1 \/ t[b] = "comma"
  <2>1. b \in 1 .. Len(t) => t[b] \in ListChars /\ At(t, b) = t[b]
    BY <1>0, ElementOfSeq DEF At
  <2> QED BY <1>0, <1>1, <2>1 DEF ListChars
<1>7. ~(b < a + n) /\ ~(a + n < b)
  BY <1>0, <1>1, <1>2, <1>3, <1>4, <1>5, <1>6
<1>8. b = a + n
  BY <1>0, <1>1, <1>4, <1>7
<1> QED BY <1>0, <1>1, <1>5, <1>8 DEF a, b, n, Begins

\* ListSearched holds of every text.
LEMMA ListIsSearched == TextOK => ListSearched
<1> SUFFICES ASSUME TextOK, grammar = "list", WellFormed(text)
             PROVE  tokenise_connection(text)
                    <=> \E x \in Elements(text) : WordFirst(text, x[1], x[2])
  BY DEF ListSearched, WordFirst
<1>1. text \in Seq(ListChars) /\ Len(text) \in Nat
  BY Grammars, LenProperties
<1>2. tokenise_connection(text) <=> Finds(text, 1)
  BY <1>1, SearchLoop
<1>3. ASSUME NEW a \in 1 .. Len(text), Begins(text, 1, a)
      PROVE  /\ text[a] # "comma"
             /\ <<a, a + TokLen(text, a)>> \in Elements(text)
             /\ Hit(text, a) <=> WordFirst(text, a, a + TokLen(text, a))
  <2> DEFINE n == TokLen(text, a)
  <2>1. a \in Nat /\ ~(a < a) /\ a \in 1 .. Len(text) + 2
    BY <1>1
  <2>2. text[a] # "comma"
    <3>1. ASSUME <<a, a>> \in Elements(text)
          PROVE  FALSE
      <4>1. <<a, a>>[1] < <<a, a>>[2]
        BY <3>1 DEF WellFormed
      <4> QED BY <2>1, <4>1
    <3> QED BY <1>1, <1>3, <3>1, ElementAt
  <2>3. <<a, a + n>> \in Elements(text)
    BY <1>1, <1>3, <2>2, ElementAt
  <2>4. n \in Nat /\ n > 0 /\ a + n <= Len(text) + 1
    BY <1>1, <2>1, <2>2, TokIs
  <2> HIDE DEF n
  <2>5. Blank(text[a]) => /\ a + 2 < a + n
                          /\ ~Blank(text[a + 1]) /\ ~Blank(text[a + 2])
    <3>1. <<a, a + n>>[1] = a /\ <<a, a + n>>[2] = a + n
      OBVIOUS
    <3> QED BY <2>3, <3>1 DEF WellFormed
  <2>6. has_upgrade(text, a, n) <=> WordFirst(text, a, a + n)
    BY <1>1, <2>4, <2>5, HitIs
  <2> QED BY <2>2, <2>3, <2>6 DEF Hit, n
<1>4. ASSUME Finds(text, 1)
      PROVE  \E x \in Elements(text) : WordFirst(text, x[1], x[2])
  <2>1. PICK k \in 1 .. Len(text) : Begins(text, 1, k) /\ Hit(text, k)
    BY <1>4 DEF Finds
  <2> DEFINE x == <<k, k + TokLen(text, k)>>
  <2>2. x \in Elements(text) /\ WordFirst(text, k, k + TokLen(text, k))
    BY <1>3, <2>1
  <2>3. x[1] = k /\ x[2] = k + TokLen(text, k)
    OBVIOUS
  <2> HIDE DEF x
  <2> QED BY <2>2, <2>3
<1>5. ASSUME NEW x \in Elements(text), WordFirst(text, x[1], x[2])
      PROVE  Finds(text, 1)
  <2> DEFINE a == x[1]
  <2>1. x[1] < x[2]
    BY DEF WellFormed
  <2>2. a \in 1 .. Len(text) /\ Begins(text, 1, a) /\ x[2] = a + TokLen(text, a)
    BY <1>1, <2>1, ElementIs
  <2>3. WordFirst(text, a, a + TokLen(text, a))
    BY <1>5, <2>2
  <2> HIDE DEF a
  <2>4. text[a] # "comma" /\ Hit(text, a)
    BY <1>3, <2>2, <2>3
  <2>5. \A j \in 1 .. a - 1 : ~(Begins(text, 1, j) /\ text[j] = "comma")
    <3>1. \A j \in 1 .. a - 1 : j \in 1 .. Len(text)
      BY <1>1, <2>2
    <3> QED BY <1>3, <3>1
  <2> QED BY <2>2, <2>4, <2>5 DEF Finds
<1> QED BY <1>2, <1>4, <1>5

-----------------------------------------------------------------------------
(* Theorems                                                                *)

\* parse_uri accepts every scheme "://" host [":" port] [path ["?" query]
\* ["#" fragment]] and finds the parts, and nothing else but what has a "?" or a "#"
\* in its authority, for texts of every length.
THEOREM UriParsedProved == Spec => []UriParsed
  BY TextInv, UriIsParsed, PTL

\* parse_request_line and is_valid_req_line accept exactly the request lines, of
\* every length, that RequestLineParsed describes.
THEOREM RequestLineParsedProved == Spec => []RequestLineParsed
  BY TextInv, RequestParsed, PTL

\* tokenise_connection and trim find the word in every well-formed list of words
\* that has it, however long, and in no other.
THEOREM ListSearchedProved == Spec => []ListSearched
  BY TextInv, ListIsSearched, PTL

\* balanced_span returns the end of the object in front, for input of every length
\* and depth without a stray closing brace and without braces in strings.
THEOREM SpanFoundProved == Spec => []SpanFound
  BY TextInv, SpanIsFound, PTL

\* The loop of http_recv over parse_header_field accepts any number of fields in
\* any order if they are plain and the needed ones are there, with a value, and none
\* without the needed values in fields whose names begin as theirs.
THEOREM FieldsFoundProved == Spec => []FieldsFound
  BY FieldsInv, FieldsAreFound, PTL

=============================================================================
