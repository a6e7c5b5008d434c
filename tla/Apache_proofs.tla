----------------------------- MODULE Apache_proofs -----------------------------
(***************************************************************************)
(* Proofs about the two sides of the server: the apache module's query()   *)
(* (ApacheRequest, RequestData) and the handler of mod_ferite (ModFerite). *)
(*                                                                         *)
(* query().  For any characters, lists of pairs and forms, and for a body  *)
(* cut at any byte, what the decoder and the multipart parser make of the  *)
(* text is known.  It rests on SequenceFacts: a flattened sequence is laid *)
(* out piece by piece (Joins), and a loop of the program, a function on    *)
(* Nat, visits the places a step function leads it to (Iterates).  Here    *)
(* comes first what a whole text of pairs gives, and one cut between two   *)
(* characters or inside a "%xx" (QueryOfText), then what a whole body      *)
(* gives, and one cut between two tokens or inside one (QueryOfForm).  The *)
(* invariant that ties them to the objects of a script is RequestInv.      *)
(*                                                                         *)
(* mod_ferite.  For any directives, however many, and any number of        *)
(* requests, a script sees the configuration of its own section, a request *)
(* is answered by what it asks for and its section alone, and what a       *)
(* process carries on comes from the requests that the code says.  The     *)
(* three properties speak of moments of a request.  What leads there: a    *)
(* section's ModFeriteConfig says what its directives said (ConfRight),    *)
(* and at each point of the handler it is known which answers are still    *)
(* possible (RequestRight).                                                *)
(***************************************************************************)
EXTENDS ApacheRequest, ModFerite, SequenceFacts, TLAPS
-----------------------------------------------------------------------------
(* Places in a sequence                                                    *)


LEMMA ConcatFacts ==
    ASSUME NEW X, NEW x \in Seq(X), NEW y \in Seq(X), NEW z, z = x \o y
    PROVE  /\ z \in Seq(X) /\ Len(x) \in Nat /\ Len(y) \in Nat /\ Len(z) = Len(x) + Len(y)
           /\ \A i \in 1 .. Len(x) : z[i] = x[i]
           /\ \A i \in 1 .. Len(y) : z[Len(x) + i] = y[i]
  OBVIOUS

LEMMA AppendFacts ==
    ASSUME NEW X, NEW x \in Seq(X), NEW y \in X, NEW z, z = x \o <<y>>, NEW l, l = Len(x)
    PROVE  /\ z \in Seq(X) /\ l \in Nat /\ Len(z) = l + 1 /\ z[l + 1] = y
           /\ \A i \in 1 .. l : z[i] = x[i]
<1>1. /\ x \o <<y>> \in Seq(X) /\ Len(x) \in Nat /\ Len(x \o <<y>>) = Len(x) + 1
      /\ (x \o <<y>>)[Len(x) + 1] = y /\ \A i \in 1 .. Len(x) : (x \o <<y>>)[i] = x[i]
  OBVIOUS
<1> QED
  BY <1>1


LEMMA NextRight ==
    ASSUME NEW C, NEW b \in Seq(C), NEW i \in Nat \ {0}, NEW tok
    PROVE  \/ NextOf(b, i, tok) = 0 /\ \A m \in i .. Len(b) : b[m] # tok
           \/ /\ NextOf(b, i, tok) \in i .. Len(b) /\ b[NextOf(b, i, tok)] = tok
              /\ \A m \in i .. Len(b) : b[m] = tok => NextOf(b, i, tok) <= m
<1> DEFINE I == { m \in i .. Len(b) : b[m] = tok }
<1>1. NextOf(b, i, tok) = IF I # {} THEN Min(I) ELSE 0
  BY DEF NextOf, SelectInSubSeq
<1>2. I \subseteq Nat
  OBVIOUS
<1>3. I # {} => Min(I) \in I /\ \A y \in I : Min(I) <= y
  <2> HIDE DEF I
  <2> QED
    BY <1>2, MinIn
<1> QED
  BY <1>1, <1>3

LEMMA NextIs ==
    ASSUME NEW C, NEW b \in Seq(C), NEW i \in Nat \ {0}, NEW tok, NEW k \in i .. Len(b),
           b[k] = tok, \A m \in i .. k - 1 : b[m] # tok
    PROVE  NextOf(b, i, tok) = k
<1>1. k \in Nat /\ Len(b) \in Nat
  OBVIOUS
<1>2. NextOf(b, i, tok) \in i .. Len(b) /\ b[NextOf(b, i, tok)] = tok /\ NextOf(b, i, tok) <= k
  BY NextRight
<1> QED
  BY <1>1, <1>2

LEMMA NextNone ==
    ASSUME NEW C, NEW b \in Seq(C), NEW i \in Nat \ {0}, NEW tok,
           \A m \in i .. Len(b) : b[m] # tok
    PROVE  NextOf(b, i, tok) = 0
  BY NextRight

(* PieceEnd is the next separator, or the end.                             *)
LEMMA EndIs ==
    ASSUME NEW C, NEW t \in Seq(C), NEW i \in Nat \ {0}, NEW c, NEW k \in i .. Len(t),
           t[k] = Plain(c), \A m \in i .. k - 1 : t[m] # Plain(c)
    PROVE  PieceEnd(t, i, c) = k
<1>1. PieceEnd(t, i, c) = IF NextOf(t, i, Plain(c)) = 0 THEN Len(t) + 1 ELSE NextOf(t, i, Plain(c))
  BY DEF PieceEnd, NextOf
<1>2. NextOf(t, i, Plain(c)) = k /\ k # 0
  <2> DEFINE tok == Plain(c)
  <2>1. t[k] = tok /\ \A m \in i .. k - 1 : t[m] # tok
    OBVIOUS
  <2> HIDE DEF tok
  <2>2. NextOf(t, i, tok) = k
    BY <2>1, NextIs
  <2> QED
    BY <2>2 DEF tok
<1> QED
  BY <1>1, <1>2

LEMMA EndNone ==
    ASSUME NEW C, NEW t \in Seq(C), NEW i \in Nat \ {0}, NEW c,
           \A m \in i .. Len(t) : t[m] # Plain(c)
    PROVE  PieceEnd(t, i, c) = Len(t) + 1
<1>1. PieceEnd(t, i, c) = IF NextOf(t, i, Plain(c)) = 0 THEN Len(t) + 1 ELSE NextOf(t, i, Plain(c))
  BY DEF PieceEnd, NextOf
<1>2. NextOf(t, i, Plain(c)) = 0
  BY NextNone
<1> QED
  BY <1>1, <1>2

-----------------------------------------------------------------------------
(* Texts of pairs                                                          *)

Symbols == [c : Chars \cup {"+", "=", "&"}, esc : BOOLEAN]
PairSet == [key : Seq(Chars), val : Seq(Chars)]

LEMMA Encoded ==
    ASSUME NEW c \in Chars
    PROVE  /\ EncodeChar(c) \in Symbols /\ DecodeChar(EncodeChar(c)) = c
           /\ EncodeChar(c) # Plain("&") /\ EncodeChar(c) # Plain("=")
<1>1. CASE c = Blank
  BY <1>1 DEF EncodeChar, DecodeChar, Plain, Symbols, Blank
<1>2. CASE c # Blank /\ c \in {"&", "=", "+", "%", "/"}
  BY <1>2 DEF EncodeChar, DecodeChar, Plain, Escape, Symbols
<1>3. CASE c # Blank /\ c \notin {"&", "=", "+", "%", "/"}
  BY <1>3 DEF EncodeChar, DecodeChar, Plain, Symbols
<1> QED
  BY <1>1, <1>2, <1>3

LEMMA Separators == Plain("&") \in Symbols /\ Plain("=") \in Symbols /\ Plain("&") # Plain("=")
  BY DEF Plain, Symbols

LEMMA UrlEncoded ==
    ASSUME NEW s \in Seq(Chars)
    PROVE  /\ UrlEncode(s) \in Seq(Symbols) /\ Len(UrlEncode(s)) = Len(s)
           /\ \A i \in 1 .. Len(s) : UrlEncode(s)[i] = EncodeChar(s[i])
<1>1. DOMAIN s = 1 .. Len(s) /\ \A i \in 1 .. Len(s) : s[i] \in Chars
  OBVIOUS
<1>2. \A i \in 1 .. Len(s) : EncodeChar(s[i]) \in Symbols
  BY <1>1, Encoded
<1> DEFINE u == [i \in 1 .. Len(s) |-> EncodeChar(s[i])]
<1>3. UrlEncode(s) = u
  BY <1>1 DEF UrlEncode
<1>4. u \in Seq(Symbols) /\ Len(u) = Len(s)
  <2> HIDE DEF Symbols
  <2> QED
    BY <1>2
<1> QED
  BY <1>3, <1>4

(* What the decoder makes of the beginning of what the encoder wrote.      *)
LEMMA UrlDecoded ==
    ASSUME NEW s \in Seq(Chars), NEW n \in 0 .. Len(s), NEW u \in Seq(Symbols),
           Len(u) = n, \A i \in 1 .. n : u[i] = EncodeChar(s[i])
    PROVE  UrlDecode(u) = SubSeq(s, 1, n)
<1>1. DOMAIN u = 1 .. n
  OBVIOUS
<1>2. \A i \in 1 .. n : DecodeChar(u[i]) = s[i]
  <2> TAKE i \in 1 .. n
  <2>1. s[i] \in Chars
    OBVIOUS
  <2> QED
    BY <2>1, Encoded
<1>3. UrlDecode(u) = [i \in 1 .. n |-> s[i]]
  BY <1>1, <1>2 DEF UrlDecode
<1>4. SubSeq(s, 1, n) = [i \in 1 .. n |-> s[i]]
  OBVIOUS
<1> QED
  BY <1>3, <1>4

LEMMA PieceText ==
    ASSUME NEW p \in PairSet
    PROVE  /\ Len(p.key) \in Nat /\ Len(p.val) \in Nat
           /\ Piece(p) \in Seq(Symbols) /\ Len(Piece(p)) = Len(p.key) + 1 + Len(p.val)
           /\ \A i \in 1 .. Len(p.key) : Piece(p)[i] = EncodeChar(p.key[i])
           /\ Piece(p)[Len(p.key) + 1] = Plain("=")
           /\ \A i \in 1 .. Len(p.val) : Piece(p)[Len(p.key) + 1 + i] = EncodeChar(p.val[i])
<1> DEFINE k == Len(p.key)
           v == Len(p.val)
           a == UrlEncode(p.key)
           e == Plain("=")
           b == UrlEncode(p.val)
<1>0. p.key \in Seq(Chars) /\ p.val \in Seq(Chars)
  BY DEF PairSet
<1>1. /\ a \in Seq(Symbols) /\ Len(a) = k /\ \A i \in 1 .. k : a[i] = EncodeChar(p.key[i])
      /\ k \in Nat
  <2>1. k \in Nat
    BY <1>0
  <2> QED
    BY <1>0, <2>1, UrlEncoded
<1>2. /\ b \in Seq(Symbols) /\ Len(b) = v /\ \A i \in 1 .. v : b[i] = EncodeChar(p.val[i])
      /\ v \in Nat
  <2>1. v \in Nat
    BY <1>0
  <2> QED
    BY <1>0, <2>1, UrlEncoded
<1>3. e \in Symbols
  BY Separators
<1>4. Piece(p) = a \o <<e>> \o b
  BY DEF Piece
<1> HIDE DEF a, b, e
<1> DEFINE t == a \o <<e>> \o b
<1>5. /\ t \in Seq(Symbols) /\ Len(t) = k + 1 + v
      /\ \A i \in 1 .. k : t[i] = a[i]
      /\ t[k + 1] = e
      /\ \A i \in 1 .. v : t[k + 1 + i] = b[i]
  <2> DEFINE x == a \o <<e>>
  <2>1. /\ x \in Seq(Symbols) /\ Len(x) = k + 1 /\ x[k + 1] = e
        /\ \A i \in 1 .. k : x[i] = a[i]
    <3> SUFFICES /\ x \in Seq(Symbols) /\ Len(x) = Len(a) + 1 /\ x[Len(a) + 1] = e
                 /\ \A i \in 1 .. Len(a) : x[i] = a[i]
      BY <1>1
    <3> QED
      BY <1>1, <1>3
  <2>2. t = x \o b
    OBVIOUS
  <2> HIDE DEF x, t
  <2>3. t \in Seq(Symbols) /\ Len(t) = k + 1 + v
    <3> SUFFICES x \o b \in Seq(Symbols) /\ Len(x \o b) = Len(x) + Len(b)
      BY <1>1, <1>2, <2>1, <2>2
    <3>1. x \in Seq(Symbols) /\ b \in Seq(Symbols)
      BY <1>2, <2>1
    <3> HIDE DEF Symbols, k, v
    <3> QED
      BY <3>1
  <2>4. \A i \in 1 .. Len(x) : t[i] = x[i]
    BY <1>2, <2>1, <2>2
  <2>5. \A i \in 1 .. Len(b) : t[Len(x) + i] = b[i]
    BY <1>2, <2>1, <2>2
  <2>6. \A i \in 1 .. k : t[i] = a[i]
    BY <1>1, <2>1, <2>4
  <2>7. t[k + 1] = e
    BY <1>1, <2>1, <2>4
  <2>8. \A i \in 1 .. v : t[k + 1 + i] = b[i]
    BY <1>1, <1>2, <2>1, <2>5
  <2> QED
    BY <2>3, <2>6, <2>7, <2>8
<1> HIDE DEF t
<1>6. Piece(p) = t
  BY <1>4 DEF t
<1> QED
  BY <1>1, <1>2, <1>5, <1>6 DEF e

LEMMA PieceWhole ==
    ASSUME NEW p \in PairSet
    PROVE  \A i \in 1 .. Len(Piece(p)) : Piece(p)[i] # Plain("&")
<1> DEFINE k == Len(p.key)
           v == Len(p.val)
           b == Piece(p)
<1>1. /\ k \in Nat /\ v \in Nat /\ Len(Piece(p)) = k + 1 + v
      /\ \A i \in 1 .. k : Piece(p)[i] = EncodeChar(p.key[i])
      /\ Piece(p)[k + 1] = Plain("=")
      /\ \A i \in 1 .. v : Piece(p)[k + 1 + i] = EncodeChar(p.val[i])
  BY PieceText
<1>2. (\A i \in 1 .. k : p.key[i] \in Chars) /\ (\A i \in 1 .. v : p.val[i] \in Chars)
  BY DEF PairSet
<1> HIDE DEF k, v
<1> TAKE i \in 1 .. Len(Piece(p))
<1>3. CASE i \in 1 .. k
  BY <1>1, <1>2, <1>3, Encoded
<1>4. CASE i = k + 1
  BY <1>1, <1>4, Separators
<1>5. CASE i > k + 1
  <2>1. i - (k + 1) \in 1 .. v /\ (k + 1) + (i - (k + 1)) = i
    BY <1>1, <1>5
  <2>2. Piece(p)[(k + 1) + (i - (k + 1))] = EncodeChar(p.val[i - (k + 1)])
    BY <1>1, <2>1
  <2> QED
    BY <1>2, <2>1, <2>2, Encoded
<1> QED
  BY <1>1, <1>3, <1>4, <1>5

(* What may follow when a text was cut: nothing, or what arrived of a "%xx". *)
Stubs == {<<>>} \cup { Stub(s) : s \in Beginnings }

LEMMA StubText ==
    ASSUME NEW x \in Stubs
    PROVE  /\ x \in Seq(Symbols) /\ Len(x) \in Nat
           /\ \A i \in 1 .. Len(x) : x[i] # Plain("&") /\ x[i] # Plain("=")
           /\ UrlDecode(x) \in Seq(Chars) /\ Len(UrlDecode(x)) = Len(x)
           /\ \A i \in 1 .. Len(x) : UrlDecode(x)[i] = DecodeChar(x[i])
           /\ IF x = <<>> THEN UrlDecode(x) = <<>> ELSE UrlDecode(x) \in Beginnings
<1>1. /\ Plain("%") \in Symbols /\ Plain(Digit) \in Symbols
      /\ DecodeChar(Plain("%")) = "%" /\ DecodeChar(Plain(Digit)) = Digit
      /\ Plain("%") # Plain("&") /\ Plain("%") # Plain("=")
      /\ Plain(Digit) # Plain("&") /\ Plain(Digit) # Plain("=")
      /\ "%" \in Chars /\ Digit \in Chars
  BY CharsAssumption DEF Plain, DecodeChar, Digit, Symbols
<1> DEFINE a == Plain("%")
           d == Plain(Digit)
<1>2. x = <<>> \/ x = <<a>> \/ x = <<a, d>>
  <2>1. Stub(<<"%">>) = <<a>>
    BY DEF Stub
  <2>2. Stub(<<"%", Digit>>) = <<a, d>>
    BY DEF Stub
  <2> QED
    BY <2>1, <2>2 DEF Stubs, Beginnings
<1>3. UrlDecode(x) = [i \in 1 .. Len(x) |-> DecodeChar(x[i])]
  BY <1>2 DEF UrlDecode
<1> HIDE DEF a, d
<1>4. CASE x = <<>>
  BY <1>3, <1>4
<1>5. CASE x = <<a>>
  <2>1. /\ x \in Seq(Symbols) /\ Len(x) = 1 /\ x[1] = a /\ UrlDecode(x) = <<"%">>
    <3> HIDE DEF Symbols
    <3> QED
      BY <1>1, <1>3, <1>5 DEF a
  <2>2. x # <<>> /\ <<"%">> \in Seq(Chars)
    BY <1>1, <2>1
  <2> QED
    BY <1>1, <2>1, <2>2 DEF a, Beginnings
<1>6. CASE x = <<a, d>>
  <2>1. /\ x \in Seq(Symbols) /\ Len(x) = 2 /\ x[1] = a /\ x[2] = d /\ UrlDecode(x) = <<"%", Digit>>
    <3> HIDE DEF Symbols
    <3> QED
      BY <1>1, <1>3, <1>6 DEF a, d
  <2>2. x # <<>> /\ <<"%", Digit>> \in Seq(Chars)
    BY <1>1, <2>1
  <2> QED
    BY <1>1, <2>1, <2>2 DEF a, d, Beginnings
<1> QED
  BY <1>2, <1>4, <1>5, <1>6

(* What is left of a pair of whose text m characters arrived, and x.       *)
CutPair(p, m, x) ==
    IF m <= Len(p.key) THEN <<>>
    ELSE << [key |-> p.key, val |-> SubSeq(p.val, 1, m - Len(p.key) - 1) \o UrlDecode(x)] >>

LEMMA PairCut ==
    ASSUME NEW p \in PairSet, NEW m \in 0 .. Len(Piece(p)), NEW x \in Stubs
    PROVE  Pair(SubSeq(Piece(p), 1, m) \o x) = CutPair(p, m, x)
<1> DEFINE k == Len(p.key)
           v == Len(p.val)
           b == Piece(p)
           t == SubSeq(b, 1, m) \o x
           q == Plain("=")
           w == Len(x)
           e == PieceEnd(t, 1, "=")
<1>0. p.key \in Seq(Chars) /\ p.val \in Seq(Chars)
  BY DEF PairSet
<1>1. /\ k \in Nat /\ v \in Nat /\ b \in Seq(Symbols) /\ Len(b) = k + 1 + v
      /\ \A i \in 1 .. k : b[i] = EncodeChar(p.key[i])
      /\ b[k + 1] = q
      /\ \A i \in 1 .. v : b[k + 1 + i] = EncodeChar(p.val[i])
  BY PieceText
<1>2. \A i \in 1 .. k : b[i] # q
  <2>1. \A i \in 1 .. k : p.key[i] \in Chars
    BY <1>0
  <2> QED
    BY <1>1, <2>1, Encoded
<1>m. m \in 0 .. Len(b) /\ m \in Nat
  <2>1. m \in 0 .. Len(b)
    OBVIOUS
  <2> HIDE DEF b, k, v
  <2>2. Len(b) \in Nat
    BY <1>1
  <2> QED
    BY <2>1, <2>2
<1>x. /\ x \in Seq(Symbols) /\ w \in Nat /\ \A i \in 1 .. w : x[i] # q
      /\ UrlDecode(x) \in Seq(Chars) /\ Len(UrlDecode(x)) = w
      /\ \A i \in 1 .. w : UrlDecode(x)[i] = DecodeChar(x[i])
  BY StubText
<1>3. /\ t \in Seq(Symbols) /\ Len(t) = m + w /\ \A i \in 1 .. m : t[i] = b[i]
      /\ \A i \in 1 .. w : t[m + i] = x[i]
  <2> DEFINE S == Symbols
             z == SubSeq(b, 1, m)
  <2>1. b \in Seq(S) /\ m \in 0 .. Len(b) /\ x \in Seq(S)
    BY <1>1, <1>m, <1>x
  <2> HIDE DEF b, S
  <2>2. z \in Seq(S) /\ Len(z) = m /\ \A i \in 1 .. m : z[i] = b[i]
    BY <2>1
  <2> HIDE DEF z
  <2>3. /\ z \o x \in Seq(S) /\ Len(z \o x) = m + w /\ \A i \in 1 .. m : (z \o x)[i] = z[i]
        /\ \A i \in 1 .. w : (z \o x)[m + i] = x[i]
    <3> HIDE DEF w, t
    <3> QED
      BY <1>m, <1>x, <2>1, <2>2, ConcatFacts DEF w
  <2>4. t = z \o x
    BY DEF z
  <2> HIDE DEF t, w
  <2> QED
    BY <2>2, <2>3, <2>4 DEF S
<1> HIDE DEF b, t, k, v, w
<1>4. CASE m <= k
  <2>1. \A i \in 1 .. Len(t) : t[i] # q
    <3> TAKE i \in 1 .. Len(t)
    <3>1. CASE i <= m
      BY <1>1, <1>2, <1>3, <1>4, <1>m, <1>x, <3>1
    <3>2. CASE i > m
      <4>1. i - m \in 1 .. w /\ m + (i - m) = i
        BY <1>3, <1>m, <1>x, <3>2
      <4> QED
        BY <1>3, <1>x, <4>1
    <3> QED
      BY <1>3, <1>m, <1>x, <3>1, <3>2
  <2>2. e = Len(t) + 1
    <3>1. 1 \in Nat \ {0}
      OBVIOUS
    <3> QED
      BY <1>3, <2>1, <3>1, EndNone
  <2>3. Pair(t) = <<>>
    <3> HIDE DEF e
    <3>1. e > Len(t)
      BY <1>3, <1>m, <1>x, <2>2
    <3> QED
      BY <3>1 DEF Pair, e
  <2> QED
    BY <1>4, <2>3 DEF CutPair, b, t, k
<1>5. CASE m > k
  <2>1. k + 1 \in 1 .. Len(t) /\ t[k + 1] = q /\ \A i \in 1 .. (k + 1) - 1 : t[i] # q
    BY <1>1, <1>2, <1>3, <1>5, <1>m, <1>x
  <2>2. e = k + 1
    <3>1. 1 \in Nat \ {0}
      OBVIOUS
    <3> QED
      BY <1>3, <2>1, <3>1, EndIs
  <2> DEFINE f == SubSeq(t, 1, e - 1)
             y == SubSeq(t, e + 1, Len(t))
             n == m - k - 1
             g == SubSeq(p.val, 1, n) \o UrlDecode(x)
  <2>3. f \in Seq(Symbols) /\ Len(f) = k /\ \A i \in 1 .. k : f[i] = EncodeChar(p.key[i])
    <3>1. f \in Seq(Symbols) /\ Len(f) = k /\ \A i \in 1 .. k : f[i] = t[i]
      <4> HIDE DEF e, Symbols
      <4> QED
        BY <1>1, <1>3, <1>5, <1>m, <1>x, <2>2
    <3> QED
      BY <1>1, <1>3, <1>5, <1>m, <3>1
  <2>4. n \in 0 .. v /\ m = k + 1 + n
    BY <1>1, <1>5, <1>m
  <2>5. y \in Seq(Symbols) /\ Len(y) = n + w /\ \A i \in 1 .. n + w : y[i] = t[k + 1 + i]
    <3> HIDE DEF e, Symbols, n
    <3> QED
      BY <1>1, <1>3, <1>5, <1>m, <1>x, <2>2, <2>4
  <2>6. g \in Seq(Chars) /\ Len(g) = n + w
        /\ (\A i \in 1 .. n : g[i] = p.val[i]) /\ \A i \in 1 .. w : g[n + i] = UrlDecode(x)[i]
    <3> DEFINE a == SubSeq(p.val, 1, n)
               d == UrlDecode(x)
    <3>1. n \in 0 .. Len(p.val) /\ p.val \in Seq(Chars)
      BY <1>0, <2>4 DEF v
    <3> HIDE DEF n
    <3>2. a \in Seq(Chars) /\ Len(a) = n /\ \A i \in 1 .. n : a[i] = p.val[i]
      BY <3>1
    <3>3. d \in Seq(Chars) /\ Len(d) = w
      BY <1>x
    <3> HIDE DEF a, d
    <3>4. /\ a \o d \in Seq(Chars) /\ Len(a \o d) = n + w
          /\ (\A i \in 1 .. n : (a \o d)[i] = a[i]) /\ \A i \in 1 .. w : (a \o d)[n + i] = d[i]
      <4> DEFINE c == a \o d
      <4>1. c = a \o d
        OBVIOUS
      <4> HIDE DEF c
      <4>2. /\ c \in Seq(Chars) /\ Len(c) = Len(a) + Len(d) /\ (\A i \in 1 .. Len(a) : c[i] = a[i])
            /\ \A i \in 1 .. Len(d) : c[Len(a) + i] = d[i]
        <5>1. a \in Seq(Chars) /\ d \in Seq(Chars)
          BY <3>2, <3>3
        <5> QED
          BY ONLY <4>1, <5>1, ConcatFacts
      <4>3. /\ c \in Seq(Chars) /\ Len(c) = n + w /\ (\A i \in 1 .. n : c[i] = a[i])
            /\ \A i \in 1 .. w : c[n + i] = d[i]
        BY <3>2, <3>3, <4>2
      <4> QED
        BY <4>3 DEF c
    <3> QED
      BY <3>2, <3>4 DEF a, d
  <2>7. \A i \in 1 .. n + w : DecodeChar(y[i]) = g[i]
    <3> TAKE i \in 1 .. n + w
    <3>1. y[i] = t[k + 1 + i]
      BY <2>5
    <3>2. CASE i <= n
      <4>1. i \in 1 .. v /\ k + 1 + i \in 1 .. m /\ i \in 1 .. n
        <5>1. n \in 0 .. v /\ m = k + 1 + n /\ v \in Nat /\ k \in Nat /\ w \in Nat
          BY <1>1, <1>x, <2>4
        <5> HIDE DEF n
        <5> QED
          BY ONLY i \in 1 .. n + w, <3>2, <5>1
      <4>2. y[i] = EncodeChar(p.val[i])
        BY <1>1, <1>3, <3>1, <4>1
      <4>3. p.val[i] \in Chars
        BY <1>0, <4>1 DEF v
      <4> QED
        BY <2>6, <4>1, <4>2, <4>3, Encoded
    <3>3. CASE i > n
      <4>1. i - n \in 1 .. w /\ m + (i - n) = k + 1 + i /\ n + (i - n) = i
        BY <1>1, <1>x, <2>4, <3>3
      <4>2. y[i] = x[i - n] /\ g[i] = UrlDecode(x)[i - n]
        <5> DEFINE j == i - n
        <5>1. j \in 1 .. w /\ m + j = k + 1 + i /\ n + j = i
          BY <4>1
        <5> HIDE DEF j, g, n
        <5>2. y[i] = x[j]
          BY <1>3, <3>1, <5>1
        <5>3. g[i] = UrlDecode(x)[j]
          BY <2>6, <5>1
        <5> QED
          BY <5>2, <5>3 DEF j
      <4> QED
        BY <1>x, <4>1, <4>2
    <3>4. i \in Nat /\ n \in Nat
      BY <1>1, <1>x, <2>4
    <3> HIDE DEF n, y, g
    <3>5. i <= n \/ i > n
      BY <3>4
    <3> QED
      BY <3>2, <3>3, <3>5
  <2>8. UrlDecode(f) = p.key
    <3>1. k \in 0 .. Len(p.key) /\ SubSeq(p.key, 1, k) = p.key
      <4> USE DEF k
      <4> QED
        BY <1>0, <1>1
    <3> HIDE DEF f
    <3>2. UrlDecode(f) = SubSeq(p.key, 1, k)
      BY <1>0, <2>3, <3>1, UrlDecoded
    <3> QED
      BY <3>1, <3>2
  <2>9. UrlDecode(y) = g
    <3> HIDE DEF y, g, n
    <3>1. DOMAIN y = 1 .. n + w /\ DOMAIN g = 1 .. n + w
      BY <2>5, <2>6
    <3>2. UrlDecode(y) = [i \in 1 .. n + w |-> g[i]]
      BY <2>7, <3>1 DEF UrlDecode
    <3>3. g = [i \in 1 .. n + w |-> g[i]]
      BY <2>6, <3>1
    <3> QED
      BY <3>2, <3>3
  <2>10. Pair(t) = << [key |-> p.key, val |-> g] >>
    <3>1. ~(e > Len(t))
      BY <1>1, <1>3, <1>5, <1>m, <1>x, <2>2
    <3>2. Pair(t) = << [key |-> UrlDecode(f), val |-> UrlDecode(y)] >>
      <4> HIDE DEF e
      <4> QED
        BY <3>1 DEF Pair, e
    <3> HIDE DEF f, y, g
    <3> QED
      BY <2>8, <2>9, <3>2
  <2>11. ~(m <= k)
    BY <1>1, <1>5, <1>m
  <2>12. CutPair(p, m, x) = << [key |-> p.key, val |-> g] >>
    BY <2>11 DEF CutPair, k
  <2>13. Pair(SubSeq(Piece(p), 1, m) \o x) = Pair(t)
    BY DEF b, t
  <2> HIDE DEF g
  <2> QED
    BY <2>10, <2>12, <2>13
<1> QED
  BY <1>1, <1>4, <1>5, <1>m

LEMMA PairWhole ==
    ASSUME NEW p \in PairSet
    PROVE  /\ CutPair(p, Len(Piece(p)), <<>>) = <<p>>
           /\ SubSeq(Piece(p), 1, Len(Piece(p))) = Piece(p)
<1> DEFINE b == Piece(p)
           k == Len(p.key)
           v == Len(p.val)
<1>1. b \in Seq(Symbols) /\ k \in Nat /\ v \in Nat /\ Len(b) = k + 1 + v
  BY PieceText
<1>2. SubSeq(p.val, 1, v) \o UrlDecode(<<>>) = p.val
  <2>1. p.val \in Seq(Chars)
    BY DEF PairSet
  <2>2. UrlDecode(<<>>) = <<>>
    BY DEF UrlDecode
  <2>3. SubSeq(p.val, 1, v) = p.val /\ p.val \o <<>> = p.val
    BY <2>1
  <2> QED
    BY <2>2, <2>3
<1>3. SubSeq(b, 1, Len(b)) = b
  <2> HIDE DEF b
  <2> QED
    BY <1>1
<1>4. ~(Len(b) <= k) /\ Len(b) - k - 1 = v
  <2> HIDE DEF b, k, v
  <2> QED
    BY <1>1
<1>5. CutPair(p, Len(b), <<>>) = << [key |-> p.key, val |-> p.val] >>
  <2> HIDE DEF b
  <2> QED
    BY <1>2, <1>4 DEF CutPair
<1>6. p = [key |-> p.key, val |-> p.val]
  BY DEF PairSet
<1> QED
  BY <1>3, <1>5, <1>6

LEMMA PieceAt ==
    ASSUME NEW X, NEW t \in Seq(X), NEW u \in Seq(X), NEW a \in Nat, NEW m \in 0 .. Len(u),
           a + m <= Len(t), \A j \in 1 .. m : t[a + j] = u[j]
    PROVE  SubSeq(t, a + 1, a + m) = SubSeq(u, 1, m)
<1> DEFINE x == SubSeq(t, a + 1, a + m)
           y == SubSeq(u, 1, m)
<1>1. x \in Seq(X) /\ Len(x) = m /\ \A j \in 1 .. m : x[j] = t[a + j]
  <2> DEFINE c == a + 1
             d == a + m
  <2>1. /\ c \in Nat \ {0} /\ d \in 0 .. Len(t) /\ m = d - c + 1 /\ m \in Nat
        /\ \A j \in 1 .. m : (c + j) - 1 = a + j
    OBVIOUS
  <2> HIDE DEF c, d
  <2>2. /\ SubSeq(t, c, d) \in Seq(X) /\ Len(SubSeq(t, c, d)) = m
        /\ \A j \in 1 .. m : SubSeq(t, c, d)[j] = t[(c + j) - 1]
    BY <2>1
  <2>3. x = SubSeq(t, c, d)
    BY DEF c, d
  <2> HIDE DEF x
  <2> QED
    BY ONLY <2>1, <2>2, <2>3
<1>2. y \in Seq(X) /\ Len(y) = m /\ \A j \in 1 .. m : y[j] = u[j]
  OBVIOUS
<1> HIDE DEF x, y
<1>3. \A j \in 1 .. m : x[j] = y[j]
  BY <1>1, <1>2
<1>4. x = y
  BY <1>1, <1>2, <1>3
<1> QED
  BY <1>4 DEF x, y

LEMMA PopulateIs ==
    ASSUME NEW t, Len(t) \in Nat, NEW E,
           E = [n \in Nat |-> IF n = 0 THEN [row |-> 1, pairs |-> <<>>] ELSE NextPiece(t, E[n - 1])]
    PROVE  Populate(t) = E[Len(t) + 1].pairs
<1> DEFINE H == CHOOSE f : f = [n \in Nat |-> IF n = 0 THEN [row |-> 1, pairs |-> <<>>]
                                             ELSE NextPiece(t, f[n - 1])]
           T == { n \in Nat : H[n] = E[n] }
<1>1. Populate(t) = H[Len(t) + 1].pairs
  BY DEF Populate
<1>2. H = [n \in Nat |-> IF n = 0 THEN [row |-> 1, pairs |-> <<>>] ELSE NextPiece(t, H[n - 1])]
  OBVIOUS
<1> HIDE DEF H
<1>3. 0 \in T
  BY <1>2
<1>4. ASSUME NEW n \in Nat, n \in T PROVE n + 1 \in T
  <2>1. n + 1 \in Nat /\ n + 1 # 0 /\ (n + 1) - 1 = n
    OBVIOUS
  <2>2. H[n + 1] = NextPiece(t, H[n])
    BY <1>2, <2>1
  <2>3. E[n + 1] = NextPiece(t, E[n])
    BY <2>1
  <2> QED
    BY <1>4, <2>1, <2>2, <2>3
<1>5. Nat \subseteq T
  <2> HIDE DEF T
  <2> QED
    BY <1>3, <1>4, SetInduction
<1>6. Len(t) + 1 \in T
  <2> HIDE DEF T
  <2> QED
    BY <1>5
<1> QED
  BY <1>1, <1>6

LinkPieces(p) ==
    [i \in DOMAIN p |-> Piece(p[i]) \o (IF i < Len(p) THEN <<Plain("&")>> ELSE <<>>)]

LEMMA LinkPiece ==
    ASSUME NEW p \in Seq(PairSet), NEW i \in 1 .. Len(p)
    PROVE  /\ p[i] \in PairSet /\ Piece(p[i]) \in Seq(Symbols) /\ Len(Piece(p[i])) \in Nat \ {0}
           /\ LinkPieces(p)[i] \in Seq(Symbols)
           /\ Len(LinkPieces(p)[i]) = Len(Piece(p[i])) + (IF i < Len(p) THEN 1 ELSE 0)
           /\ \A j \in 1 .. Len(Piece(p[i])) : LinkPieces(p)[i][j] = Piece(p[i])[j]
           /\ i < Len(p) => LinkPieces(p)[i][Len(Piece(p[i])) + 1] = Plain("&")
<1> DEFINE u == Piece(p[i])
           q == Plain("&")
           v == LinkPieces(p)[i]
<1>1. p[i] \in PairSet
  OBVIOUS
<1>2. u \in Seq(Symbols) /\ Len(u) \in Nat \ {0}
  <2>1. /\ Len(p[i].key) \in Nat /\ Len(p[i].val) \in Nat
        /\ u \in Seq(Symbols) /\ Len(u) = Len(p[i].key) + 1 + Len(p[i].val)
    BY <1>1, PieceText
  <2> DEFINE k == Len(p[i].key)
             m == Len(p[i].val)
  <2>2. k \in Nat /\ m \in Nat /\ u \in Seq(Symbols) /\ Len(u) = k + 1 + m
    BY <2>1
  <2> HIDE DEF u, k, m
  <2> QED
    BY <2>2
<1>3. q \in Symbols
  BY Separators
<1>4. v = u \o (IF i < Len(p) THEN <<q>> ELSE <<>>)
  BY DEF LinkPieces
<1> HIDE DEF u, q, v
<1>5. CASE i < Len(p)
  <2>1. v = u \o <<q>>
    BY <1>4, <1>5
  <2>2. /\ u \o <<q>> \in Seq(Symbols) /\ Len(u \o <<q>>) = Len(u) + 1
        /\ (u \o <<q>>)[Len(u) + 1] = q /\ \A j \in 1 .. Len(u) : (u \o <<q>>)[j] = u[j]
    <3> HIDE DEF Symbols
    <3> QED
      BY <1>2, <1>3
  <2> QED
    BY <1>1, <1>2, <1>5, <2>1, <2>2 DEF u, q, v
<1>6. CASE ~(i < Len(p))
  <2>1. v = u
    BY <1>2, <1>4, <1>6
  <2> QED
    BY <1>1, <1>2, <1>6, <2>1 DEF u, v
<1> QED
  BY <1>5, <1>6

LEMMA LinkJoins ==
    ASSUME NEW p \in Seq(PairSet)
    PROVE  /\ Len(LinkPieces(p)) = Len(p)
           /\ \E F : Joins(Symbols, LinkPieces(p), F) /\ Link(p) = F[Len(p)]
<1> DEFINE ss == LinkPieces(p)
<1>1. ss \in Seq(Seq(Symbols)) /\ Len(ss) = Len(p)
  <2>1. DOMAIN p = 1 .. Len(p) /\ Len(p) \in Nat
    OBVIOUS
  <2>2. ss = [i \in 1 .. Len(p) |-> LinkPieces(p)[i]]
    BY <2>1 DEF LinkPieces
  <2>3. \A i \in 1 .. Len(p) : LinkPieces(p)[i] \in Seq(Symbols)
    BY LinkPiece
  <2> DEFINE S == Seq(Symbols)
  <2>4. \A i \in 1 .. Len(p) : LinkPieces(p)[i] \in S
    BY <2>3
  <2> HIDE DEF S
  <2>5. [i \in 1 .. Len(p) |-> LinkPieces(p)[i]] \in [1 .. Len(p) -> S]
    BY <2>4
  <2>6. ss \in [1 .. Len(p) -> S]
    BY <2>2, <2>5
  <2> HIDE DEF ss
  <2>7. ss \in Seq(S) /\ Len(ss) = Len(p)
    BY <2>1, <2>6
  <2> QED
    BY <2>7 DEF S
<1> HIDE DEF ss
<1>2. PICK F : Joins(Symbols, ss, F)
  BY <1>1, JoinsExists
<1>3. FlattenSeq(ss) = F[Len(ss)]
  BY <1>2, FlattenIs
<1>4. Link(p) = FlattenSeq(ss)
  BY DEF Link, LinkPieces, ss
<1>5. Link(p) = F[Len(p)]
  BY <1>1, <1>3, <1>4
<1> QED
  BY <1>1, <1>2, <1>5 DEF ss

(* The decoder finds the pairs of a text that was cut: the first ones, and *)
(* what is left of the one in which it was cut, between two characters or  *)
(* inside a "%xx".                                                         *)
LEMMA PopulateCut ==
    ASSUME NEW p \in Seq(PairSet), Len(p) # 0, NEW n \in 0 .. Len(Link(p)), NEW x \in Stubs,
           x # <<>> => n < Len(Link(p)) /\ Link(p)[n + 1].esc
    PROVE  \E c \in 1 .. Len(p) : \E m \in 0 .. Len(Piece(p[c])) :
             /\ Populate(SubSeq(Link(p), 1, n) \o x) = SubSeq(p, 1, c - 1) \o CutPair(p[c], m, x)
             /\ n = Len(Link(p)) => c = Len(p) /\ m = Len(Piece(p[c]))
             /\ x # <<>> => m < Len(Piece(p[c])) /\ Piece(p[c])[m + 1].esc
<1> DEFINE N == Len(p)
           ss == LinkPieces(p)
           L == Link(p)
           t == SubSeq(L, 1, n) \o x
           w == Len(x)
           X == Symbols
           sep == Plain("&")
<1>1. N \in Nat \ {0} /\ Len(ss) = N
  <2>1. N \in Nat /\ N # 0
    OBVIOUS
  <2>2. Len(ss) = N
    BY LinkJoins
  <2> QED
    BY <2>1, <2>2
<1>2. PICK F : Joins(X, ss, F) /\ L = F[N]
  BY LinkJoins
<1>3. /\ At(F, 0) = 0 /\ \A k \in 0 .. N : F[k] \in Seq(X) /\ At(F, k) \in Nat
  <2> HIDE DEF ss, N
  <2> QED
    BY <1>1, <1>2, JoinStart
<1>4. n \in 0 .. At(F, N) /\ n \in Nat /\ L \in Seq(X) /\ Len(L) = At(F, N)
  <2>1. N \in 0 .. N
    BY <1>1
  <2>2. L \in Seq(X) /\ Len(L) = At(F, N)
    BY <1>2, <1>3, <2>1 DEF At
  <2>3. n \in 0 .. Len(L)
    OBVIOUS
  <2> HIDE DEF L, X, N
  <2> QED
    BY <1>3, <2>1, <2>2, <2>3
<1>x. x \in Seq(X) /\ w \in Nat /\ \A i \in 1 .. w : x[i] # sep
  BY StubText
<1>5. /\ t \in Seq(X) /\ Len(t) = n + w /\ (\A i \in 1 .. n : t[i] = L[i])
      /\ \A i \in 1 .. w : t[n + i] = x[i]
  <2> DEFINE z == SubSeq(L, 1, n)
  <2>1. L \in Seq(X) /\ n \in 0 .. Len(L)
    BY <1>4
  <2> HIDE DEF L, X, w
  <2>2. z \in Seq(X) /\ Len(z) = n /\ \A i \in 1 .. n : z[i] = L[i]
    BY <2>1
  <2>3. t = z \o x
    OBVIOUS
  <2> HIDE DEF z, t
  <2>4. /\ t \in Seq(X) /\ Len(t) = Len(z) + Len(x) /\ (\A i \in 1 .. Len(z) : t[i] = z[i])
        /\ \A i \in 1 .. Len(x) : t[Len(z) + i] = x[i]
    <3>1. z \in Seq(X) /\ x \in Seq(X)
      BY <1>x, <2>2
    <3> QED
      BY ONLY <2>3, <3>1, ConcatFacts
  <2> QED
    BY <2>2, <2>4 DEF w
<1> HIDE DEF ss, t, L, X, w
<1>6. PICK c \in 1 .. N : At(F, c - 1) <= n /\ (n < At(F, c) \/ c = N)
  <2>1. Len(ss) # 0 /\ n \in 0 .. At(F, Len(ss))
    BY <1>1, <1>4
  <2>2. \E c \in 1 .. Len(ss) : At(F, c - 1) <= n /\ (n < At(F, c) \/ c = Len(ss))
    BY <1>2, <2>1, JoinCut
  <2> QED
    BY <1>1, <2>2
<1>7. \A k \in 1 .. N :
        /\ p[k] \in PairSet /\ Piece(p[k]) \in Seq(X) /\ Len(Piece(p[k])) \in Nat \ {0}
        /\ ss[k] \in Seq(X) /\ Len(ss[k]) = Len(Piece(p[k])) + (IF k < N THEN 1 ELSE 0)
        /\ \A j \in 1 .. Len(Piece(p[k])) : ss[k][j] = Piece(p[k])[j]
        /\ k < N => ss[k][Len(Piece(p[k])) + 1] = sep
  <2> HIDE DEF sep
  <2> QED
    BY LinkPiece DEF X, ss, sep
<1>8. \A k \in 1 .. N : At(F, k) = At(F, k - 1) + Len(ss[k])
  <2> TAKE k \in 1 .. N
  <2>1. k \in 1 .. Len(ss)
    BY <1>1
  <2> QED
    BY <1>2, <2>1, JoinStep
<1>9. \A k \in 1 .. N : \A j \in 1 .. Len(ss[k]) : L[At(F, k - 1) + j] = ss[k][j]
  <2> TAKE k \in 1 .. N
  <2> TAKE j \in 1 .. Len(ss[k])
  <2>1. k \in 1 .. Len(ss) /\ N \in k .. Len(ss)
    BY <1>1
  <2>2. F[N][At(F, k - 1) + j] = ss[k][j]
    BY <1>2, <2>1, JoinPiece
  <2> QED
    BY <1>2, <2>2
<1>10. \A k \in 0 .. N : k <= At(F, k)
  <2>1. \A k \in 1 .. Len(ss) : Len(ss[k]) # 0
    <3> TAKE k \in 1 .. Len(ss)
    <3>1. k \in 1 .. N
      BY <1>1
    <3>2. Len(ss[k]) = Len(Piece(p[k])) + (IF k < N THEN 1 ELSE 0) /\ Len(Piece(p[k])) \in Nat \ {0}
      BY <1>7, <3>1
    <3> QED
      BY <3>2
  <2> QED
    BY <1>1, <1>2, <2>1, JoinLong
<1>11. \A k \in 0 .. N : \A i \in k .. N : At(F, k) <= At(F, i)
  BY <1>1, <1>2, JoinPrefix
<1> DEFINE m == n - At(F, c - 1)
           E == [k \in Nat |->
                   IF k < c THEN [row |-> At(F, k) + 1, pairs |-> SubSeq(p, 1, k)]
                   ELSE [row |-> n + w + 2, pairs |-> SubSeq(p, 1, c - 1) \o CutPair(p[c], m, x)]]
<1>12. m \in 0 .. Len(Piece(p[c]))
  <2>1. c - 1 \in 0 .. N /\ c \in 0 .. N
    BY <1>1
  <2>2. At(F, c - 1) \in Nat /\ At(F, c) \in Nat /\ m \in Nat
    BY <1>3, <1>4, <1>6, <2>1
  <2>3. At(F, c) = At(F, c - 1) + Len(ss[c]) /\ Len(Piece(p[c])) \in Nat
        /\ Len(ss[c]) = Len(Piece(p[c])) + (IF c < N THEN 1 ELSE 0)
    BY <1>7, <1>8
  <2>4. CASE c < N
    <3>1. n < At(F, c) /\ Len(ss[c]) = Len(Piece(p[c])) + 1
      BY <1>6, <2>3, <2>4
    <3> QED
      BY <1>4, <2>2, <2>3, <3>1
  <2>5. CASE c = N
    <3>1. n <= At(F, c) /\ Len(ss[c]) = Len(Piece(p[c]))
      BY <1>1, <1>4, <2>2, <2>3, <2>5
    <3> QED
      BY <1>4, <2>2, <2>3, <3>1
  <2> QED
    BY <1>1, <2>4, <2>5
<1>13. n = Len(L) => c = N /\ m = Len(Piece(p[c]))
  <2> HAVE n = Len(L)
  <2>1. c \in 0 .. N /\ N \in c .. N /\ c - 1 \in 0 .. N
    BY <1>1
  <2>2. At(F, c) <= At(F, N) /\ At(F, c) \in Nat /\ At(F, N) \in Nat /\ At(F, c - 1) \in Nat
    BY <1>3, <1>11, <2>1
  <2>3. c = N
    BY <1>4, <1>6, <2>2
  <2>4. At(F, c) = At(F, c - 1) + Len(ss[c]) /\ Len(Piece(p[c])) \in Nat /\ Len(ss[c]) = Len(Piece(p[c]))
    BY <1>1, <1>7, <1>8, <2>3
  <2>5. m = Len(Piece(p[c]))
    BY <1>4, <2>2, <2>3, <2>4
  <2> QED
    BY <2>3, <2>5
<1>14. E = [k \in Nat |-> IF k = 0 THEN [row |-> 1, pairs |-> <<>>] ELSE NextPiece(t, E[k - 1])]
  <2>1. \A k \in Nat : E[k] = IF k < c THEN [row |-> At(F, k) + 1, pairs |-> SubSeq(p, 1, k)]
                              ELSE [row |-> n + w + 2, pairs |-> SubSeq(p, 1, c - 1) \o CutPair(p[c], m, x)]
    OBVIOUS
  <2>2. E[0] = [row |-> 1, pairs |-> <<>>]
    <3>1. 0 < c /\ 0 \in Nat
      BY <1>1
    <3>2. SubSeq(p, 1, 0) = <<>>
      OBVIOUS
    <3> QED
      BY <1>3, <2>1, <3>1, <3>2
  <2>3. ASSUME NEW k \in Nat, k # 0 PROVE E[k] = NextPiece(t, E[k - 1])
    <3> DEFINE s == E[k - 1]
               a == At(F, k - 1)
               u == Piece(p[k])
    <3>0. k - 1 \in Nat
      BY <2>3
    <3>1. ASSUME k <= c
          PROVE  /\ k \in 1 .. N /\ k - 1 \in 0 .. N /\ a \in Nat /\ a <= n /\ p[k] \in PairSet
                 /\ s = [row |-> a + 1, pairs |-> SubSeq(p, 1, k - 1)]
                 /\ \A j \in 1 .. Len(u) : a + j <= n => t[a + j] = u[j]
                 /\ \A j \in 1 .. Len(u) : u[j] # sep
                 /\ u \in Seq(X) /\ Len(u) \in Nat \ {0}
      <4>1. k \in 1 .. N /\ k - 1 \in 0 .. N /\ c - 1 \in k - 1 .. N
        BY <1>1, <2>3, <3>1
      <4>2. a \in Nat /\ a <= n
        <5>1. a \in Nat /\ a <= At(F, c - 1)
          BY <1>3, <1>11, <4>1
        <5>2. At(F, c - 1) \in Nat /\ At(F, c - 1) <= n
          BY <1>1, <1>3, <1>6, <4>1
        <5> QED
          BY <1>4, <5>1, <5>2
      <4>3. s = [row |-> a + 1, pairs |-> SubSeq(p, 1, k - 1)]
        <5>1. k - 1 < c
          BY <1>1, <3>1
        <5> HIDE DEF E, m
        <5> QED
          BY <2>1, <3>0, <5>1
      <4>4. p[k] \in PairSet /\ u \in Seq(X) /\ Len(u) \in Nat \ {0}
        BY <1>7, <4>1
      <4>5. \A j \in 1 .. Len(u) : a + j <= n => t[a + j] = u[j]
        <5> TAKE j \in 1 .. Len(u)
        <5> HAVE a + j <= n
        <5>1. j \in 1 .. Len(ss[k]) /\ ss[k][j] = u[j]
          BY <1>7, <4>1
        <5>2. L[a + j] = u[j]
          BY <1>9, <4>1, <5>1
        <5>3. a + j \in 1 .. n
          BY <1>4, <4>2, <4>4
        <5> QED
          BY <1>5, <5>2, <5>3
      <4>6. \A j \in 1 .. Len(u) : u[j] # sep
        BY <4>4, PieceWhole
      <4> QED
        BY <4>1, <4>2, <4>3, <4>4, <4>5, <4>6
    <3> HIDE DEF s, a, u, sep, E, m
    <3>2. CASE k < c
      <4>0. /\ k \in 1 .. N /\ k - 1 \in 0 .. N /\ a \in Nat /\ a <= n /\ p[k] \in PairSet
            /\ s = [row |-> a + 1, pairs |-> SubSeq(p, 1, k - 1)]
            /\ \A j \in 1 .. Len(u) : a + j <= n => t[a + j] = u[j]
            /\ \A j \in 1 .. Len(u) : u[j] # sep
            /\ u \in Seq(X) /\ Len(u) \in Nat \ {0}
        BY <1>1, <2>3, <3>1, <3>2
      <4> DEFINE e == a + Len(u) + 1
      <4>1. e \in Nat /\ e = At(F, k) /\ e <= n /\ L[e] = sep
        <5>1. k \in 1 .. N /\ k < N /\ k \in 0 .. N /\ c - 1 \in k .. N
          BY <1>1, <3>2, <4>0
        <5>2. Len(ss[k]) = Len(u) + 1 /\ ss[k][Len(u) + 1] = sep
          BY <1>7, <5>1 DEF u
        <5>3. At(F, k) = e
          BY <1>8, <4>0, <5>1, <5>2 DEF a
        <5>4. At(F, k) <= At(F, c - 1) /\ At(F, c - 1) \in Nat
          BY <1>1, <1>3, <1>11, <5>1
        <5>5. Len(u) + 1 \in 1 .. Len(ss[k])
          BY <4>0, <5>2
        <5>6. L[a + (Len(u) + 1)] = sep
          BY <1>9, <5>1, <5>2, <5>5 DEF a
        <5>7. a + (Len(u) + 1) = e /\ e \in Nat
          BY <4>0
        <5> QED
          BY <1>4, <1>6, <5>3, <5>4, <5>6, <5>7
      <4>2. PieceEnd(t, a + 1, "&") = e
        <5>0. e >= a + 1 /\ a \in Nat /\ n \in Nat /\ Len(t) = n + w /\ w \in Nat
          BY <1>4, <1>5, <1>x, <4>0
        <5>1. e \in a + 1 .. Len(t) /\ a + 1 \in Nat \ {0}
          <6> HIDE DEF e
          <6> QED
            BY <4>1, <5>0
        <5>2. t[e] = sep
          BY <1>4, <1>5, <4>0, <4>1
        <5>3. \A i \in a + 1 .. e - 1 : t[i] # sep
          <6> TAKE i \in a + 1 .. e - 1
          <6>1. i - a \in 1 .. Len(u) /\ a + (i - a) = i /\ i <= n
            BY <1>4, <4>0, <4>1
          <6> QED
            BY <4>0, <6>1
        <5> HIDE DEF e
        <5> USE DEF sep
        <5> QED
          BY <1>5, <5>1, <5>2, <5>3, EndIs
      <4>3. SubSeq(t, a + 1, e - 1) = u
        <5>1. e - 1 = a + Len(u) /\ a + Len(u) <= Len(t) /\ Len(u) \in 0 .. Len(u)
          BY <1>4, <1>5, <1>x, <4>0, <4>1
        <5>2. \A j \in 1 .. Len(u) : t[a + j] = u[j]
          BY <1>4, <4>0, <4>1
        <5>3. SubSeq(t, a + 1, a + Len(u)) = SubSeq(u, 1, Len(u))
          <6>1. t \in Seq(X) /\ u \in Seq(X) /\ a \in Nat /\ a + Len(u) <= Len(t)
            BY <1>5, <4>0, <5>1
          <6> HIDE DEF u, a, e, s
          <6> QED
            BY <5>1, <5>2, <6>1, PieceAt
        <5>4. SubSeq(u, 1, Len(u)) = u
          BY <4>0, PairWhole DEF u
        <5> QED
          BY <5>1, <5>3, <5>4
      <4>4. Pair(u) = <<p[k]>>
        <5>1. Len(u) \in 0 .. Len(u) /\ <<>> \in Stubs
          BY <4>0 DEF Stubs
        <5>2. Pair(SubSeq(u, 1, Len(u)) \o <<>>) = CutPair(p[k], Len(u), <<>>)
          BY <4>0, <5>1, PairCut DEF u
        <5>3. CutPair(p[k], Len(u), <<>>) = <<p[k]>> /\ SubSeq(u, 1, Len(u)) = u
          BY <4>0, PairWhole DEF u
        <5>4. u \o <<>> = u
          BY <4>0
        <5> QED
          BY <5>2, <5>3, <5>4
      <4>5. SubSeq(p, 1, k - 1) \o <<p[k]>> = SubSeq(p, 1, k)
        <5> HIDE DEF N
        <5>1. k \in 1 .. Len(p)
          BY <4>0 DEF N
        <5> QED
          BY <5>1
      <4>6. NextPiece(t, s) = [row |-> e + 1, pairs |-> SubSeq(p, 1, k)]
        <5>1. s.row = a + 1 /\ s.pairs = SubSeq(p, 1, k - 1)
          BY <4>0
        <5>2. ~(a + 1 > Len(t) + 1)
          BY <1>4, <1>5, <1>x, <4>0
        <5> HIDE DEF e
        <5> QED
          BY <4>2, <4>3, <4>4, <4>5, <5>1, <5>2 DEF NextPiece
      <4>7. E[k] = [row |-> e + 1, pairs |-> SubSeq(p, 1, k)]
        BY <2>1, <3>2, <4>1
      <4> QED
        BY <4>6, <4>7 DEF s
    <3>3. CASE k = c
      <4>0. /\ k \in 1 .. N /\ k - 1 \in 0 .. N /\ a \in Nat /\ a <= n /\ p[k] \in PairSet
            /\ s = [row |-> a + 1, pairs |-> SubSeq(p, 1, k - 1)]
            /\ \A j \in 1 .. Len(u) : a + j <= n => t[a + j] = u[j]
            /\ \A j \in 1 .. Len(u) : u[j] # sep
            /\ u \in Seq(X) /\ Len(u) \in Nat \ {0}
        <5>1. k <= c
          BY <1>1, <3>3
        <5> QED
          BY <3>1, <5>1
      <4>1. m \in 0 .. Len(u) /\ n = a + m /\ m \in Nat
        BY <1>4, <1>12, <3>3, <4>0 DEF m, a, u
      <4>2. \A j \in 1 .. m : t[a + j] = u[j]
        <5> TAKE j \in 1 .. m
        <5>1. j \in 1 .. Len(u) /\ a + j <= n
          BY <1>4, <4>0, <4>1
        <5> QED
          BY <4>0, <5>1
      <4>3. PieceEnd(t, a + 1, "&") = n + w + 1
        <5>1. a + 1 \in Nat \ {0}
          BY <4>0
        <5>2. \A i \in a + 1 .. Len(t) : t[i] # sep
          <6> TAKE i \in a + 1 .. Len(t)
          <6>1. CASE i <= n
            <7>1. i - a \in 1 .. m /\ a + (i - a) = i /\ i - a \in 1 .. Len(u)
              BY <1>4, <1>5, <4>0, <4>1, <6>1
            <7> QED
              BY <4>0, <4>2, <7>1
          <6>2. CASE i > n
            <7>1. i - n \in 1 .. w /\ n + (i - n) = i
              BY <1>4, <1>5, <1>x, <4>0, <6>2
            <7>2. t[n + (i - n)] = x[i - n]
              BY <1>5, <7>1
            <7> QED
              BY <1>x, <7>1, <7>2
          <6>3. i \in Nat /\ n \in Nat
            BY <1>4, <4>0
          <6> QED
            BY <6>1, <6>2, <6>3
        <5>3. PieceEnd(t, a + 1, "&") = Len(t) + 1
          BY <1>5, <5>1, <5>2, EndNone DEF sep
        <5> QED
          BY <1>5, <5>3
      <4>4. SubSeq(t, a + 1, (n + w + 1) - 1) = SubSeq(u, 1, m) \o x
        <5> DEFINE f == SubSeq(t, a + 1, n + w)
                   y == SubSeq(u, 1, m)
                   g == y \o x
        <5>1. /\ a \in Nat /\ m \in Nat /\ n = a + m /\ w \in Nat /\ t \in Seq(X)
              /\ Len(t) = a + m + w /\ (\A j \in 1 .. m : t[a + j] = u[j])
              /\ \A i \in 1 .. w : t[n + i] = x[i]
          BY <1>4, <1>5, <1>x, <4>0, <4>1, <4>2
        <5>2. f \in Seq(X) /\ Len(f) = m + w /\ \A i \in 1 .. m + w : f[i] = t[a + i]
          BY ONLY <5>1
        <5>3. y \in Seq(X) /\ Len(y) = m /\ \A j \in 1 .. m : y[j] = u[j]
          <6>1. u \in Seq(X) /\ m \in 0 .. Len(u)
            BY <4>0, <4>1
          <6> QED
            BY ONLY <6>1
        <5>4. g = y \o x
          OBVIOUS
        <5> HIDE DEF g, f, y
        <5>5. /\ g \in Seq(X) /\ Len(g) = Len(y) + Len(x) /\ (\A i \in 1 .. Len(y) : g[i] = y[i])
              /\ \A i \in 1 .. Len(x) : g[Len(y) + i] = x[i]
          <6>1. y \in Seq(X) /\ x \in Seq(X)
            BY <1>x, <5>3
          <6> QED
            BY ONLY <5>4, <6>1, ConcatFacts
        <5>6. /\ Len(g) = m + w /\ (\A i \in 1 .. m : g[i] = u[i])
              /\ \A i \in 1 .. w : g[m + i] = x[i]
          BY <5>3, <5>5 DEF w
        <5>7. ASSUME NEW i \in 1 .. m + w PROVE f[i] = g[i]
          <6>1. CASE i <= m
            <7>1. i \in 1 .. m
              BY <5>1, <6>1
            <7>2. f[i] = t[a + i] /\ g[i] = u[i] /\ t[a + i] = u[i]
              BY <5>1, <5>2, <5>6, <7>1
            <7> QED
              BY <7>2
          <6>2. CASE i > m
            <7> DEFINE j == i - m
            <7>1. j \in 1 .. w /\ i = m + j /\ a + i = n + j
              BY <5>1, <6>2
            <7> HIDE DEF j
            <7>2. f[i] = t[n + j] /\ g[i] = x[j]
              BY <5>2, <5>6, <7>1
            <7> QED
              BY <5>1, <7>1, <7>2
          <6> QED
            BY <5>1, <6>1, <6>2
        <5>8. f = g
          BY <5>2, <5>5, <5>6, <5>7, SeqEqual
        <5>9. (n + w + 1) - 1 = n + w
          BY <5>1
        <5> QED
          BY <5>8, <5>9 DEF f, g, y
      <4>5. Pair(SubSeq(u, 1, m) \o x) = CutPair(p[c], m, x)
        BY <3>3, <4>0, <4>1, PairCut DEF u
      <4>6. NextPiece(t, s) = [row |-> n + w + 2, pairs |-> SubSeq(p, 1, c - 1) \o CutPair(p[c], m, x)]
        <5>1. s.row = a + 1 /\ s.pairs = SubSeq(p, 1, c - 1)
          BY <3>3, <4>0
        <5>2. ~(a + 1 > Len(t) + 1) /\ (n + w + 1) + 1 = n + w + 2
          BY <1>4, <1>5, <1>x, <4>0
        <5> QED
          BY <4>3, <4>4, <4>5, <5>1, <5>2 DEF NextPiece
      <4>7. ~(k < c)
        BY <1>1, <3>3
      <4>8. E[k] = [row |-> n + w + 2, pairs |-> SubSeq(p, 1, c - 1) \o CutPair(p[c], m, x)]
        BY <2>1, <4>7
      <4> QED
        BY <4>6, <4>8 DEF s
    <3>4. CASE k > c
      <4>1. ~(k < c) /\ ~(k - 1 < c)
        BY <1>1, <3>4
      <4> DEFINE r == [row |-> n + w + 2, pairs |-> SubSeq(p, 1, c - 1) \o CutPair(p[c], m, x)]
      <4>a. r.row = n + w + 2
        OBVIOUS
      <4>b. E[k] = r
        BY <2>1, <4>1
      <4>c. E[k - 1] = r
        BY <2>1, <3>0, <4>1
      <4> HIDE DEF r
      <4>2. E[k] = s /\ s.row = n + w + 2
        BY <4>a, <4>b, <4>c DEF s
      <4>3. s.row > Len(t) + 1
        BY <1>4, <1>5, <1>x, <4>2
      <4>4. NextPiece(t, s) = s
        BY <4>3 DEF NextPiece
      <4> QED
        BY <4>2, <4>4 DEF s
    <3> QED
      BY <1>1, <3>2, <3>3, <3>4
  <2> DEFINE H == [k \in Nat |-> IF k = 0 THEN [row |-> 1, pairs |-> <<>>] ELSE NextPiece(t, E[k - 1])]
  <2>4. DOMAIN E = Nat /\ E = [k \in Nat |-> E[k]]
    OBVIOUS
  <2> HIDE DEF E
  <2>5. \A k \in Nat : E[k] = H[k]
    BY <2>2, <2>3
  <2>6. H = [k \in Nat |-> H[k]]
    OBVIOUS
  <2> HIDE DEF H
  <2>7. E = H
    BY <2>4, <2>5, <2>6
  <2> QED
    BY <2>7 DEF H
<1>15. Populate(t) = E[n + w + 1].pairs
  <2>1. Len(t) = n + w /\ Len(t) \in Nat
    BY <1>4, <1>5, <1>x
  <2> HIDE DEF E
  <2> QED
    BY <1>14, <2>1, PopulateIs
<1>16. E[n + w + 1].pairs = SubSeq(p, 1, c - 1) \o CutPair(p[c], m, x)
  <2>1. c - 1 \in 0 .. N
    BY <1>1
  <2>2. c - 1 <= n
    BY <1>3, <1>4, <1>6, <1>10, <2>1
  <2>3. ~(n + w + 1 < c) /\ n + w + 1 \in Nat
    BY <1>1, <1>4, <1>x, <2>2
  <2> QED
    BY <2>3
<1>17. x # <<>> => m < Len(Piece(p[c])) /\ Piece(p[c])[m + 1].esc
  <2> SUFFICES ASSUME x # <<>> PROVE m < Len(Piece(p[c])) /\ Piece(p[c])[m + 1].esc
    OBVIOUS
  <2> DEFINE a == At(F, c - 1)
             l == Len(Piece(p[c]))
  <2>1. n < Len(L) /\ L[n + 1].esc
    BY DEF L
  <2>2. c - 1 \in 0 .. N /\ c \in 0 .. N
    BY <1>1
  <2>3. a \in Nat /\ At(F, c) = a + Len(ss[c]) /\ a <= n /\ n < At(F, c)
    BY <1>1, <1>3, <1>4, <1>6, <1>8, <2>1, <2>2
  <2>4. l \in Nat /\ Len(ss[c]) = l + (IF c < N THEN 1 ELSE 0) /\ m \in 0 .. l
    BY <1>7, <1>12
  <2>5. m + 1 \in 1 .. Len(ss[c]) /\ a + (m + 1) = n + 1
    <3> HIDE DEF a, l
    <3>1. m = n - a
      BY DEF a
    <3> HIDE DEF m
    <3> QED
      BY <1>4, <2>3, <2>4, <3>1
  <2>6. L[n + 1] = ss[c][m + 1]
    <3> HIDE DEF m
    <3>1. L[a + (m + 1)] = ss[c][m + 1]
      BY <1>9, <2>5
    <3> QED
      BY <2>5, <3>1
  <2>7. ~sep.esc
    BY DEF Plain
  <2> HIDE DEF m, a
  <2>8. m # l
    <3> SUFFICES ASSUME m = l PROVE FALSE
      OBVIOUS
    <3>1. c < N
      BY <2>4, <2>5
    <3>2. ss[c][m + 1] = sep
      BY <1>7, <3>1
    <3> HIDE DEF sep
    <3> QED
      BY <2>1, <2>6, <2>7, <3>2
  <2>9. m + 1 \in 1 .. l /\ m < l
    BY <2>4, <2>8
  <2> QED
    BY <1>7, <2>1, <2>6, <2>9
<1> HIDE DEF m, E
<1> QED
  BY <1>12, <1>13, <1>15, <1>16, <1>17 DEF t, L

LEMMA PopulateNone == Populate(<<>>) = <<>>
<1> DEFINE t == <<>>
           E == [n \in Nat |-> [row |-> IF n = 0 THEN 1 ELSE 2, pairs |-> <<>>]]
<1>1. t \in Seq(Symbols) /\ Len(t) = 0
  <2> HIDE DEF Symbols
  <2> QED
    OBVIOUS
<1>2. PieceEnd(t, 1, "&") = 1
  <2>1. 1 \in Nat \ {0} /\ \A m \in 1 .. Len(t) : t[m] # Plain("&")
    BY <1>1
  <2>2. PieceEnd(t, 1, "&") = Len(t) + 1
    <3> HIDE DEF t
    <3> QED
      BY <1>1, <2>1, EndNone
  <2> QED
    BY <1>1, <2>2
<1>3. Pair(SubSeq(t, 1, 0)) = <<>>
  <2>1. SubSeq(t, 1, 0) = t
    OBVIOUS
  <2>2. PieceEnd(t, 1, "=") = 1
    <3>1. 1 \in Nat \ {0} /\ \A m \in 1 .. Len(t) : t[m] # Plain("=")
      BY <1>1
    <3>2. PieceEnd(t, 1, "=") = Len(t) + 1
      <4> HIDE DEF t
      <4> QED
        BY <1>1, <3>1, EndNone
    <3> QED
      BY <1>1, <3>2
  <2> HIDE DEF t
  <2>3. PieceEnd(t, 1, "=") > Len(t)
    BY <1>1, <2>2
  <2> QED
    BY <2>1, <2>3 DEF Pair
<1> HIDE DEF t
<1>4. NextPiece(t, [row |-> 1, pairs |-> <<>>]) = [row |-> 2, pairs |-> <<>>]
  <2>1. ~(1 > Len(t) + 1)
    BY <1>1
  <2>2. <<>> \o <<>> = <<>>
    OBVIOUS
  <2> QED
    BY <1>2, <1>3, <2>1, <2>2 DEF NextPiece
<1>5. NextPiece(t, [row |-> 2, pairs |-> <<>>]) = [row |-> 2, pairs |-> <<>>]
  <2>1. 2 > Len(t) + 1
    BY <1>1
  <2> QED
    BY <2>1 DEF NextPiece
<1>6. E = [n \in Nat |-> IF n = 0 THEN [row |-> 1, pairs |-> <<>>] ELSE NextPiece(t, E[n - 1])]
  <2>1. E[0] = [row |-> 1, pairs |-> <<>>]
    OBVIOUS
  <2>2. ASSUME NEW n \in Nat, n # 0 PROVE E[n] = NextPiece(t, E[n - 1])
    <3>1. E[n] = [row |-> 2, pairs |-> <<>>]
      BY <2>2
    <3>2. n - 1 \in Nat
      BY <2>2
    <3>3. CASE n - 1 = 0
      <4>1. E[n - 1] = [row |-> 1, pairs |-> <<>>]
        BY <3>3
      <4> HIDE DEF E
      <4> QED
        BY <1>4, <3>1, <4>1
    <3>4. CASE n - 1 # 0
      <4>1. E[n - 1] = [row |-> 2, pairs |-> <<>>]
        BY <3>2, <3>4
      <4> HIDE DEF E
      <4> QED
        BY <1>5, <3>1, <4>1
    <3> QED
      BY <3>3, <3>4
  <2>3. E = [n \in Nat |-> E[n]]
    OBVIOUS
  <2> DEFINE H == [n \in Nat |-> IF n = 0 THEN [row |-> 1, pairs |-> <<>>] ELSE NextPiece(t, E[n - 1])]
  <2>4. H = [n \in Nat |-> H[n]]
    OBVIOUS
  <2> HIDE DEF E
  <2>5. \A n \in Nat : E[n] = H[n]
    BY <2>1, <2>2
  <2> HIDE DEF H
  <2>6. E = H
    BY <2>3, <2>4, <2>5
  <2> QED
    BY <2>6 DEF H
<1>7. Populate(t) = E[Len(t) + 1].pairs
  <2>1. Len(t) \in Nat
    BY <1>1
  <2> HIDE DEF E
  <2> QED
    BY <1>6, <2>1, PopulateIs
<1>8. E[Len(t) + 1].pairs = <<>>
  BY <1>1
<1> HIDE DEF E
<1> QED
  BY <1>7, <1>8 DEF t

LEMMA LinkTyped ==
    ASSUME NEW p \in Seq(PairSet)
    PROVE  Link(p) \in Seq(Symbols) /\ (Len(p) = 0 => Link(p) = <<>>)
<1>1. Len(LinkPieces(p)) = Len(p) /\ Len(p) \in Nat
  BY LinkJoins
<1>2. PICK F : Joins(Symbols, LinkPieces(p), F) /\ Link(p) = F[Len(p)]
  BY LinkJoins
<1>3. Len(p) \in 0 .. Len(LinkPieces(p)) /\ F[0] = <<>>
  BY <1>1, <1>2 DEF Joins
<1>4. F[Len(p)] \in Seq(Symbols)
  BY <1>2, <1>3, JoinStart
<1> QED
  BY <1>2, <1>3, <1>4

(* The decoder makes of a text that may be cut what is left of its pairs.  *)
LEMMA QueryOfText ==
    ASSUME NEW p \in Seq(PairSet), NEW n \in 0 .. Len(Link(p)), NEW x \in Stubs,
           x # <<>> => n < Len(Link(p)) /\ Link(p)[n + 1].esc,
           NEW q, q = Populate(SubSeq(Link(p), 1, n) \o x)
    PROVE  q \in Seq(PairSet) /\ CutShort(q, p) /\ (n = Len(Link(p)) => q = p)
<1>1. CASE Len(p) = 0
  <2>0. p = <<>>
    <3> DEFINE S == PairSet
    <3>1. p \in Seq(S)
      OBVIOUS
    <3> HIDE DEF S
    <3> QED
      BY <1>1, <3>1
  <2>1. Link(p) = <<>> /\ p = <<>>
    BY <1>1, <2>0, LinkTyped
  <2>2. SubSeq(Link(p), 1, n) \o x = <<>>
    <3>1. n = 0 /\ x = <<>>
      BY <2>1
    <3>2. SubSeq(<<>>, 1, 0) \o <<>> = <<>>
      OBVIOUS
    <3> QED
      BY <2>1, <3>1, <3>2
  <2>3. q = <<>>
    BY <2>2, PopulateNone
  <2>4. IsPrefix(<<>>, <<>>)
    BY DEF IsPrefix
  <2> QED
    BY <2>1, <2>3, <2>4 DEF CutShort
<1>2. CASE Len(p) # 0
  <2>a. PICK c \in 1 .. Len(p) : \E m \in 0 .. Len(Piece(p[c])) :
          /\ Populate(SubSeq(Link(p), 1, n) \o x) = SubSeq(p, 1, c - 1) \o CutPair(p[c], m, x)
          /\ n = Len(Link(p)) => c = Len(p) /\ m = Len(Piece(p[c]))
          /\ x # <<>> => m < Len(Piece(p[c])) /\ Piece(p[c])[m + 1].esc
    BY <1>2, PopulateCut
  <2>b. PICK m \in 0 .. Len(Piece(p[c])) :
          /\ Populate(SubSeq(Link(p), 1, n) \o x) = SubSeq(p, 1, c - 1) \o CutPair(p[c], m, x)
          /\ n = Len(Link(p)) => c = Len(p) /\ m = Len(Piece(p[c]))
          /\ x # <<>> => m < Len(Piece(p[c])) /\ Piece(p[c])[m + 1].esc
    BY <2>a
  <2>1. /\ q = SubSeq(p, 1, c - 1) \o CutPair(p[c], m, x)
        /\ n = Len(Link(p)) => c = Len(p) /\ m = Len(Piece(p[c]))
        /\ x # <<>> => m < Len(Piece(p[c])) /\ Piece(p[c])[m + 1].esc
    BY <2>b
  <2> DEFINE f == SubSeq(p, 1, c - 1)
             S == PairSet
  <2>2. p[c] \in S /\ Len(p) \in Nat /\ c - 1 \in 0 .. Len(p)
    OBVIOUS
  <2>3. f \in Seq(S) /\ Len(f) = c - 1 /\ IsPrefix(f, p)
    <3> HIDE DEF S
    <3>1. f \in Seq(S) /\ Len(f) = c - 1 /\ SubSeq(f, 1, c - 1) = f
      <4> SUFFICES ASSUME p \in Seq(S) PROVE f \in Seq(S) /\ Len(f) = c - 1 /\ SubSeq(f, 1, c - 1) = f
        BY DEF S
      <4> QED
        BY <2>2
    <3>2. Len(f) <= Len(p) /\ SubSeq(p, 1, Len(f)) = f
      BY <2>2, <3>1
    <3> HIDE DEF f
    <3> QED
      BY <3>1, <3>2 DEF IsPrefix
  <2>4. n = Len(Link(p)) => q = p
    <3> HAVE n = Len(Link(p))
    <3>1. c = Len(p) /\ m = Len(Piece(p[c]))
      BY <2>1
    <3>x. x = <<>>
      <4>1. Len(Link(p)) \in Nat
        BY LinkTyped
      <4> QED
        BY <4>1
    <3>2. CutPair(p[c], m, x) = <<p[c]>>
      BY <2>2, <3>1, <3>x, PairWhole
    <3>3. q = SubSeq(p, 1, Len(p) - 1) \o <<p[Len(p)]>>
      BY <2>1, <3>1, <3>2
    <3> HIDE DEF S
    <3>4. SubSeq(p, 1, Len(p) - 1) \o <<p[Len(p)]>> = p
      <4>1. p \in Seq(S) /\ Len(p) # 0
        BY <1>2 DEF S
      <4> QED
        BY ONLY <4>1
    <3> QED
      BY <3>3, <3>4
  <2>5. CASE m <= Len(p[c].key)
    <3>1. CutPair(p[c], m, x) = <<>>
      BY <2>5 DEF CutPair
    <3>2. f \o <<>> = f
      <4> HIDE DEF f
      <4> QED
        BY <2>3
    <3>3. q = f
      BY <2>1, <3>1, <3>2
    <3> QED
      BY <2>3, <2>4, <3>3 DEF CutShort
  <2>6. CASE ~(m <= Len(p[c].key))
    <3> DEFINE i == m - Len(p[c].key) - 1
               d == UrlDecode(x)
               v == SubSeq(p[c].val, 1, i) \o d
               r == [key |-> p[c].key, val |-> v]
    <3>1. CutPair(p[c], m, x) = <<r>>
      BY <2>6 DEF CutPair
    <3>2. i \in 0 .. Len(p[c].val) /\ p[c].val \in Seq(Chars) /\ p[c].key \in Seq(Chars)
      <4> DEFINE k == Len(p[c].key)
                 w == Len(p[c].val)
      <4>1. k \in Nat /\ w \in Nat /\ Len(Piece(p[c])) = k + 1 + w
        BY <2>2, PieceText
      <4>2. m \in 0 .. k + 1 + w /\ ~(m <= k)
        BY <2>6, <4>1
      <4>3. p[c].val \in Seq(Chars) /\ p[c].key \in Seq(Chars)
        BY <2>2 DEF PairSet
      <4> HIDE DEF k, w
      <4>4. m - k - 1 \in 0 .. w
        BY <4>1, <4>2
      <4> QED
        BY <4>3, <4>4 DEF k, w
    <3>3. v \in Seq(Chars) /\ CutValue(v, p[c].val)
      <4> DEFINE y == p[c].val
                 z == SubSeq(y, 1, i)
      <4>0. i = m - Len(p[c].key) - 1
        OBVIOUS
      <4>1. i \in 0 .. Len(y) /\ y \in Seq(Chars)
        BY <3>2
      <4>2. v = z \o d
        OBVIOUS
      <4>3. d \in Seq(Chars) /\ IF x = <<>> THEN d = <<>> ELSE d \in Beginnings
        BY StubText
      <4> HIDE DEF y, i, v, d
      <4>4. z \in Seq(Chars) /\ Len(z) = i /\ SubSeq(z, 1, i) = z
        BY <4>1
      <4>5. v \in Seq(Chars)
        <5> HIDE DEF z
        <5> QED
          BY <4>2, <4>3, <4>4
      <4>6. CASE x = <<>>
        <5>1. z \o <<>> = z
          BY <4>4
        <5>2. v = z
          BY <4>2, <4>3, <4>6, <5>1
        <5>3. Len(z) <= Len(y) /\ SubSeq(z, 1, Len(z)) = SubSeq(y, 1, Len(z))
          BY <4>1, <4>4
        <5> HIDE DEF z
        <5>4. IsPrefix(z, y)
          BY <5>3 DEF IsPrefix
        <5> QED
          BY <4>5, <5>2, <5>4 DEF CutValue, y
      <4>7. CASE x # <<>>
        <5> DEFINE k == Len(p[c].key)
                   l == Len(p[c].val)
        <5>1. /\ k \in Nat /\ l \in Nat /\ Len(Piece(p[c])) = k + 1 + l
              /\ \A g \in 1 .. l : Piece(p[c])[k + 1 + g] = EncodeChar(p[c].val[g])
          BY <2>2, PieceText
        <5>2. m < k + 1 + l /\ Piece(p[c])[m + 1].esc /\ m \in 0 .. k + 1 + l /\ ~(m <= k)
          BY <2>1, <2>6, <4>7, <5>1
        <5>3. i = m - k - 1
          BY <4>0
        <5> HIDE DEF k, l, z
        <5>4. i + 1 \in 1 .. l /\ m + 1 = k + 1 + (i + 1) /\ (i + 1) - 1 = i
          BY <5>1, <5>2, <5>3
        <5>5. EncodeChar(y[i + 1]).esc /\ i + 1 \in DOMAIN y
          <6>1. Piece(p[c])[k + 1 + (i + 1)] = EncodeChar(p[c].val[i + 1])
            BY <5>1, <5>4
          <6>2. EncodeChar(p[c].val[i + 1]).esc
            BY <5>2, <5>4, <6>1
          <6>3. DOMAIN y = 1 .. Len(y) /\ l = Len(y)
            BY <4>1 DEF y, l
          <6> QED
            BY <5>4, <6>2, <6>3 DEF y
        <5>6. d \in Beginnings /\ v = SubSeq(y, 1, (i + 1) - 1) \o d
          BY <4>2, <4>3, <4>7, <5>4 DEF z
        <5> QED
          BY <4>5, <5>5, <5>6 DEF CutValue, y
      <4> QED
        BY <4>6, <4>7
    <3>4. r \in S /\ r.key = p[c].key /\ r.val = v
      <4> HIDE DEF v
      <4> QED
        BY <3>2, <3>3 DEF PairSet
    <3> HIDE DEF r, f, v, i, d
    <3>5. q = f \o <<r>>
      BY <2>1, <3>1 DEF f
    <3>6. /\ q \in Seq(S) /\ Len(q) = c /\ SubSeq(q, 1, c - 1) = f /\ q[c] = r
      <4> HIDE DEF S
      <4>1. c = Len(f) + 1 /\ c - 1 = Len(f)
        BY <2>2, <2>3
      <4> SUFFICES /\ f \o <<r>> \in Seq(S) /\ Len(f \o <<r>>) = Len(f) + 1
                   /\ SubSeq(f \o <<r>>, 1, Len(f)) = f /\ (f \o <<r>>)[Len(f) + 1] = r
        BY <3>5, <4>1
      <4> QED
        BY <2>3, <3>4
    <3>7. Front(q) = f /\ Last(q) = r /\ q # <<>> /\ Len(q) <= Len(p)
      <4>1. Len(q) - 1 = c - 1 /\ Len(q) # 0 /\ Len(q) <= Len(p)
        BY <2>2, <3>6
      <4> QED
        BY <3>6, <4>1 DEF Front, Last
    <3>8. CutShort(q, p)
      BY <2>3, <3>3, <3>4, <3>6, <3>7 DEF CutShort
    <3> QED
      BY <2>4, <3>6, <3>8
  <2> QED
    BY <2>5, <2>6
<1> QED
  BY <1>1, <1>2

-----------------------------------------------------------------------------
(* Bodies of forms                                                         *)

Dispositions == { Disposition(n, f) : n \in Seq(Chars), f \in Files }
Tokens == {Boundary, Dashes, CRLF, Bytes, ContentType, OddType, NoColon, Half} \cup Dispositions

LEMMA TokenKinds ==
    /\ Boundary \in Tokens /\ Dashes \in Tokens /\ CRLF \in Tokens /\ Bytes \in Tokens
    /\ ContentType \in Tokens /\ OddType \in Tokens /\ NoColon \in Tokens /\ Half \in Tokens
    /\ Dashes # Boundary /\ CRLF # Boundary /\ Bytes # Boundary /\ ContentType # Boundary
    /\ OddType # Boundary /\ NoColon # Boundary /\ Half # Boundary /\ Half # CRLF
    /\ CRLF # Dashes /\ ContentType # CRLF /\ OddType # CRLF /\ NoColon # CRLF
    /\ \A n \in Seq(Chars) : \A f \in Files :
         Disposition(n, f) \in Tokens /\ Disposition(n, f) # Boundary /\ Disposition(n, f) # CRLF
<1>1. ASSUME NEW n \in Seq(Chars), NEW f \in Files
      PROVE  Disposition(n, f) \in Tokens /\ Disposition(n, f) # Boundary /\ Disposition(n, f) # CRLF
  <2>1. Disposition(n, f) \in Dispositions
    BY DEF Dispositions
  <2>2. Disposition(n, f).t = "disposition" /\ Boundary.t = "boundary" /\ CRLF.t = "crlf"
    BY DEF Disposition, Boundary, CRLF
  <2>3. Disposition(n, f) # Boundary /\ Disposition(n, f) # CRLF
    <3> DEFINE x == Disposition(n, f)
               y == Boundary
               z == CRLF
    <3>1. x.t # y.t /\ x.t # z.t
      BY <2>2
    <3> HIDE DEF x, y, z
    <3>2. x # y /\ x # z
      BY <3>1
    <3> QED
      BY <3>2 DEF x, y, z
  <2> QED
    BY <2>1, <2>3 DEF Tokens
<1>2. /\ Boundary \in Tokens /\ Dashes \in Tokens /\ CRLF \in Tokens /\ Bytes \in Tokens
      /\ ContentType \in Tokens /\ OddType \in Tokens /\ NoColon \in Tokens /\ Half \in Tokens
  BY DEF Tokens
<1>3. /\ Dashes # Boundary /\ CRLF # Boundary /\ Bytes # Boundary /\ ContentType # Boundary
      /\ OddType # Boundary /\ NoColon # Boundary /\ Half # Boundary /\ Half # CRLF
      /\ CRLF # Dashes /\ ContentType # CRLF /\ OddType # CRLF /\ NoColon # CRLF
  BY DEF Boundary, Dashes, CRLF, Bytes, ContentType, OddType, NoColon, Half
<1> QED
  BY <1>1, <1>2, <1>3

(* An odd type stands in a body only where a header put it.                *)
LEMMA OddKind ==
    /\ Dashes # OddType /\ CRLF # OddType /\ Bytes # OddType /\ ContentType # OddType
    /\ NoColon # OddType /\ Boundary # OddType
    /\ \A n \in Seq(Chars) : \A f \in Files : Disposition(n, f) # OddType
<1>1. /\ Dashes # OddType /\ CRLF # OddType /\ Bytes # OddType /\ ContentType # OddType
      /\ NoColon # OddType /\ Boundary # OddType
  BY DEF Boundary, Dashes, CRLF, Bytes, ContentType, OddType, NoColon
<1>2. ASSUME NEW n \in Seq(Chars), NEW f \in Files PROVE Disposition(n, f) # OddType
  <2> DEFINE x == Disposition(n, f)
             y == OddType
  <2>1. x.t = "disposition" /\ y.t = "odd"
    BY DEF Disposition, OddType
  <2> HIDE DEF x, y
  <2>2. x # y
    BY <2>1
  <2> QED
    BY <2>2 DEF x, y
<1> QED
  BY <1>1, <1>2

LEMMA HeadersText ==
    ASSUME NEW c \in Controls
    PROVE  /\ Headers(c) \in Seq(Tokens) /\ Len(Headers(c)) \in {0, 2, 4}
           /\ \A i \in 1 .. Len(Headers(c)) : Headers(c)[i] # Boundary
           /\ c.header = "none" => Len(Headers(c)) = 0
           /\ \A i \in 1 .. Len(Headers(c)) : Headers(c)[i] = OddType => c.header = "odd"
           /\ c.header = "type" => Len(Headers(c)) = 2 /\ Headers(c)[1] = ContentType /\ Headers(c)[2] = CRLF
           /\ c.header = "odd" => Len(Headers(c)) = 2 /\ Headers(c)[1] = OddType /\ Headers(c)[2] = CRLF
           /\ c.header = "folded" => /\ Len(Headers(c)) = 4
                                     /\ Headers(c)[1] = ContentType /\ Headers(c)[2] = CRLF
                                     /\ Headers(c)[3] = NoColon /\ Headers(c)[4] = CRLF
<1>0. c.header \in {"none", "type", "folded", "odd"}
  BY DEF Controls
<1> DEFINE T == Tokens
           x == ContentType
           y == CRLF
           z == NoColon
           v == OddType
           w == Boundary
<1>1. /\ x \in T /\ y \in T /\ z \in T /\ v \in T /\ x # w /\ y # w /\ z # w /\ v # w
      /\ x # v /\ y # v /\ z # v
  BY TokenKinds, OddKind
<1>2. CASE c.header = "none"
  <2>1. Headers(c) = <<>>
    BY <1>2 DEF Headers
  <2> HIDE DEF T
  <2>2. <<>> \in Seq(T) /\ Len(<<>>) = 0
    OBVIOUS
  <2> QED
    BY <1>2, <2>1, <2>2 DEF T
<1>3. CASE c.header = "type"
  <2>1. Headers(c) = <<x, y>>
    BY <1>3 DEF Headers
  <2> HIDE DEF T, x, y, z, v, w
  <2>2. <<x, y>> \in Seq(T) /\ Len(<<x, y>>) = 2 /\ <<x, y>>[1] = x /\ <<x, y>>[2] = y
    BY <1>1
  <2>3. \A i \in 1 .. 2 : <<x, y>>[i] # w /\ <<x, y>>[i] # v
    BY <1>1
  <2> QED
    BY <1>3, <2>1, <2>2, <2>3 DEF T, x, y, v, w
<1>5. CASE c.header = "odd"
  <2>1. Headers(c) = <<v, y>>
    BY <1>5 DEF Headers
  <2> HIDE DEF T, x, y, z, v, w
  <2>2. <<v, y>> \in Seq(T) /\ Len(<<v, y>>) = 2 /\ <<v, y>>[1] = v /\ <<v, y>>[2] = y
    BY <1>1
  <2>3. \A i \in 1 .. 2 : <<v, y>>[i] # w
    BY <1>1
  <2> QED
    BY <1>5, <2>1, <2>2, <2>3 DEF T, y, v, w
<1>4. CASE c.header = "folded"
  <2>1. Headers(c) = <<x, y, z, y>>
    BY <1>4 DEF Headers
  <2> HIDE DEF T, x, y, z, v, w
  <2> DEFINE h == <<x, y, z, y>>
  <2>2. h \in Seq(T) /\ Len(h) = 4 /\ h[1] = x /\ h[2] = y /\ h[3] = z /\ h[4] = y
    BY <1>1
  <2>3. \A i \in 1 .. 4 : h[i] # w /\ h[i] # v
    BY <1>1
  <2> HIDE DEF h
  <2>4. Headers(c) = h
    BY <2>1 DEF h
  <2> QED
    BY <1>4, <2>2, <2>3, <2>4 DEF T, x, y, z, v, w
<1> QED
  BY <1>0, <1>2, <1>3, <1>4, <1>5

HeadersLen(c) == Len(Headers(c))
DataLen(c) == Len(c.data)

(* The tokens of a part.                                                   *)
LEMMA PartText ==
    ASSUME NEW c \in Controls, NEW H, H = HeadersLen(c), NEW D, D = DataLen(c), NEW b, b = PartOf(c)
    PROVE  /\ b \in Seq(Tokens) /\ H \in {0, 2, 4} /\ D \in Nat /\ Len(b) = 7 + H + D
           /\ b[1] = Dashes /\ b[2] = Boundary /\ b[3] = CRLF
           /\ b[4] = Disposition(c.name, c.file) /\ b[5] = CRLF
           /\ \A i \in 1 .. H : b[5 + i] = Headers(c)[i]
           /\ b[6 + H] = CRLF
           /\ \A i \in 1 .. D : b[6 + H + i] = c.data[i]
           /\ b[7 + H + D] = CRLF
           /\ \A i \in 3 .. Len(b) : b[i] # Boundary
           /\ \A i \in 1 .. Len(b) : b[i] = OddType => c.header = "odd"
<1> DEFINE T == Tokens
           p == Disposition(c.name, c.file)
           q == CRLF
           r == Dashes
           v == OddType
           w == Boundary
           h == Headers(c)
           d == c.data
           x1 == <<r, w, q, p, q>>
           x2 == x1 \o h
           x3 == x2 \o <<q>>
           x4 == x3 \o d
           x5 == x4 \o <<q>>
<1>1. b = x5
  BY DEF PartOf
<1>2. c.name \in Seq(Chars) /\ c.file \in Files /\ d \in Seq({Bytes, CRLF, Dashes})
  BY DEF Controls
<1>3. /\ p \in T /\ q \in T /\ r \in T /\ w \in T /\ p # w /\ q # w /\ r # w
      /\ p # v /\ q # v /\ r # v /\ w # v
  BY <1>2, TokenKinds, OddKind
<1>4. d \in Seq(T) /\ D \in Nat /\ \A i \in 1 .. D : d[i] # w /\ d[i] # v
  <2> DEFINE S == {Bytes, CRLF, Dashes}
  <2>1. S \subseteq T /\ \A s \in S : s # w /\ s # v
    BY TokenKinds, OddKind
  <2>2. d \in Seq(S)
    BY <1>2
  <2> HIDE DEF S, T, d, v, w
  <2>3. d \in Seq(T) /\ Len(d) \in Nat /\ \A i \in 1 .. Len(d) : d[i] \in S
    BY <2>1, <2>2
  <2>4. D = Len(d)
    BY DEF d, DataLen
  <2> QED
    BY <2>1, <2>3, <2>4
<1>5. /\ h \in Seq(T) /\ H \in {0, 2, 4} /\ \A i \in 1 .. H : h[i] # w
      /\ \A i \in 1 .. H : h[i] = v => c.header = "odd"
  BY HeadersText DEF HeadersLen
<1>a. Len(h) = H /\ Len(d) = D
  BY DEF HeadersLen, DataLen
<1> HIDE DEF T, p, q, r, v, w, h, d
<1>n. H \in Nat /\ D \in Nat
  BY <1>4, <1>5
<1>6. /\ x1 \in Seq(T) /\ Len(x1) = 5 /\ x1[1] = r /\ x1[2] = w /\ x1[3] = q /\ x1[4] = p /\ x1[5] = q
  BY <1>3
<1> HIDE DEF x1
<1>7. /\ x2 \in Seq(T) /\ Len(x2) = 5 + H /\ \A i \in 1 .. 5 : x2[i] = x1[i]
      /\ \A i \in 1 .. H : x2[5 + i] = h[i]
  <2>1. h \in Seq(T) /\ x1 \in Seq(T)
    BY <1>5, <1>6
  <2>2. x2 = x1 \o h
    OBVIOUS
  <2> HIDE DEF x2
  <2>3. /\ x2 \in Seq(T) /\ Len(x2) = Len(x1) + Len(h)
        /\ \A i \in 1 .. Len(x1) : x2[i] = x1[i]
        /\ \A i \in 1 .. Len(h) : x2[Len(x1) + i] = h[i]
    BY <2>1, <2>2, ConcatFacts
  <2> QED
    BY <1>6, <1>a, <2>3
<1> HIDE DEF x2
<1>8. /\ x3 \in Seq(T) /\ Len(x3) = 6 + H /\ x3[6 + H] = q /\ \A i \in 1 .. 5 + H : x3[i] = x2[i]
  <2>1. /\ x3 \in Seq(T) /\ Len(x3) = (5 + H) + 1 /\ x3[(5 + H) + 1] = q
        /\ \A i \in 1 .. 5 + H : x3[i] = x2[i]
    BY <1>3, <1>7, AppendFacts
  <2>2. (5 + H) + 1 = 6 + H
    BY <1>5
  <2> QED
    BY <2>1, <2>2
<1> HIDE DEF x3
<1>9. /\ x4 \in Seq(T) /\ Len(x4) = 6 + H + D /\ \A i \in 1 .. 6 + H : x4[i] = x3[i]
      /\ \A i \in 1 .. D : x4[6 + H + i] = d[i]
  <2>1. d \in Seq(T) /\ x3 \in Seq(T)
    BY <1>4, <1>8
  <2>2. x4 = x3 \o d
    OBVIOUS
  <2> HIDE DEF x4
  <2>3. /\ x4 \in Seq(T) /\ Len(x4) = Len(x3) + Len(d)
        /\ \A i \in 1 .. Len(x3) : x4[i] = x3[i]
        /\ \A i \in 1 .. Len(d) : x4[Len(x3) + i] = d[i]
    BY <2>1, <2>2, ConcatFacts
  <2> QED
    BY <1>8, <1>a, <2>3
<1> HIDE DEF x4
<1>10. /\ x5 \in Seq(T) /\ Len(x5) = 7 + H + D /\ x5[7 + H + D] = q
       /\ \A i \in 1 .. 6 + H + D : x5[i] = x4[i]
  <2>1. /\ x5 \in Seq(T) /\ Len(x5) = (6 + H + D) + 1 /\ x5[(6 + H + D) + 1] = q
        /\ \A i \in 1 .. 6 + H + D : x5[i] = x4[i]
    <3>1. x4 \in Seq(T) /\ 6 + H + D = Len(x4) /\ q \in T
      BY <1>3, <1>9
    <3>2. x5 = x4 \o <<q>>
      OBVIOUS
    <3> HIDE DEF x5
    <3> QED
      BY <3>1, <3>2, AppendFacts
  <2>2. (6 + H + D) + 1 = 7 + H + D
    BY <1>n
  <2> QED
    BY <2>1, <2>2
<1> HIDE DEF x5
<1>11. b[1] = r /\ b[2] = w /\ b[3] = q /\ b[4] = p /\ b[5] = q
  <2>1. \A i \in 1 .. 5 : i \in 1 .. 5 + H /\ i \in 1 .. 6 + H /\ i \in 1 .. 6 + H + D
    BY <1>n
  <2>2. \A i \in 1 .. 5 : b[i] = x1[i]
    BY <1>1, <1>7, <1>8, <1>9, <1>10, <2>1
  <2> QED
    BY <1>6, <2>2
<1>12. \A i \in 1 .. H : b[5 + i] = h[i]
  <2> TAKE i \in 1 .. H
  <2>1. 5 + i \in 1 .. 5 + H /\ 5 + i \in 1 .. 6 + H /\ 5 + i \in 1 .. 6 + H + D
    BY <1>n
  <2> QED
    BY <1>1, <1>7, <1>8, <1>9, <1>10, <2>1
<1>13. b[6 + H] = q
  <2>1. 6 + H \in 1 .. 6 + H /\ 6 + H \in 1 .. 6 + H + D
    BY <1>n
  <2> QED
    BY <1>1, <1>8, <1>9, <1>10, <2>1
<1>14. \A i \in 1 .. D : b[6 + H + i] = d[i]
  <2> TAKE i \in 1 .. D
  <2>1. 6 + H + i \in 1 .. 6 + H + D
    BY <1>n
  <2> QED
    BY <1>1, <1>9, <1>10, <2>1
<1>15. b \in Seq(T) /\ Len(b) = 7 + H + D /\ b[7 + H + D] = q
  BY <1>1, <1>10
<1>16. ASSUME NEW i \in 1 .. Len(b)
       PROVE  (i >= 3 => b[i] # w) /\ (b[i] = v => c.header = "odd")
  <2>1. i \in Nat /\ i >= 1 /\ i <= 7 + H + D
    BY <1>n, <1>15
  <2>2. CASE i <= 5
    <3>1. i \in {1, 2, 3, 4, 5}
      BY <2>1, <2>2
    <3> QED
      BY <1>3, <1>11, <3>1
  <2>3. CASE i > 5 /\ i <= 5 + H
    <3>1. i - 5 \in 1 .. H /\ 5 + (i - 5) = i
      BY <1>5, <2>1, <2>3
    <3> QED
      BY <1>5, <1>12, <3>1
  <2>4. CASE i = 6 + H
    BY <1>3, <1>13, <2>4
  <2>5. CASE i > 6 + H /\ i <= 6 + H + D
    <3>1. i - (6 + H) \in 1 .. D /\ 6 + H + (i - (6 + H)) = i
      BY <1>n, <2>1, <2>5
    <3> QED
      BY <1>4, <1>14, <3>1
  <2>6. CASE i = 7 + H + D
    BY <1>3, <1>15, <2>6
  <2> QED
    BY <1>n, <2>1, <2>2, <2>3, <2>4, <2>5, <2>6
<1>17. \A i \in 3 .. Len(b) : b[i] # w
  <2> TAKE i \in 3 .. Len(b)
  <2>1. i \in 1 .. Len(b) /\ i >= 3
    BY <1>n, <1>15
  <2> QED
    BY <1>16, <2>1
<1>18. \A i \in 1 .. Len(b) : b[i] = v => c.header = "odd"
  BY <1>16
<1> QED
  BY <1>4, <1>5, <1>11, <1>12, <1>13, <1>14, <1>15, <1>17, <1>18 DEF T, p, q, r, v, w, h, d

(* The fields of a part                                                    *)

FieldSet == { Field(x) : x \in Tokens }
LineStates == [row : Nat \ {0}, fields : Seq(FieldSet), last : BOOLEAN]
FirstLine(a) == [row |-> a, fields |-> <<>>, last |-> FALSE]

LEMMA LineStep ==
    ASSUME NEW b \in Seq(Tokens), NEW s \in LineStates
    PROVE  NextLine(b, s) \in LineStates /\ s.row <= NextLine(b, s).row
<1> DEFINE e == NextOf(b, s.row, CRLF)
           FS == FieldSet
           f == Append(s.fields, Field(b[s.row]))
<1>1. s.row \in Nat \ {0} /\ s.fields \in Seq(FS) /\ s.last \in BOOLEAN
  BY DEF LineStates
<1>2. \/ e = 0
      \/ e \in s.row .. Len(b)
  BY <1>1, NextRight
<1>3. e # 0 => /\ e + 1 \in Nat \ {0} /\ s.row <= e + 1 /\ s.row \in 1 .. Len(b)
  <2> HIDE DEF e
  <2>1. Len(b) \in Nat
    OBVIOUS
  <2> QED
    BY <1>1, <1>2, <2>1
<1>4. e # 0 => f \in Seq(FS)
  <2> HAVE e # 0
  <2>1. b[s.row] \in Tokens
    BY <1>3
  <2>2. Field(b[s.row]) \in FS
    BY <2>1 DEF FieldSet
  <2> DEFINE x == Field(b[s.row])
             g == s.fields
  <2> HIDE DEF FS, x, g
  <2>3. x \in FS /\ g \in Seq(FS)
    BY <1>1, <2>2 DEF x, g
  <2>4. Append(g, x) \in Seq(FS)
    BY <2>3
  <2> QED
    BY <2>4 DEF x, g
<1> HIDE DEF e, f, FS
<1>5. CASE s.last \/ e = 0
  <2>1. NextLine(b, s) = [s EXCEPT !.last = TRUE]
    BY <1>5 DEF NextLine, e
  <2>2. [s EXCEPT !.last = TRUE] \in LineStates /\ [s EXCEPT !.last = TRUE].row = s.row
    BY DEF LineStates
  <2> QED
    BY <1>1, <2>1, <2>2
<1>6. CASE ~s.last /\ e # 0 /\ e = s.row
  <2>1. NextLine(b, s) = [s EXCEPT !.row = e + 1, !.last = TRUE]
    BY <1>6 DEF NextLine, e
  <2> DEFINE r == [s EXCEPT !.row = e + 1, !.last = TRUE]
  <2>2. r \in LineStates /\ r.row = e + 1
    BY <1>3, <1>6 DEF LineStates
  <2> QED
    BY <1>3, <1>6, <2>1, <2>2
<1>7. CASE ~s.last /\ e # 0 /\ e # s.row
  <2>1. NextLine(b, s) = [row |-> e + 1, fields |-> f, last |-> FALSE]
    BY <1>7 DEF NextLine, e, f
  <2>2. [row |-> e + 1, fields |-> f, last |-> FALSE] \in LineStates
    BY <1>3, <1>4, <1>7 DEF LineStates, FS
  <2> QED
    BY <1>3, <1>7, <2>1, <2>2
<1> QED
  BY <1>1, <1>5, <1>6, <1>7

LEMMA LinesLoop ==
    ASSUME NEW b \in Seq(Tokens), NEW a \in Nat \ {0}
    PROVE  \E E \in [Nat -> LineStates] :
             /\ E[0] = FirstLine(a) /\ \A n \in Nat : E[n + 1] = NextLine(b, E[n])
             /\ Lines(b, a) = E[Len(b)]
<1> DEFINE G == [s \in LineStates |-> NextLine(b, s)]
           H == CHOOSE f : f = [n \in Nat |-> IF n = 0 THEN FirstLine(a) ELSE NextLine(b, f[n - 1])]
<1>1. G \in [LineStates -> LineStates]
  BY LineStep
<1>2. FirstLine(a) \in LineStates
  <2>1. <<>> \in Seq(FieldSet)
    <3> DEFINE S == FieldSet
    <3> HIDE DEF S
    <3>1. <<>> \in Seq(S)
      OBVIOUS
    <3> QED
      BY <3>1 DEF S
  <2> QED
    BY <2>1 DEF FirstLine, LineStates
<1>3. PICK E \in [Nat -> LineStates] : E[0] = FirstLine(a) /\ \A n \in Nat : E[n + 1] = G[E[n]]
  <2> DEFINE x == FirstLine(a)
             S == LineStates
  <2>1. G \in [S -> S] /\ x \in S
    BY <1>1, <1>2
  <2> HIDE DEF G, x, S
  <2>2. PICK E : Turns(S, G, x, E)
    BY <2>1, Iterates
  <2>3. E \in [Nat -> S] /\ E[0] = x /\ \A n \in Nat : E[n + 1] = G[E[n]]
    BY <2>2 DEF Turns
  <2> QED
    BY <2>3 DEF x, S
<1>4. \A n \in Nat : E[n + 1] = NextLine(b, E[n])
  BY <1>3
<1>5. Lines(b, a) = H[Len(b)]
  BY DEF Lines, FirstLine
<1>6. E = [n \in Nat |-> IF n = 0 THEN FirstLine(a) ELSE NextLine(b, E[n - 1])]
  <2> DEFINE J == [n \in Nat |-> IF n = 0 THEN FirstLine(a) ELSE NextLine(b, E[n - 1])]
  <2>1. ASSUME NEW n \in Nat PROVE E[n] = J[n]
    <3>1. CASE n = 0
      BY <1>3, <3>1
    <3>2. CASE n # 0
      <4>1. n - 1 \in Nat /\ (n - 1) + 1 = n
        BY <3>2
      <4>2. E[(n - 1) + 1] = NextLine(b, E[n - 1])
        BY <1>4, <4>1
      <4> QED
        BY <3>2, <4>1, <4>2
    <3> QED
      BY <3>1, <3>2
  <2>2. J = [n \in Nat |-> J[n]] /\ E = [n \in Nat |-> E[n]]
    BY <1>3
  <2> HIDE DEF J
  <2>3. E = J
    BY <2>1, <2>2
  <2> QED
    BY <2>3 DEF J
<1>7. H = [n \in Nat |-> IF n = 0 THEN FirstLine(a) ELSE NextLine(b, H[n - 1])]
  BY <1>6
<1> HIDE DEF H
<1> DEFINE T == { n \in Nat : H[n] = E[n] }
<1>8. 0 \in T
  BY <1>3, <1>7
<1>9. ASSUME NEW n \in Nat, n \in T PROVE n + 1 \in T
  <2>1. n + 1 \in Nat /\ n + 1 # 0 /\ (n + 1) - 1 = n
    OBVIOUS
  <2>2. H[n + 1] = NextLine(b, H[n])
    BY <1>7, <2>1
  <2> QED
    BY <1>4, <1>9, <2>1, <2>2
<1>10. Nat \subseteq T
  <2> HIDE DEF T
  <2> QED
    BY <1>8, <1>9, SetInduction
<1>11. H[Len(b)] = E[Len(b)]
  <2>1. Len(b) \in T
    <3>1. Len(b) \in Nat
      OBVIOUS
    <3> HIDE DEF T
    <3> QED
      BY <1>10, <3>1
  <2> QED
    BY <2>1
<1> QED
  BY <1>3, <1>4, <1>5, <1>11

(* The lines of a part never reach back in front of it.                    *)
LEMMA LinesTyped ==
    ASSUME NEW b \in Seq(Tokens), NEW a \in Nat \ {0}
    PROVE  Lines(b, a) \in LineStates /\ Lines(b, a).row \in Nat \ {0} /\ a <= Lines(b, a).row
<1>1. PICK E \in [Nat -> LineStates] :
        /\ E[0] = FirstLine(a) /\ \A n \in Nat : E[n + 1] = NextLine(b, E[n])
        /\ Lines(b, a) = E[Len(b)]
  BY LinesLoop
<1> DEFINE T == { n \in Nat : a <= E[n].row }
<1>2. \A n \in Nat : E[n] \in LineStates /\ E[n].row \in Nat \ {0}
  <2> TAKE n \in Nat
  <2>1. E[n] \in LineStates
    BY <1>1
  <2> QED
    BY <2>1 DEF LineStates
<1>3. 0 \in T
  <2>1. E[0].row = a
    BY <1>1 DEF FirstLine
  <2> QED
    BY <2>1
<1>4. ASSUME NEW n \in Nat, n \in T PROVE n + 1 \in T
  <2>1. n + 1 \in Nat /\ E[n + 1] = NextLine(b, E[n])
    BY <1>1
  <2>2. E[n].row <= E[n + 1].row
    BY <1>2, <2>1, LineStep
  <2>3. a <= E[n].row
    BY <1>4
  <2>4. a <= E[n + 1].row
    BY <1>2, <2>1, <2>2, <2>3
  <2> QED
    BY <2>1, <2>4
<1>5. Nat \subseteq T
  <2> HIDE DEF T
  <2> QED
    BY <1>3, <1>4, SetInduction
<1>6. Len(b) \in Nat
  OBVIOUS
<1>7. Len(b) \in T
  <2> HIDE DEF T
  <2> QED
    BY <1>5, <1>6
<1> QED
  BY <1>1, <1>2, <1>6, <1>7

(* Before and behind the last of them.                                     *)
More(r, fs) == [row |-> r, fields |-> fs, last |-> FALSE]
Done(r, fs) == [row |-> r, fields |-> fs, last |-> TRUE]

LEMMA LineTaken ==
    ASSUME NEW b \in Seq(Tokens), NEW r \in Nat \ {0}, NEW fs, r + 1 <= Len(b),
           b[r] # CRLF, b[r + 1] = CRLF
    PROVE  NextLine(b, More(r, fs)) = More(r + 2, Append(fs, Field(b[r])))
<1> DEFINE s == More(r, fs)
<1>1. s.row = r /\ s.fields = fs /\ ~s.last
  BY DEF More
<1>2. NextOf(b, r, CRLF) = r + 1
  <2>1. r + 1 \in r .. Len(b)
    OBVIOUS
  <2>2. \A m \in r .. (r + 1) - 1 : b[m] # CRLF
    OBVIOUS
  <2> DEFINE tok == CRLF
  <2>3. b[r + 1] = tok /\ \A m \in r .. (r + 1) - 1 : b[m] # tok
    BY <2>2
  <2> HIDE DEF tok
  <2>4. NextOf(b, r, tok) = r + 1
    BY <2>1, <2>3, NextIs
  <2> QED
    BY <2>4 DEF tok
<1> DEFINE e == r + 1
<1>3. e # 0 /\ e # r /\ e + 1 = r + 2
  OBVIOUS
<1> HIDE DEF s, e
<1>4. NextOf(b, s.row, CRLF) = e
  BY <1>1, <1>2 DEF e
<1>5. NextLine(b, s) = [row |-> e + 1, fields |-> Append(s.fields, Field(b[s.row])), last |-> FALSE]
  BY <1>1, <1>3, <1>4 DEF NextLine
<1> QED
  BY <1>1, <1>3, <1>5 DEF s, More

LEMMA LineEmpty ==
    ASSUME NEW b \in Seq(Tokens), NEW r \in Nat \ {0}, NEW fs, r <= Len(b), b[r] = CRLF
    PROVE  NextLine(b, More(r, fs)) = Done(r + 1, fs)
<1> DEFINE s == More(r, fs)
<1>1. s.row = r /\ s.fields = fs /\ ~s.last
  BY DEF More
<1>2. NextOf(b, r, CRLF) = r
  <2>1. r \in r .. Len(b)
    OBVIOUS
  <2> DEFINE tok == CRLF
  <2>3. b[r] = tok /\ \A m \in r .. r - 1 : b[m] # tok
    OBVIOUS
  <2> HIDE DEF tok
  <2>4. NextOf(b, r, tok) = r
    BY <2>1, <2>3, NextIs
  <2> QED
    BY <2>4 DEF tok
<1>3. [s EXCEPT !.row = r + 1, !.last = TRUE] = Done(r + 1, fs)
  <2> DEFINE no == FALSE
             yes == TRUE
             t == [row |-> r, fields |-> fs, last |-> no]
             k == r + 1
             u == [row |-> k, fields |-> fs, last |-> no]
  <2> HIDE DEF no, yes, k
  <2>1. [t EXCEPT !.row = k] = u
    OBVIOUS
  <2>2. [u EXCEPT !.last = yes] = [row |-> k, fields |-> fs, last |-> yes]
    OBVIOUS
  <2>3. [t EXCEPT !.row = k, !.last = yes] = [row |-> k, fields |-> fs, last |-> yes]
    BY <2>1, <2>2
  <2> QED
    BY <2>3 DEF no, yes, k, More, Done
<1> HIDE DEF s
<1>4. NextOf(b, s.row, CRLF) = r
  BY <1>1, <1>2
<1>5. NextLine(b, s) = [s EXCEPT !.row = r + 1, !.last = TRUE]
  BY <1>1, <1>4 DEF NextLine
<1> QED
  BY <1>3, <1>5 DEF s

LEMMA LineStop ==
    ASSUME NEW b, NEW r, NEW fs
    PROVE  NextLine(b, Done(r, fs)) = Done(r, fs)
<1> DEFINE s == Done(r, fs)
<1>1. s.last /\ [s EXCEPT !.last = TRUE] = s
  <2>1. s.last
    BY DEF Done
  <2> DEFINE yes == TRUE
             t == [row |-> r, fields |-> fs, last |-> yes]
  <2> HIDE DEF yes
  <2>2. [t EXCEPT !.last = yes] = t
    OBVIOUS
  <2> QED
    BY <2>1, <2>2 DEF yes, Done
<1> HIDE DEF s
<1>2. NextLine(b, s) = [s EXCEPT !.last = TRUE]
  BY <1>1 DEF NextLine
<1> QED
  BY <1>1, <1>2 DEF s

(* The fields of a control's part.                                         *)
FieldsOf(c) ==
    <<Field(Disposition(c.name, c.file))>>
      \o CASE c.header = "none" -> <<>>
           [] c.header = "type" -> <<Field(ContentType)>>
           [] c.header = "odd" -> <<Field(OddType)>>
           [] c.header = "folded" -> <<Field(ContentType), Field(NoColon)>>

(* A loop that stands still does so for good.                              *)
LEMMA StandStill ==
    ASSUME NEW E, NEW k \in Nat, NEW n \in Nat, k <= n,
           \A i \in Nat : E[i] = E[k] => E[i + 1] = E[k]
    PROVE  E[n] = E[k]
<1> DEFINE T == { i \in Nat : E[k + i] = E[k] }
<1>1. 0 \in T
  OBVIOUS
<1>2. ASSUME NEW i \in Nat, i \in T PROVE i + 1 \in T
  <2>1. k + i \in Nat /\ (k + i) + 1 = k + (i + 1) /\ i + 1 \in Nat
    OBVIOUS
  <2>2. E[(k + i) + 1] = E[k]
    BY <1>2, <2>1
  <2> QED
    BY <2>1, <2>2
<1>3. Nat \subseteq T
  <2> HIDE DEF T
  <2> QED
    BY <1>1, <1>2, SetInduction
<1>4. n - k \in T /\ k + (n - k) = n
  <2>1. n - k \in Nat
    OBVIOUS
  <2> HIDE DEF T
  <2> QED
    BY <1>3, <2>1
<1> QED
  BY <1>4

LEMMA LinesWhole ==
    ASSUME NEW c \in Controls, NEW b \in Seq(Tokens), NEW a \in Nat, NEW H, H = HeadersLen(c),
           a + 6 + H <= Len(b), \A i \in 4 .. 6 + H : b[a + i] = PartOf(c)[i]
    PROVE  Lines(b, a + 4) = Done(a + 7 + H, FieldsOf(c))
<1> DEFINE p == PartOf(c)
           D == DataLen(c)
           d == Disposition(c.name, c.file)
           h == Headers(c)
           q == CRLF
           l == Len(b)
           t == IF c.header = "odd" THEN OddType ELSE ContentType
<1>1. /\ H \in {0, 2, 4} /\ p[4] = d /\ p[5] = q /\ \A i \in 1 .. H : p[5 + i] = h[i]
      /\ p[6 + H] = q
  BY PartText
<1>2. l \in Nat
  OBVIOUS
<1>3. d # q
  <2>1. c.name \in Seq(Chars) /\ c.file \in Files
    BY DEF Controls
  <2> QED
    BY <2>1, TokenKinds
<1>4. /\ H = 0 \/ H = 2 \/ H = 4
      /\ c.header = "none" => H = 0
      /\ c.header \in {"type", "odd"} => H = 2 /\ h[1] = t /\ h[2] = q
      /\ c.header = "folded" => H = 4 /\ h[1] = t /\ h[2] = q /\ h[3] = NoColon /\ h[4] = q
      /\ c.header \in {"none", "type", "folded", "odd"}
  <2>1. c.header \in {"none", "type", "folded", "odd"}
    BY DEF Controls
  <2> QED
    BY <1>1, <2>1, HeadersText DEF HeadersLen
<1>5. a + 4 \in Nat \ {0}
  OBVIOUS
<1>6. PICK E \in [Nat -> LineStates] :
        /\ E[0] = FirstLine(a + 4) /\ \A n \in Nat : E[n + 1] = NextLine(b, E[n])
        /\ Lines(b, a + 4) = E[l]
  BY <1>5, LinesLoop
<1>c. t # q /\ NoColon # q
  BY TokenKinds DEF q, t
<1> HIDE DEF p, d, h, q, l, t
<1> DEFINE fs == <<Field(d)>>
           r == Done(a + 7 + H, FieldsOf(c))
<1>7. /\ b[a + 4] = d /\ b[a + 5] = q /\ \A i \in 1 .. H : b[a + 5 + i] = h[i]
      /\ b[a + 6 + H] = q
  <2>1. 4 \in 4 .. 6 + H /\ 5 \in 4 .. 6 + H /\ 6 + H \in 4 .. 6 + H /\ a + (6 + H) = a + 6 + H
    BY <1>4
  <2>2. ASSUME NEW i \in 1 .. H PROVE b[a + 5 + i] = h[i]
    <3>1. 5 + i \in 4 .. 6 + H /\ a + (5 + i) = a + 5 + i
      BY <1>4
    <3>2. b[a + (5 + i)] = p[5 + i]
      BY <3>1 DEF p
    <3> QED
      BY <1>1, <3>1, <3>2
  <2> QED
    BY <1>1, <2>1, <2>2 DEF p
<1>8. E[1] = More(a + 6, fs)
  <2> DEFINE k == a + 4
             e == <<>>
  <2>1. E[0 + 1] = NextLine(b, E[0]) /\ E[0] = More(k, e)
    BY <1>6 DEF FirstLine, More
  <2>2. k \in Nat \ {0} /\ k + 1 <= Len(b) /\ k + 1 = a + 5 /\ k + 2 = a + 6
    BY <1>2, <1>4 DEF l
  <2>3. b[k] # CRLF /\ b[k + 1] = CRLF /\ b[k] = d
    BY <1>3, <1>7, <2>2 DEF q
  <2> HIDE DEF k
  <2>4. Append(e, Field(d)) = fs
    <3> DEFINE x == Field(d)
    <3> HIDE DEF x
    <3>2. Append(<<>>, x) = <<x>>
      OBVIOUS
    <3> QED
      BY <3>2 DEF x
  <2> HIDE DEF e, fs
  <2>5. NextLine(b, More(k, e)) = More(k + 2, Append(e, Field(b[k])))
    BY <2>2, <2>3, LineTaken
  <2>6. E[1] = NextLine(b, E[0])
    <3>1. 0 + 1 = 1
      OBVIOUS
    <3> QED
      BY <2>1, <3>1
  <2>7. Append(e, Field(b[k])) = fs
    BY <2>3, <2>4
  <2>8. NextLine(b, More(k, e)) = More(a + 6, fs)
    BY <2>2, <2>5, <2>7
  <2> QED
    BY <2>1, <2>6, <2>8
<1>t. /\ E[2] = NextLine(b, E[1]) /\ E[3] = NextLine(b, E[2]) /\ E[4] = NextLine(b, E[3])
  <2>1. E[1 + 1] = NextLine(b, E[1]) /\ E[2 + 1] = NextLine(b, E[2]) /\ E[3 + 1] = NextLine(b, E[3])
    BY <1>6
  <2> QED
    BY <2>1
<1>h. \A i \in 1 .. 4 : i <= H => b[a + 5 + i] = h[i]
  <2>1. H \in {0, 2, 4} /\ \A i \in 1 .. H : b[a + 5 + i] = h[i]
    BY <1>1, <1>7
  <2>2. \A i \in 1 .. 4 : i <= H => i \in 1 .. H
    BY <2>1
  <2> QED
    BY ONLY <2>1, <2>2
<1> DEFINE f == Field(t)
           g == Field(NoColon)
           fs2 == Append(fs, f)
           fs3 == Append(fs2, g)
           k == a + 6
<1>f. /\ c.header = "none" => FieldsOf(c) = fs
      /\ c.header \in {"type", "odd"} => FieldsOf(c) = fs2
      /\ c.header = "folded" => FieldsOf(c) = fs3
  <2> DEFINE x == Field(d)
  <2>1. c.header = "none" => FieldsOf(c) = <<x>> \o <<>>
    BY DEF FieldsOf, d
  <2>2. c.header \in {"type", "odd"} => FieldsOf(c) = <<x>> \o <<f>>
    BY DEF FieldsOf, d, t
  <2>3. c.header = "folded" => FieldsOf(c) = <<x>> \o <<f, g>>
    BY DEF FieldsOf, d, t
  <2> HIDE DEF x, f, g
  <2>4. <<x>> \o <<>> = <<x>> /\ <<x>> \o <<f>> = Append(<<x>>, f)
        /\ <<x>> \o <<f, g>> = Append(Append(<<x>>, f), g)
    OBVIOUS
  <2> QED
    BY <2>1, <2>2, <2>3, <2>4 DEF x
<1>k. /\ k \in Nat \ {0} /\ k + H <= l /\ k + 0 = k
      /\ k = a + 5 + 1 /\ k + 1 = a + 5 + 2 /\ k + 2 = a + 5 + 3 /\ k + 3 = a + 5 + 4
      /\ a + 6 + H = k + H /\ a + 7 + H = k + H + 1
  BY <1>2, <1>4 DEF l
<1> HIDE DEF k, fs
<1>9. E[4] = r
  <2>1. CASE c.header = "none"
    <3>1. H = 0 /\ b[k] = CRLF /\ k <= Len(b)
      BY <1>4, <1>7, <1>k, <2>1 DEF q, l
    <3>2. E[2] = Done(k + 1, fs)
      BY <1>8, <1>k, <1>t, <3>1, LineEmpty DEF k
    <3>3. E[4] = Done(k + 1, fs)
      BY <1>t, <3>2, LineStop
    <3>4. a + 7 + H = k + 1
      BY <1>k, <3>1
    <3> QED
      BY <1>f, <2>1, <3>3, <3>4
  <2>2. CASE c.header \in {"type", "odd"}
    <3>a. H = 2 /\ h[1] = t /\ h[2] = q
      BY <1>4, <2>2
    <3>b. b[k] = h[1] /\ b[k + 1] = h[2] /\ b[k + 2] = q
      BY <1>7, <1>k, <1>h, <3>a
    <3>1. H = 2 /\ b[k] = t /\ b[k + 1] = q /\ b[k + 2] = q
      BY <3>a, <3>b
    <3>2. k + 1 <= Len(b) /\ b[k] # CRLF /\ b[k + 1] = CRLF /\ k \in Nat \ {0}
      BY <1>2, <1>c, <1>k, <3>1 DEF q, l
    <3>3. NextLine(b, More(k, fs)) = More(k + 2, Append(fs, Field(b[k])))
      BY <3>2, LineTaken
    <3>4. E[2] = More(k + 2, fs2)
      BY <1>8, <1>t, <3>1, <3>3 DEF k
    <3>5. k + 2 <= Len(b) /\ b[k + 2] = CRLF /\ k + 2 \in Nat \ {0}
      BY <1>2, <1>k, <3>1 DEF q, l
    <3> HIDE DEF fs2
    <3>6. E[3] = Done((k + 2) + 1, fs2)
      BY <1>t, <3>4, <3>5, LineEmpty
    <3>7. E[4] = Done((k + 2) + 1, fs2)
      BY <1>t, <3>6, LineStop
    <3>8. a + 7 + H = (k + 2) + 1
      BY <1>k, <3>1
    <3> QED
      BY <1>f, <2>2, <3>7, <3>8
  <2>3. CASE c.header = "folded"
    <3>1. /\ H = 4 /\ b[k] = t /\ b[k + 1] = q /\ b[k + 2] = NoColon /\ b[k + 3] = q
          /\ b[k + 4] = q
      <4>1. H = 4 /\ h[1] = t /\ h[2] = q /\ h[3] = NoColon /\ h[4] = q
        BY <1>4, <2>3
      <4>2. b[k] = h[1] /\ b[k + 1] = h[2] /\ b[k + 2] = h[3] /\ b[k + 3] = h[4] /\ b[k + 4] = q
        BY <1>7, <1>k, <1>h, <4>1
      <4> QED
        BY <4>1, <4>2
    <3>2. k + 1 <= Len(b) /\ b[k] # CRLF /\ b[k + 1] = CRLF /\ k \in Nat \ {0}
      BY <1>2, <1>c, <1>k, <3>1 DEF q, l
    <3>3. NextLine(b, More(k, fs)) = More(k + 2, Append(fs, Field(b[k])))
      BY <3>2, LineTaken
    <3>4. E[2] = More(k + 2, fs2)
      BY <1>8, <1>t, <3>1, <3>3 DEF k
    <3> DEFINE j == k + 2
    <3>5. /\ j + 1 = k + 3 /\ j + 2 = k + 4 /\ j + 2 + 1 = a + 7 + H /\ j + 1 <= Len(b)
          /\ j + 2 <= Len(b) /\ j \in Nat \ {0} /\ j + 2 \in Nat \ {0}
      <4>1. k \in Nat \ {0} /\ l \in Nat /\ k + 4 <= l /\ a + 7 + H = k + 4 + 1
        BY <1>2, <1>k, <3>1
      <4> QED
        BY <4>1 DEF l
    <3>6. b[j] = NoColon /\ b[j] # CRLF /\ b[j + 1] = CRLF /\ b[j + 2] = CRLF
      BY <1>c, <3>1, <3>5 DEF q
    <3> HIDE DEF fs2, j
    <3>7. NextLine(b, More(j, fs2)) = More(j + 2, Append(fs2, Field(b[j])))
      BY <3>5, <3>6, LineTaken
    <3>8. E[3] = More(j + 2, fs3)
      BY <1>t, <3>4, <3>6, <3>7 DEF j
    <3> HIDE DEF fs3
    <3>9. E[4] = Done(j + 2 + 1, fs3)
      BY <1>t, <3>5, <3>6, <3>8, LineEmpty
    <3> QED
      BY <1>f, <2>3, <3>5, <3>9
  <2> QED
    BY <1>4, <2>1, <2>2, <2>3
<1>10. E[l] = r
  <2>1. ASSUME NEW i \in Nat, E[i] = E[4] PROVE E[i + 1] = E[4]
    <3>1. E[i + 1] = NextLine(b, E[i])
      BY <1>6
    <3>2. NextLine(b, r) = r
      BY LineStop
    <3> HIDE DEF r
    <3> QED
      BY <1>9, <2>1, <3>1, <3>2
  <2>2. 4 <= l
    BY <1>2, <1>4 DEF l
  <2>3. 4 \in Nat
    OBVIOUS
  <2> HIDE DEF r
  <2>4. E[l] = E[4]
    BY <1>2, <2>1, <2>2, <2>3, StandStill
  <2> QED
    BY <1>9, <2>4
<1> HIDE DEF r
<1> QED
  BY <1>6, <1>10 DEF r

-----------------------------------------------------------------------------
(* Where the parts of a form lie in its body B: the k-th ends at A[k].     *)

FormParts(f) == [i \in DOMAIN f |-> PartOf(f[i])]

Laid(f, B, A) ==
    /\ f \in Seq(Controls) /\ B \in Seq(Tokens) /\ A \in [0 .. Len(f) -> Nat] /\ A[0] = 0
    /\ Len(B) = A[Len(f)] + 4
    /\ \A k \in 0 .. Len(f) : k <= A[k] /\ \A i \in k .. Len(f) : A[k] <= A[i]
    /\ \A k \in 1 .. Len(f) : /\ A[k] = A[k - 1] + Len(PartOf(f[k]))
                              /\ \A j \in 1 .. Len(PartOf(f[k])) : B[A[k - 1] + j] = PartOf(f[k])[j]
    /\ \A j \in 1 .. 4 : B[A[Len(f)] + j] = Closing[j]

LEMMA ClosingText ==
    /\ Closing \in Seq(Tokens) /\ Len(Closing) = 4
    /\ Closing[1] = Dashes /\ Closing[2] = Boundary /\ Closing[3] = Dashes /\ Closing[4] = CRLF
<1> DEFINE T == Tokens
           x == Dashes
           y == Boundary
           z == CRLF
<1>1. x \in T /\ y \in T /\ z \in T
  BY TokenKinds
<1>2. Closing = <<x, y, x, z>>
  BY DEF Closing
<1> HIDE DEF T, x, y, z
<1> DEFINE c == <<x, y, x, z>>
<1>3. c \in Seq(T) /\ Len(c) = 4 /\ c[1] = x /\ c[2] = y /\ c[3] = x /\ c[4] = z
  BY <1>1
<1> HIDE DEF c
<1>4. Closing = c
  BY <1>2 DEF c
<1> QED
  BY <1>3, <1>4 DEF T, x, y, z

LEMMA PartTyped ==
    ASSUME NEW c \in Controls
    PROVE  /\ PartOf(c) \in Seq(Tokens)
           /\ HeadersLen(c) \in {0, 2, 4} /\ DataLen(c) \in Nat
           /\ Len(PartOf(c)) = 7 + HeadersLen(c) + DataLen(c)
           /\ Len(PartOf(c)) \in Nat /\ Len(PartOf(c)) >= 7
<1> DEFINE H == HeadersLen(c)
           D == DataLen(c)
           b == PartOf(c)
<1>1. b \in Seq(Tokens) /\ H \in {0, 2, 4} /\ D \in Nat /\ Len(b) = 7 + H + D
  BY PartText
<1> HIDE DEF H, D, b
<1>2. Len(b) \in Nat /\ Len(b) >= 7
  BY <1>1
<1> QED
  BY <1>1, <1>2 DEF H, D, b

LEMMA BodyLaid ==
    ASSUME NEW f \in Seq(Controls)
    PROVE  \E A : Laid(f, Body(f), A)
<1> DEFINE ss == FormParts(f)
           N == Len(f)
           X == Tokens
           B == Body(f)
<1>1. N \in Nat /\ DOMAIN f = 1 .. N /\ \A k \in 1 .. N : f[k] \in Controls
  <2> DEFINE S == Controls
  <2>1. f \in Seq(S)
    OBVIOUS
  <2> HIDE DEF S
  <2> QED
    BY <2>1 DEF S
<1>2. \A k \in 1 .. N : /\ ss[k] = PartOf(f[k]) /\ ss[k] \in Seq(X)
                        /\ Len(ss[k]) \in Nat /\ Len(ss[k]) # 0
  <2> TAKE k \in 1 .. N
  <2>1. f[k] \in Controls /\ ss[k] = PartOf(f[k])
    BY <1>1 DEF FormParts
  <2>2. PartOf(f[k]) \in Seq(X) /\ Len(PartOf(f[k])) \in Nat /\ Len(PartOf(f[k])) >= 7
    BY <2>1, PartTyped
  <2> QED
    BY <2>1, <2>2
<1>3. ss \in Seq(Seq(X)) /\ Len(ss) = N
  <2> DEFINE S == Seq(X)
  <2>1. ss = [i \in 1 .. N |-> PartOf(f[i])]
    BY <1>1 DEF FormParts
  <2>2. \A k \in 1 .. N : PartOf(f[k]) \in S
    BY <1>2
  <2> HIDE DEF S
  <2>3. ss \in [1 .. N -> S]
    BY <2>1, <2>2
  <2> HIDE DEF ss, N
  <2>4. ss \in Seq(S) /\ Len(ss) = N
    BY <1>1, <2>3
  <2> QED
    BY <2>4 DEF S
<1>4. PICK F : Joins(X, ss, F)
  <2> HIDE DEF ss, X
  <2> QED
    BY <1>3, JoinsExists
<1> DEFINE A == [k \in 0 .. N |-> At(F, k)]
           g == F[N]
           c == Closing
<1>5. B = g \o c
  <2>1. FlattenSeq(ss) = F[Len(ss)]
    BY <1>4, FlattenIs
  <2>2. B = FlattenSeq(ss) \o c
    BY DEF Body, FormParts
  <2> HIDE DEF ss, c
  <2> QED
    BY <1>3, <2>1, <2>2
<1> HIDE DEF ss, X, B
<1>6. /\ At(F, 0) = 0 /\ \A k \in 0 .. N : F[k] \in Seq(X) /\ At(F, k) \in Nat
  BY <1>3, <1>4, JoinStart
<1>7. A \in [0 .. N -> Nat] /\ \A k \in 0 .. N : A[k] = At(F, k)
  BY <1>6
<1>8. g \in Seq(X) /\ Len(g) = At(F, N) /\ N \in 0 .. N
  <2>1. N \in 0 .. N
    BY <1>1
  <2> QED
    BY <1>6, <2>1 DEF At
<1>9. c \in Seq(X) /\ Len(c) = 4
  BY ClosingText DEF X
<1> HIDE DEF g, c, A
<1>10. /\ B \in Seq(X) /\ Len(B) = Len(g) + Len(c)
       /\ \A i \in 1 .. Len(g) : B[i] = g[i]
       /\ \A i \in 1 .. Len(c) : B[Len(g) + i] = c[i]
  <2>1. g \in Seq(X) /\ c \in Seq(X) /\ B = g \o c
    BY <1>5, <1>8, <1>9
  <2> QED
    BY <2>1, ConcatFacts
<1>11. \A k \in 0 .. N : k <= A[k] /\ \A i \in k .. N : A[k] <= A[i]
  <2>1. \A k \in 1 .. Len(ss) : Len(ss[k]) # 0
    BY <1>2, <1>3
  <2>2. \A k \in 0 .. N : k <= At(F, k)
    BY <1>3, <1>4, <2>1, JoinLong
  <2>3. \A k \in 0 .. N : \A i \in k .. N : At(F, k) <= At(F, i)
    BY <1>3, <1>4, JoinPrefix
  <2>4. ASSUME NEW k \in 0 .. N, NEW i \in k .. N PROVE A[k] <= A[i]
    <3>1. i \in 0 .. N
      BY <1>1
    <3> QED
      BY <1>7, <2>3, <3>1
  <2> QED
    BY <1>7, <2>2, <2>4
<1>12. ASSUME NEW k \in 1 .. N
       PROVE  /\ A[k] = A[k - 1] + Len(PartOf(f[k]))
              /\ \A j \in 1 .. Len(PartOf(f[k])) : B[A[k - 1] + j] = PartOf(f[k])[j]
  <2>1. k \in 1 .. Len(ss) /\ k \in 0 .. N /\ k - 1 \in 0 .. N /\ N \in k .. Len(ss)
    BY <1>1, <1>3
  <2>2. At(F, k) = At(F, k - 1) + Len(ss[k])
    BY <1>4, <2>1, JoinStep
  <2>3. ASSUME NEW j \in 1 .. Len(ss[k]) PROVE B[A[k - 1] + j] = ss[k][j]
    <3>1. /\ At(F, k - 1) + j \in 1 .. At(F, N) /\ F[N][At(F, k - 1) + j] = ss[k][j]
      BY <1>4, <2>1, JoinPiece
    <3>2. B[At(F, k - 1) + j] = g[At(F, k - 1) + j]
      BY <1>8, <1>10, <3>1
    <3> QED
      BY <1>7, <2>1, <3>1, <3>2 DEF g
  <2>4. ss[k] = PartOf(f[k])
    BY <1>2
  <2> QED
    BY <1>7, <2>1, <2>2, <2>3, <2>4
<1>13. Len(B) = A[N] + 4 /\ \A j \in 1 .. 4 : B[A[N] + j] = c[j]
  BY <1>7, <1>8, <1>9, <1>10
<1>14. A[0] = 0
  <2>1. 0 \in 0 .. N
    BY <1>1
  <2> QED
    BY <1>6, <1>7, <2>1
<1>15. Laid(f, B, A)
  BY <1>7, <1>10, <1>11, <1>12, <1>13, <1>14 DEF Laid, c, X
<1> QED
  BY <1>15 DEF B

(* The boundaries of a body.                                               *)
LEMMA Boundaries ==
    ASSUME NEW f, NEW B, NEW A, Laid(f, B, A), NEW k \in 0 .. Len(f)
    PROVE  /\ A[k] \in Nat /\ Len(f) \in Nat /\ A[k] + 4 <= Len(B)
           /\ B[A[k] + 1] = Dashes /\ B[A[k] + 2] = Boundary
           /\ k # 0 => A[k] # 0 /\ B[A[k]] # Boundary
           /\ k = Len(f) => B[A[k] + 3] = Dashes
           /\ k < Len(f) => /\ B[A[k] + 3] = CRLF /\ A[k + 1] \in Nat
                            /\ A[k + 1] = A[k] + Len(PartOf(f[k + 1]))
                            /\ \A i \in A[k] + 3 .. A[k + 1] + 1 : B[i] # Boundary
<1> DEFINE N == Len(f)
<1>1. N \in Nat /\ k \in Nat /\ A[k] \in Nat /\ A[N] \in Nat /\ A[k] <= A[N] /\ Len(B) = A[N] + 4 /\ k <= A[k]
  <2>1. N \in Nat
    BY DEF Laid
  <2>2. N \in k .. N /\ N \in 0 .. N
    BY <2>1
  <2> QED
    BY <2>1, <2>2 DEF Laid
<1>2. \A i \in 1 .. N :
        /\ f[i] \in Controls /\ A[i] = A[i - 1] + Len(PartOf(f[i])) /\ A[i - 1] \in Nat /\ A[i] \in Nat
        /\ \A j \in 1 .. Len(PartOf(f[i])) : B[A[i - 1] + j] = PartOf(f[i])[j]
  <2> TAKE i \in 1 .. N
  <2>1. i \in 0 .. N /\ i - 1 \in 0 .. N
    BY <1>1
  <2>2. f[i] \in Controls
    <3> DEFINE S == Controls
    <3>1. f \in Seq(S)
      BY DEF Laid
    <3> HIDE DEF S
    <3> QED
      BY <3>1 DEF S
  <2> QED
    BY <2>1, <2>2 DEF Laid
<1>a. k # 0 => A[k] # 0 /\ B[A[k]] # Boundary
  <2> HAVE k # 0
  <2>1. k \in 1 .. N
    BY <1>1
  <2> DEFINE p == PartOf(f[k])
             l == Len(p)
  <2>2. l \in Nat /\ l >= 7 /\ \A i \in 3 .. l : p[i] # Boundary
    <3>1. f[k] \in Controls
      BY <1>2, <2>1
    <3>2. l \in Nat /\ l >= 7
      BY <3>1, PartTyped
    <3>3. \A i \in 3 .. l : p[i] # Boundary
      BY <3>1, PartText
    <3> QED
      BY <3>2, <3>3
  <2>3. A[k] = A[k - 1] + l /\ \A j \in 1 .. l : B[A[k - 1] + j] = p[j]
    BY <1>2, <2>1
  <2> HIDE DEF p, l
  <2>4. l \in 3 .. l /\ l \in 1 .. l
    BY <2>2
  <2>5. B[A[k]] = p[l]
    BY <2>3, <2>4
  <2> QED
    BY <1>1, <2>2, <2>4, <2>5
<1>b. k < N => /\ B[A[k] + 1] = Dashes /\ B[A[k] + 2] = Boundary
               /\ B[A[k] + 3] = CRLF /\ A[k + 1] \in Nat
               /\ A[k + 1] = A[k] + Len(PartOf(f[k + 1]))
               /\ \A i \in A[k] + 3 .. A[k + 1] + 1 : B[i] # Boundary
  <2> HAVE k < N
  <2>1. k + 1 \in 1 .. N /\ (k + 1) - 1 = k
    BY <1>1
  <2> DEFINE p == PartOf(f[k + 1])
             l == Len(p)
  <2>2. /\ l \in Nat /\ l >= 7 /\ p[1] = Dashes /\ p[2] = Boundary /\ p[3] = CRLF
        /\ \A i \in 3 .. l : p[i] # Boundary
    <3>1. f[k + 1] \in Controls
      BY <1>2, <2>1
    <3>2. l \in Nat /\ l >= 7
      BY <3>1, PartTyped
    <3>3. p[1] = Dashes /\ p[2] = Boundary /\ p[3] = CRLF
      BY <3>1, PartText
    <3>4. \A i \in 3 .. l : p[i] # Boundary
      BY <3>1, PartText
    <3> QED
      BY <3>2, <3>3, <3>4
  <2>3. A[k + 1] = A[k] + l /\ A[k + 1] \in Nat /\ \A j \in 1 .. l : B[A[k] + j] = p[j]
    BY <1>2, <2>1
  <2> HIDE DEF p, l
  <2>4. 1 \in 1 .. l /\ 2 \in 1 .. l /\ 3 \in 1 .. l
    BY <2>2
  <2>5. B[A[k] + 1] = Dashes /\ B[A[k] + 2] = Boundary /\ B[A[k] + 3] = CRLF
    BY <2>2, <2>3, <2>4
  <2>6. B[A[k + 1] + 1] = Dashes
    <3>1. CASE k + 1 = N
      <4>1. B[A[N] + 1] = Closing[1]
        BY DEF Laid
      <4> QED
        BY <3>1, <4>1, ClosingText
    <3>2. CASE k + 1 # N
      <4>1. (k + 1) + 1 \in 1 .. N /\ ((k + 1) + 1) - 1 = k + 1
        BY <1>1, <2>1, <3>2
      <4> DEFINE m == (k + 1) + 1
                 r == PartOf(f[m])
      <4>2. f[m] \in Controls /\ \A j \in 1 .. Len(r) : B[A[k + 1] + j] = r[j]
        BY <1>2, <4>1
      <4>3. Len(r) \in Nat /\ Len(r) >= 7 /\ r[1] = Dashes
        <5>1. Len(r) \in Nat /\ Len(r) >= 7
          BY <4>2, PartTyped
        <5>2. r[1] = Dashes
          BY <4>2, PartText
        <5> QED
          BY <5>1, <5>2
      <4> HIDE DEF r, m
      <4>4. 1 \in 1 .. Len(r)
        BY <4>3
      <4> QED
        BY <4>2, <4>3, <4>4
    <3> QED
      BY <3>1, <3>2
  <2>7. ASSUME NEW i \in A[k] + 3 .. A[k + 1] + 1 PROVE B[i] # Boundary
    <3>1. CASE i = A[k + 1] + 1
      BY <2>6, <3>1, TokenKinds
    <3>2. CASE i # A[k + 1] + 1
      <4>1. i - A[k] \in 3 .. l /\ i - A[k] \in 1 .. l /\ A[k] + (i - A[k]) = i
        <5> DEFINE x == A[k]
                   y == A[k + 1]
        <5>1. x \in Nat /\ y = x + l /\ l \in Nat /\ i \in x + 3 .. y + 1 /\ i # y + 1
          BY <1>1, <2>2, <2>3, <3>2
        <5> HIDE DEF x, y
        <5>2. i - x \in 3 .. l /\ i - x \in 1 .. l /\ x + (i - x) = i
          BY <5>1
        <5> QED
          BY <5>2 DEF x
      <4>2. B[A[k] + (i - A[k])] = p[i - A[k]]
        BY <2>3, <4>1
      <4> QED
        BY <2>2, <4>1, <4>2
    <3> QED
      BY <3>1, <3>2
  <2> QED
    BY <2>3, <2>5, <2>7 DEF l, p
<1>c. k = N => /\ B[A[k] + 1] = Dashes /\ B[A[k] + 2] = Boundary /\ B[A[k] + 3] = Dashes
  <2>1. B[A[N] + 1] = Closing[1] /\ B[A[N] + 2] = Closing[2] /\ B[A[N] + 3] = Closing[3]
    BY DEF Laid
  <2> QED
    BY <2>1, ClosingText
<1>d. A[k] + 4 <= Len(B) /\ (k < N \/ k = N)
  BY <1>1
<1> QED
  BY <1>1, <1>a, <1>b, <1>c, <1>d

-----------------------------------------------------------------------------
(* The parts that are read                                                 *)

(* Behind the data of a part follows the rest of what was read.            *)
ReadPart(c, r) == [fields |-> FieldsOf(c), data |-> c.data, rest |-> r]
PartRest(f, A, b, i) == SubSeq(b, A[i - 1] + 7 + HeadersLen(f[i]), Len(b))
ReadParts(f, A, b) == [i \in DOMAIN f |-> ReadPart(f[i], PartRest(f, A, b, i))]

(* The parser after k parts.                                               *)
Reached(f, A, b, k) ==
    [row |-> IF k = 0 THEN 1 ELSE A[k], parts |-> SubSeq(ReadParts(f, A, b), 1, k)]

(* The first n tokens, and perhaps half of the next.                       *)
IsCut(b, B, n) ==
    /\ b \in Seq(Tokens) /\ Len(b) \in {n, n + 1}
    /\ \A i \in 1 .. n : b[i] = B[i]
    /\ Len(b) = n + 1 => b[n + 1] = Half /\ n < Len(B)

LEMMA CutBody ==
    ASSUME NEW f, NEW B, NEW A, Laid(f, B, A), NEW n \in 0 .. Len(B), NEW b, IsCut(b, B, n)
    PROVE  /\ n \in Nat /\ b \in Seq(Tokens) /\ Len(b) \in Nat /\ n <= Len(b) /\ Len(b) <= n + 1
           /\ \A i \in 1 .. n : b[i] = B[i]
           /\ \A i \in n + 1 .. Len(b) : b[i] = Half
           /\ n = Len(B) => Len(b) = n
<1>1. n \in Nat /\ b \in Seq(Tokens) /\ (Len(b) = n \/ Len(b) = n + 1) /\ n <= Len(B) /\ Len(B) \in Nat
  <2>1. B \in Seq(Tokens)
    BY DEF Laid
  <2>2. Len(B) \in Nat
    <3> DEFINE T == Tokens
    <3>1. B \in Seq(T)
      BY <2>1
    <3> HIDE DEF T
    <3> QED
      BY <3>1
  <2> QED
    BY <2>2 DEF IsCut
<1>2. \A i \in 1 .. n : b[i] = B[i]
  BY DEF IsCut
<1>3. Len(b) = n + 1 => b[n + 1] = Half /\ n < Len(B)
  BY DEF IsCut
<1>4. ASSUME NEW i \in n + 1 .. Len(b) PROVE b[i] = Half
  <2>1. i = n + 1 /\ Len(b) = n + 1
    BY <1>1
  <2> QED
    BY <1>3, <2>1
<1>5. Len(b) \in Nat /\ n <= Len(b) /\ Len(b) <= n + 1 /\ (n = Len(B) => Len(b) = n)
  BY <1>1, <1>3
<1> QED
  BY <1>1, <1>2, <1>4, <1>5

LEMMA PartStarts ==
    ASSUME NEW f, NEW B, NEW A, Laid(f, B, A), NEW n \in 0 .. Len(B), NEW b, IsCut(b, B, n),
           NEW k \in 0 .. Len(f)
    PROVE  /\ Reached(f, A, b, k).row \in Nat \ {0}
           /\ A[k] + 2 <= n => NextOf(b, Reached(f, A, b, k).row, Boundary) = A[k] + 2
           /\ ~(A[k] + 2 <= n) => NextOf(b, Reached(f, A, b, k).row, Boundary) = 0
<1> DEFINE r == Reached(f, A, b, k).row
<1>1. /\ n \in Nat /\ b \in Seq(Tokens) /\ Len(b) \in Nat /\ n <= Len(b) /\ Len(b) <= n + 1
      /\ \A i \in 1 .. n : b[i] = B[i]
  BY CutBody
<1>w. \A i \in n + 1 .. Len(b) : b[i] = Half
  BY CutBody
<1>2. /\ A[k] \in Nat /\ A[k] + 4 <= Len(B)
      /\ B[A[k] + 1] = Dashes /\ B[A[k] + 2] = Boundary
      /\ k # 0 => A[k] # 0 /\ B[A[k]] # Boundary
  BY Boundaries
<1>3. r = IF k = 0 THEN 1 ELSE A[k]
  BY DEF Reached
<1>4. k = 0 => A[k] = 0
  BY DEF Laid
<1> HIDE DEF r
<1> DEFINE a == A[k]
           tok == Boundary
<1>5. r \in Nat \ {0} /\ r <= a + 1 /\ a \in Nat
  BY <1>2, <1>3, <1>4
<1>6. \A i \in r .. a + 1 : B[i] # tok
  <2> TAKE i \in r .. a + 1
  <2>1. i = a + 1 \/ (k # 0 /\ i = a)
    BY <1>2, <1>3, <1>4, <1>5
  <2>2. Dashes # tok
    BY TokenKinds
  <2> QED
    BY <1>2, <2>1, <2>2
<1>7. ASSUME a + 2 <= n PROVE NextOf(b, r, tok) = a + 2
  <2>1. a + 2 \in r .. Len(b) /\ a + 2 \in 1 .. n
    BY <1>1, <1>5, <1>7
  <2>2. b[a + 2] = tok
    BY <1>1, <1>2, <2>1
  <2>3. \A i \in r .. (a + 2) - 1 : b[i] # tok
    <3> TAKE i \in r .. (a + 2) - 1
    <3>1. i \in r .. a + 1 /\ i \in 1 .. n
      BY <1>1, <1>5, <1>7
    <3> QED
      BY <1>1, <1>6, <3>1
  <2> DEFINE m == a + 2
  <2>4. m \in r .. Len(b) /\ b[m] = tok /\ \A i \in r .. m - 1 : b[i] # tok
    BY <2>1, <2>2, <2>3
  <2> HIDE DEF a, tok, m
  <2>5. NextOf(b, r, tok) = m
    BY <1>1, <1>5, <2>4, NextIs
  <2> QED
    BY <2>5 DEF m
<1>8. ASSUME ~(a + 2 <= n) PROVE NextOf(b, r, tok) = 0
  <2>1. \A i \in r .. Len(b) : b[i] # tok
    <3> TAKE i \in r .. Len(b)
    <3>1. CASE i <= n
      <4>1. i \in r .. a + 1 /\ i \in 1 .. n
        BY <1>1, <1>5, <1>8, <3>1
      <4> QED
        BY <1>1, <1>6, <4>1
    <3>2. CASE ~(i <= n)
      <4>1. i \in n + 1 .. Len(b)
        BY <1>1, <1>5, <3>2
      <4> QED
        BY <1>w, <4>1, TokenKinds
    <3> QED
      BY <3>1, <3>2
  <2> HIDE DEF a, tok
  <2> QED
    BY <1>1, <1>5, <2>1, NextNone
<1> QED
  BY <1>5, <1>7, <1>8 DEF r

LEMMA PartStop ==
    ASSUME NEW f, NEW B, NEW A, Laid(f, B, A), NEW n \in 0 .. Len(B), NEW b, IsCut(b, B, n),
           NEW k \in 0 .. Len(f), k = Len(f) \/ A[k + 1] + 2 > n
    PROVE  NextPart(b, Reached(f, A, b, k)) = Reached(f, A, b, k)
<1> DEFINE s == Reached(f, A, b, k)
           a == A[k]
           j == NextOf(b, s.row, Boundary)
           h == Lines(b, j + 2)
           e == NextOf(b, h.row, Boundary)
<1>1. /\ n \in Nat /\ b \in Seq(Tokens) /\ Len(b) \in Nat /\ n <= Len(b) /\ Len(b) <= n + 1
      /\ \A i \in 1 .. n : b[i] = B[i]
  BY CutBody
<1>w. \A i \in n + 1 .. Len(b) : b[i] = Half
  BY CutBody
<1>2. /\ A[k] \in Nat /\ Len(f) \in Nat
      /\ k = Len(f) => B[A[k] + 3] = Dashes
      /\ k < Len(f) => A[k + 1] \in Nat /\ \A i \in A[k] + 3 .. A[k + 1] + 1 : B[i] # Boundary
  BY Boundaries
<1>3. /\ s.row \in Nat \ {0}
      /\ a + 2 <= n => j = a + 2
      /\ ~(a + 2 <= n) => j = 0
  BY PartStarts
<1>4. a \in Nat
  BY <1>2
<1> HIDE DEF s, a, j, e
<1>5. SUFFICES ASSUME j # 0, j # Len(b), b[j + 1] # Dashes PROVE e = 0
  BY DEF NextPart, s, j, e
<1>6. j = a + 2 /\ a + 2 <= n /\ j + 1 = a + 3 /\ j + 2 \in Nat \ {0}
  BY <1>1, <1>3, <1>4, <1>5
<1>7. a + 3 <= n => k # Len(f)
  <2> HAVE a + 3 <= n
  <2>1. b[a + 3] = B[a + 3]
    BY <1>1, <1>4
  <2> QED
    BY <1>2, <1>5, <1>6, <2>1 DEF a
<1>8. a + 3 <= n => A[k + 1] \in Nat /\ A[k + 1] + 2 > n /\ \A i \in a + 3 .. A[k + 1] + 1 : B[i] # Boundary
  <2> HAVE a + 3 <= n
  <2>1. k < Len(f)
    BY <1>2, <1>7
  <2> QED
    BY <1>2, <1>7, <2>1 DEF a
<1>9. h.row \in Nat \ {0} /\ j + 2 <= h.row
  BY <1>1, <1>6, LinesTyped
<1> DEFINE x == h.row
           y == A[k + 1]
           tok == Boundary
<1> HIDE DEF h, x, y, tok
<1>10. \A i \in x .. Len(b) : b[i] # tok
  <2> TAKE i \in x .. Len(b)
  <2>0. x \in Nat \ {0} /\ j + 2 <= x
    BY <1>9 DEF x
  <2>1. CASE i <= n
    <3>0. a + 3 <= n /\ i \in 1 .. n
      BY <1>1, <1>4, <1>6, <2>0, <2>1
    <3>1. i \in a + 3 .. y + 1
      <4>1. y \in Nat /\ y + 2 > n
        BY <1>8, <3>0 DEF y
      <4> QED
        BY <1>1, <1>4, <1>6, <2>0, <2>1, <4>1
    <3>2. B[i] # tok
      BY <1>8, <3>0, <3>1 DEF y, tok
    <3> QED
      BY <1>1, <3>0, <3>2
  <2>2. CASE ~(i <= n)
    <3>1. i \in n + 1 .. Len(b)
      BY <1>1, <2>0, <2>2
    <3> QED
      BY <1>w, <3>1, TokenKinds DEF tok
  <2> QED
    BY <2>1, <2>2
<1>11. x \in Nat \ {0}
  BY <1>9 DEF x
<1>12. NextOf(b, x, tok) = 0
  BY <1>1, <1>10, <1>11, NextNone
<1> QED
  BY <1>12 DEF e, x, tok

LEMMA PartTaken ==
    ASSUME NEW f, NEW B, NEW A, Laid(f, B, A), NEW n \in 0 .. Len(B), NEW b, IsCut(b, B, n),
           NEW k \in 0 .. Len(f), k < Len(f), A[k + 1] + 2 <= n
    PROVE  NextPart(b, Reached(f, A, b, k)) = Reached(f, A, b, k + 1)
<1> DEFINE s == Reached(f, A, b, k)
           a == A[k]
           z == A[k + 1]
           c == f[k + 1]
           p == PartOf(c)
           H == HeadersLen(c)
           D == DataLen(c)
           j == NextOf(b, s.row, Boundary)
           h == Lines(b, j + 2)
           e == NextOf(b, h.row, Boundary)
           rp == ReadParts(f, A, b)
           rr == PartRest(f, A, b, k + 1)
<1>1. /\ n \in Nat /\ b \in Seq(Tokens) /\ Len(b) \in Nat /\ n <= Len(b) /\ Len(b) <= n + 1
      /\ \A i \in 1 .. n : b[i] = B[i]
  BY CutBody
<1>w. \A i \in n + 1 .. Len(b) : b[i] = Half
  BY CutBody
<1>2. /\ a \in Nat /\ Len(f) \in Nat /\ z \in Nat /\ B[a + 3] = CRLF /\ B[z + 2] = Boundary
      /\ z = a + Len(p) /\ \A i \in a + 3 .. z + 1 : B[i] # Boundary
  <2>1. /\ A[k] \in Nat /\ Len(f) \in Nat
        /\ B[A[k] + 3] = CRLF /\ A[k + 1] \in Nat
        /\ A[k + 1] = A[k] + Len(PartOf(f[k + 1]))
        /\ \A i \in A[k] + 3 .. A[k + 1] + 1 : B[i] # Boundary
    BY Boundaries
  <2>2. k + 1 \in 0 .. Len(f)
    BY <2>1
  <2>3. B[A[k + 1] + 2] = Boundary
    BY <2>2, Boundaries
  <2> QED
    BY <2>1, <2>3
<1>3. /\ k + 1 \in 1 .. Len(f) /\ f[k + 1] \in Controls /\ DOMAIN f = 1 .. Len(f)
  <2>1. k + 1 \in 1 .. Len(f)
    BY <1>2
  <2> DEFINE S == Controls
  <2>2. f \in Seq(S)
    BY DEF Laid
  <2> HIDE DEF S
  <2>3. f[k + 1] \in S /\ DOMAIN f = 1 .. Len(f)
    BY <2>1, <2>2
  <2> QED
    BY <2>1, <2>3 DEF S
<1>4. H \in {0, 2, 4} /\ D \in Nat /\ Len(p) = 7 + H + D
  BY <1>3, PartTyped
<1>5. \A i \in 1 .. Len(p) : B[a + i] = p[i]
  <2>1. (k + 1) - 1 = k
    OBVIOUS
  <2> QED
    BY <1>3, <2>1 DEF Laid
<1>6. /\ s.row \in Nat \ {0}
      /\ a + 2 <= n => j = a + 2
  BY PartStarts
<1>7. \A i \in 1 .. D : p[6 + H + i] = c.data[i]
  BY <1>3, PartText
<1>8. s.parts = SubSeq(rp, 1, k)
  BY DEF Reached
<1>z. z + 2 <= n
  OBVIOUS
<1>c. c \in Controls
  BY <1>3
<1>r. rr = SubSeq(b, a + 7 + H, Len(b))
  <2>1. (k + 1) - 1 = k
    OBVIOUS
  <2> QED
    BY <2>1 DEF PartRest
<1> HIDE DEF s, a, z, c, p, H, D, j, h, e, rp, rr
<1>n. H \in Nat /\ z = a + 7 + H + D /\ H <= 4
  BY <1>2, <1>4
<1>9. j = a + 2 /\ j # 0 /\ j # Len(b) /\ j + 1 = a + 3 /\ j + 2 = a + 4 /\ j + 1 \in 1 .. n
  <2>1. a + 2 <= n /\ a \in Nat /\ a + 2 # n /\ a + 3 \in 1 .. n
    BY <1>1, <1>2, <1>4, <1>n, <1>z
  <2> QED
    BY <1>1, <1>6, <2>1
<1>10. b[j + 1] # Dashes
  <2>1. b[j + 1] = CRLF
    BY <1>1, <1>2, <1>9
  <2> QED
    BY <2>1, TokenKinds
<1>11. h = Done(a + 7 + H, FieldsOf(c))
  <2>1. a + 6 + H <= Len(b)
    BY <1>1, <1>2, <1>4, <1>n, <1>z
  <2>2. ASSUME NEW i \in 4 .. 6 + H PROVE b[a + i] = PartOf(c)[i]
    <3>1. i \in 1 .. Len(p) /\ a + i \in 1 .. n
      BY <1>1, <1>2, <1>4, <1>n, <1>z
    <3>2. b[a + i] = B[a + i] /\ B[a + i] = p[i]
      BY <1>1, <1>5, <3>1
    <3> QED
      BY <3>2 DEF p
  <2>3. Lines(b, a + 4) = Done(a + 7 + H, FieldsOf(c))
    BY <1>1, <1>2, <1>c, <2>1, <2>2, LinesWhole DEF H
  <2> QED
    BY <1>9, <2>3 DEF h
<1>12. h.row = a + 7 + H /\ h.fields = FieldsOf(c)
  BY <1>11 DEF Done
<1> DEFINE r == a + 7 + H
           tok == Boundary
<1>13. r \in Nat \ {0} /\ z + 2 \in r .. Len(b) /\ z + 2 \in 1 .. n
  BY <1>1, <1>2, <1>4, <1>n, <1>z
<1>14. \A i \in r .. (z + 2) - 1 : b[i] # tok
  <2> TAKE i \in r .. (z + 2) - 1
  <2>1. i \in a + 3 .. z + 1 /\ i \in 1 .. n
    <3>1. a \in Nat /\ z \in Nat /\ n \in Nat /\ z + 2 <= n
      BY <1>1, <1>2, <1>4, <1>n, <1>z
    <3>2. r \in Nat /\ a + 3 <= r
      BY <1>1, <1>2, <1>n
    <3> HIDE DEF r
    <3> QED
      BY ONLY i \in r .. (z + 2) - 1, <3>1, <3>2
  <2> QED
    BY <1>1, <1>2, <2>1
<1>15. b[z + 2] = tok
  BY <1>1, <1>2, <1>13
<1> HIDE DEF r, tok
<1>16. NextOf(b, r, tok) = z + 2
  <2> DEFINE m == z + 2
  <2>1. m \in r .. Len(b) /\ b[m] = tok /\ \A i \in r .. m - 1 : b[i] # tok
    BY <1>13, <1>14, <1>15
  <2> HIDE DEF m
  <2>2. NextOf(b, r, tok) = m
    BY <1>1, <1>13, <2>1, NextIs
  <2> QED
    BY <2>2 DEF m
<1>17. e = z + 2
  BY <1>12, <1>16 DEF e, r, tok
<1>18. SubSeq(b, h.row, e - 3) = c.data
  <2> DEFINE q == a + 6 + H
             d == c.data
             T == Tokens
  <2>1. q \in Nat /\ h.row = q + 1 /\ e - 3 = q + D /\ q + D <= Len(b) /\ D \in 0 .. Len(d)
        /\ Len(d) = D
    <3>1. Len(d) = D
      BY DEF D, DataLen
    <3> HIDE DEF d
    <3> QED
      BY <1>1, <1>2, <1>4, <1>n, <1>z, <1>12, <1>17, <3>1
  <2>2. d \in Seq(T)
    <3> DEFINE S == {Bytes, CRLF, Dashes}
    <3>1. S \subseteq T
      BY TokenKinds
    <3>2. d \in Seq(S)
      BY <1>c DEF Controls
    <3> HIDE DEF S, T, d
    <3> QED
      BY <3>1, <3>2
  <2>3. ASSUME NEW i \in 1 .. D PROVE b[q + i] = d[i]
    <3>1. 6 + H + i \in 1 .. Len(p) /\ a + (6 + H + i) = q + i /\ q + i \in 1 .. n
      <4>1. 6 + H + i \in 1 .. Len(p)
        BY <1>1, <1>2, <1>4, <1>n, <1>z
      <4>2. a + (6 + H + i) = q + i
        BY <1>1, <1>2, <1>4, <1>n, <1>z
      <4>3. q + i \in 1 .. n
        BY <1>1, <1>2, <1>4, <1>n, <1>z
      <4> QED
        BY <4>1, <4>2, <4>3
    <3>2. B[a + (6 + H + i)] = p[6 + H + i]
      BY <1>5, <3>1
    <3>3. b[q + i] = B[q + i]
      BY <1>1, <3>1
    <3> QED
      BY <1>7, <3>1, <3>2, <3>3
  <2> HIDE DEF q, d
  <2>4. SubSeq(b, q + 1, q + D) = SubSeq(d, 1, D)
    BY <1>1, <2>1, <2>2, <2>3, PieceAt
  <2>5. SubSeq(d, 1, D) = d
    <3> HIDE DEF T
    <3>1. SubSeq(d, 1, Len(d)) = d
      BY <2>2
    <3> QED
      BY <2>1, <3>1
  <2> QED
    BY <2>1, <2>4, <2>5 DEF d
<1>19. NextPart(b, s) = [row |-> e - 2, parts |-> Append(s.parts, [fields |-> h.fields, data |-> SubSeq(b, h.row, e - 3), rest |-> SubSeq(b, h.row, Len(b))])]
  <2>1. e # 0
    BY <1>13, <1>17
  <2> QED
    BY <1>9, <1>10, <2>1 DEF NextPart, s, j, h, e
<1>20. Append(s.parts, ReadPart(c, rr)) = SubSeq(rp, 1, k + 1)
  <2> DEFINE S == { ReadPart(f[i], PartRest(f, A, b, i)) : i \in 1 .. Len(f) }
             N == Len(f)
  <2>1. rp = [i \in 1 .. N |-> ReadPart(f[i], PartRest(f, A, b, i))]
    BY <1>3 DEF rp, ReadParts
  <2>2. rp \in [1 .. N -> S] /\ rp[k + 1] = ReadPart(c, rr)
    BY <1>3, <2>1 DEF c, rr
  <2> HIDE DEF S, N
  <2>3. N \in Nat /\ k + 1 \in 1 .. N /\ k \in Nat
    BY <1>2, <1>3 DEF N
  <2>4. rp \in Seq(S) /\ Len(rp) = N
    BY <2>2, <2>3
  <2>5. Append(SubSeq(rp, 1, k), rp[k + 1]) = SubSeq(rp, 1, k + 1)
    BY <2>3, <2>4
  <2> QED
    BY <1>8, <2>2, <2>5
<1>21. NextPart(b, s) = [row |-> z, parts |-> SubSeq(rp, 1, k + 1)]
  <2>1. e - 2 = z
    BY <1>2, <1>17
  <2>2. [fields |-> h.fields, data |-> SubSeq(b, h.row, e - 3), rest |-> SubSeq(b, h.row, Len(b))] = ReadPart(c, rr)
    BY <1>12, <1>18, <1>r DEF ReadPart
  <2> QED
    BY <1>19, <1>20, <2>1, <2>2
<1>22. Reached(f, A, b, k + 1) = [row |-> z, parts |-> SubSeq(rp, 1, k + 1)]
  <2>1. k + 1 # 0
    OBVIOUS
  <2> QED
    BY <2>1 DEF Reached, z, rp
<1> QED
  BY <1>21, <1>22 DEF s

LEMMA PartsIs ==
    ASSUME NEW b, Len(b) \in Nat, NEW E,
           E = [n \in Nat |-> IF n = 0 THEN [row |-> 1, parts |-> <<>>] ELSE NextPart(b, E[n - 1])]
    PROVE  Parts(b) = E[Len(b)].parts
<1> DEFINE H == CHOOSE f : f = [n \in Nat |-> IF n = 0 THEN [row |-> 1, parts |-> <<>>]
                                             ELSE NextPart(b, f[n - 1])]
           T == { n \in Nat : H[n] = E[n] }
<1>1. Parts(b) = H[Len(b)].parts
  BY DEF Parts
<1>2. H = [n \in Nat |-> IF n = 0 THEN [row |-> 1, parts |-> <<>>] ELSE NextPart(b, H[n - 1])]
  OBVIOUS
<1> HIDE DEF H
<1>3. 0 \in T
  BY <1>2
<1>4. ASSUME NEW n \in Nat, n \in T PROVE n + 1 \in T
  <2>1. n + 1 \in Nat /\ n + 1 # 0 /\ (n + 1) - 1 = n
    OBVIOUS
  <2>2. H[n + 1] = NextPart(b, H[n])
    BY <1>2, <2>1
  <2>3. E[n + 1] = NextPart(b, E[n])
    BY <2>1
  <2> QED
    BY <1>4, <2>1, <2>2, <2>3
<1>5. Nat \subseteq T
  <2> HIDE DEF T
  <2> QED
    BY <1>3, <1>4, SetInduction
<1>6. Len(b) \in T
  <2> HIDE DEF T
  <2> QED
    BY <1>5
<1> QED
  BY <1>1, <1>6

(* The parser finds the parts whose end arrived.                           *)
LEMMA PartsCut ==
    ASSUME NEW f, NEW B, NEW A, Laid(f, B, A), NEW n \in 0 .. Len(B), NEW b, IsCut(b, B, n)
    PROVE  \E K \in 0 .. Len(f) : /\ Parts(b) = SubSeq(ReadParts(f, A, b), 1, K)
                                  /\ n = Len(B) => K = Len(f)
<1> DEFINE N == Len(f)
           T == { c \in 1 .. N + 1 : c = N + 1 \/ A[c] + 2 > n }
<1>1. n \in Nat /\ b \in Seq(Tokens) /\ Len(b) \in Nat /\ n <= Len(b)
  BY CutBody
<1>2. N \in Nat /\ Len(B) = A[N] + 4 /\ A[N] \in Nat
  <2>1. N \in Nat
    BY DEF Laid
  <2>2. N \in 0 .. N
    BY <2>1
  <2> QED
    BY <2>1, <2>2 DEF Laid
<1>3. PICK c \in T : \A y \in T : c <= y
  <2>1. T \subseteq Nat /\ N + 1 \in T
    BY <1>2
  <2> HIDE DEF T
  <2> QED
    BY <2>1, LeastNat
<1> DEFINE K == c - 1
<1>4. /\ K \in 0 .. N /\ c = K + 1 /\ (K = N \/ A[K + 1] + 2 > n)
      /\ \A k \in 1 .. K : A[k] + 2 <= n
  <2>1. c \in 1 .. N + 1 /\ (c = N + 1 \/ A[c] + 2 > n)
    OBVIOUS
  <2>2. K \in 0 .. N /\ c = K + 1 /\ (K = N \/ A[K + 1] + 2 > n)
    BY <1>2, <2>1
  <2>3. ASSUME NEW k \in 1 .. K PROVE A[k] + 2 <= n
    <3>1. k \in 1 .. N + 1 /\ k \in 0 .. N /\ ~(c <= k)
      BY <1>2, <2>2
    <3>2. k \notin T
      <4> HIDE DEF T
      <4> QED
        BY <1>3, <3>1
    <3>3. ~(A[k] + 2 > n)
      BY <3>1, <3>2
    <3>4. A[k] \in Nat
      BY <3>1 DEF Laid
    <3> QED
      BY <1>1, <3>3, <3>4
  <2> QED
    BY <2>2, <2>3
<1> HIDE DEF K
<1> DEFINE S(i) == Reached(f, A, b, i)
           E == [i \in Nat |-> IF i < K THEN S(i) ELSE S(K)]
<1>5. n = Len(B) => K = N
  <2> HAVE n = Len(B)
  <2>1. CASE K # N
    <3>1. K + 1 \in 0 .. N /\ N \in K + 1 .. N
      BY <1>2, <1>4, <2>1
    <3>2. A[K + 1] <= A[N] /\ A[K + 1] \in Nat
      BY <3>1 DEF Laid
    <3> QED
      BY <1>2, <1>4, <2>1, <3>2
  <2> QED
    BY <2>1
<1>6. S(0) = [row |-> 1, parts |-> <<>>]
  <2> DEFINE rp == ReadParts(f, A, b)
  <2>1. SubSeq(rp, 1, 0) = <<>>
    <3> DEFINE V == { ReadPart(f[i], PartRest(f, A, b, i)) : i \in 1 .. N }
    <3>1. rp \in [1 .. N -> V]
      <4>1. DOMAIN f = 1 .. N
        <5> DEFINE Q == Controls
        <5>1. f \in Seq(Q)
          BY DEF Laid
        <5> HIDE DEF Q
        <5> QED
          BY <5>1
      <4> QED
        BY <4>1 DEF ReadParts
    <3> HIDE DEF V, N, rp
    <3>2. rp \in Seq(V)
      BY <1>2, <3>1
    <3> QED
      BY <3>2
  <2> QED
    BY <2>1 DEF Reached
<1>7. ASSUME NEW k \in 0 .. K, k # K PROVE NextPart(b, S(k)) = S(k + 1)
  <2>1. k \in 0 .. N /\ k < N /\ k + 1 \in 1 .. K
    BY <1>2, <1>4, <1>7
  <2>2. A[k + 1] + 2 <= n
    BY <1>4, <2>1
  <2> QED
    BY <2>1, <2>2, PartTaken
<1>8. NextPart(b, S(K)) = S(K)
  BY <1>4, PartStop
<1> HIDE DEF S, N
<1>9. E = [i \in Nat |-> IF i = 0 THEN [row |-> 1, parts |-> <<>>] ELSE NextPart(b, E[i - 1])]
  <2> DEFINE J == [i \in Nat |-> IF i = 0 THEN [row |-> 1, parts |-> <<>>] ELSE NextPart(b, E[i - 1])]
  <2>1. ASSUME NEW i \in Nat PROVE E[i] = J[i]
    <3>1. CASE i = 0
      <4>1. E[0] = S(0)
        <5>1. K \in Nat
          BY <1>2, <1>4
        <5>2. ~(0 < K) => K = 0
          BY <5>1
        <5>3. CASE 0 < K
          BY <5>3
        <5>4. CASE K = 0
          BY <5>4
        <5> QED
          BY <5>2, <5>3, <5>4
      <4> HIDE DEF E
      <4> QED
        BY <1>6, <3>1, <4>1
    <3>2. CASE i # 0
      <4>0. K \in Nat /\ i - 1 \in Nat
        BY <1>2, <1>4, <3>2
      <4>1. J[i] = NextPart(b, E[i - 1])
        <5> HIDE DEF E
        <5> QED
          BY <3>2
      <4>2. CASE i < K
        <5>1. i - 1 < K /\ i - 1 \in 0 .. K /\ i - 1 # K /\ (i - 1) + 1 = i
          BY <3>2, <4>0, <4>2
        <5>2. E[i] = S(i) /\ E[i - 1] = S(i - 1)
          BY <4>0, <4>2, <5>1
        <5>3. NextPart(b, S(i - 1)) = S((i - 1) + 1)
          BY <1>7, <5>1
        <5> HIDE DEF E, J
        <5> QED
          BY <4>1, <5>1, <5>2, <5>3
      <4>3. CASE i = K
        <5>1. i - 1 < K /\ i - 1 \in 0 .. K /\ i - 1 # K /\ (i - 1) + 1 = i /\ ~(i < K)
          BY <3>2, <4>0, <4>3
        <5>2. E[i] = S(K) /\ E[i - 1] = S(i - 1)
          BY <4>0, <4>3, <5>1
        <5>3. NextPart(b, S(i - 1)) = S((i - 1) + 1)
          BY <1>7, <5>1
        <5> HIDE DEF E, J
        <5> QED
          BY <4>1, <4>3, <5>1, <5>2, <5>3
      <4>4. CASE i > K
        <5>1. ~(i - 1 < K) /\ ~(i < K)
          BY <3>2, <4>0, <4>4
        <5>2. E[i] = S(K) /\ E[i - 1] = S(K)
          BY <4>0, <5>1
        <5> HIDE DEF E, J
        <5> QED
          BY <1>8, <4>1, <5>2
      <4> QED
        BY <4>0, <4>2, <4>3, <4>4
    <3> QED
      BY <3>1, <3>2
  <2>2. J = [i \in Nat |-> J[i]] /\ E = [i \in Nat |-> E[i]]
    OBVIOUS
  <2> HIDE DEF J, E
  <2>3. E = J
    BY <2>1, <2>2
  <2> QED
    BY <2>3 DEF J
<1>10. Parts(b) = E[Len(b)].parts
  <2>1. Len(b) \in Nat
    BY <1>1
  <2> HIDE DEF E
  <2> QED
    BY <1>9, <2>1, PartsIs
<1>11. K <= n
  <2>1. CASE K = 0
    BY <1>1, <2>1
  <2>2. CASE K # 0
    <3>1. K \in 1 .. K /\ K \in 0 .. N
      BY <1>2, <1>4, <2>2
    <3>2. A[K] + 2 <= n
      BY <1>4, <3>1
    <3>3. A[K] \in Nat /\ K <= A[K]
      <4>1. \A k \in 0 .. N : A[k] \in Nat /\ k <= A[k]
        BY DEF Laid, N
      <4> QED
        BY <3>1, <4>1
    <3>4. K \in Nat
      BY <1>2, <1>4
    <3> QED
      BY <1>1, <3>2, <3>3, <3>4
  <2> QED
    BY <2>1, <2>2
<1>12. E[Len(b)] = S(K)
  <2>1. K \in Nat
    BY <1>2, <1>4
  <2>2. ~(Len(b) < K)
    BY <1>1, <1>11, <2>1
  <2> QED
    BY <1>1, <2>2
<1>13. Parts(b) = SubSeq(ReadParts(f, A, b), 1, K)
  <2>1. S(K).parts = SubSeq(ReadParts(f, A, b), 1, K)
    BY DEF S, Reached
  <2> HIDE DEF E
  <2> QED
    BY <1>10, <1>12, <2>1
<1> QED
  BY <1>4, <1>5, <1>13 DEF N

-----------------------------------------------------------------------------
(* What the array holds of the parts                                       *)

LEMMA FlattenOne ==
    ASSUME NEW X, NEW ss, ss \in Seq(Seq(X)), Len(ss) # 0, \A k \in 2 .. Len(ss) : ss[k] = <<>>
    PROVE  FlattenSeq(ss) = ss[1]
<1> DEFINE N == Len(ss)
           Y == Seq(X)
           e == ss[1]
           F == [k \in 0 .. N |-> IF k = 0 THEN <<>> ELSE e]
<1>1. N \in Nat /\ N # 0 /\ \A k \in 1 .. N : ss[k] \in Y
  <2> HIDE DEF Y
  <2>1. ss \in Seq(Y)
    BY DEF Y
  <2> QED
    BY <2>1
<1>2. e \in Y /\ <<>> \in Y
  <2>1. 1 \in 1 .. N
    BY <1>1
  <2> QED
    BY <1>1, <2>1
<1>3. F \in [0 .. N -> Y]
  <2> HIDE DEF Y, e
  <2> QED
    BY <1>2
<1>4. F[0] = <<>> /\ \A k \in 1 .. N : F[k] = e
  <2> HIDE DEF e
  <2> QED
    BY <1>1
<1>5. ASSUME NEW k \in 1 .. N PROVE F[k] = F[k - 1] \o ss[k]
  <2>1. CASE k = 1
    <3>1. F[k - 1] = <<>> /\ F[k] = e /\ ss[k] = e
      BY <1>4, <2>1
    <3>2. <<>> \o e = e
      <4> HIDE DEF e
      <4> QED
        BY <1>2
    <3> HIDE DEF F, e
    <3> QED
      BY <3>1, <3>2
  <2>2. CASE k # 1
    <3>1. k - 1 \in 1 .. N /\ k \in 2 .. N
      BY <1>1, <2>2
    <3>2. F[k - 1] = e /\ F[k] = e /\ ss[k] = <<>>
      <4> HIDE DEF F
      <4> QED
        BY <1>4, <3>1
    <3>3. e \o <<>> = e
      <4> HIDE DEF e
      <4> QED
        BY <1>2
    <3> HIDE DEF F, e
    <3> QED
      BY <3>2, <3>3
  <2> QED
    BY <2>1, <2>2
<1> HIDE DEF F
<1>6. Joins(X, ss, F)
  BY <1>3, <1>4, <1>5 DEF Joins
<1>7. FlattenSeq(ss) = F[N]
  BY <1>6, FlattenIs
<1>8. F[N] = e
  BY <1>1, <1>4
<1> QED
  BY <1>7, <1>8

LEMMA FlattenPrefix ==
    ASSUME NEW X, NEW ss, ss \in Seq(Seq(X)), NEW K \in 0 .. Len(ss)
    PROVE  /\ FlattenSeq(ss) \in Seq(X)
           /\ IsPrefix(FlattenSeq(SubSeq(ss, 1, K)), FlattenSeq(ss))
           /\ FlattenSeq(SubSeq(ss, 1, K)) \in Seq(X)
<1> DEFINE N == Len(ss)
           Y == Seq(X)
           t == SubSeq(ss, 1, K)
<1>1. N \in Nat /\ K \in Nat /\ K <= N
  <2> HIDE DEF Y
  <2>1. ss \in Seq(Y)
    BY DEF Y
  <2> QED
    BY <2>1
<1>2. PICK F : Joins(X, ss, F)
  BY JoinsExists
<1>3. FlattenSeq(ss) = F[N]
  BY <1>2, FlattenIs
<1> DEFINE G == [k \in 0 .. K |-> F[k]]
<1>4. t \in Seq(Y) /\ Len(t) = K /\ \A k \in 1 .. K : t[k] = ss[k]
  <2>1. ss \in Seq(Y)
    BY DEF Y
  <2> HIDE DEF Y
  <2> QED
    BY <1>1, <2>1
<1> HIDE DEF t
<1>5. Joins(X, t, G)
  <2>1. F \in [0 .. N -> Seq(X)] /\ F[0] = <<>>
    BY <1>2 DEF Joins
  <2>2. G \in [0 .. K -> Seq(X)]
    <3>1. \A k \in 0 .. K : k \in 0 .. N
      BY <1>1
    <3> QED
      BY <2>1, <3>1
  <2>3. G[0] = <<>>
    BY <1>1, <2>1
  <2>4. ASSUME NEW k \in 1 .. K PROVE G[k] = G[k - 1] \o t[k]
    <3>1. k \in 0 .. K /\ k - 1 \in 0 .. K /\ k \in 1 .. N
      BY <1>1
    <3>2. F[k] = F[k - 1] \o ss[k]
      BY <1>2, <3>1 DEF Joins
    <3>3. G[k] = F[k] /\ G[k - 1] = F[k - 1] /\ t[k] = ss[k]
      BY <1>4, <3>1
    <3> HIDE DEF G
    <3> QED
      BY <3>2, <3>3
  <2> HIDE DEF G
  <2> QED
    BY <1>4, <2>2, <2>3, <2>4 DEF Joins
<1>6. FlattenSeq(t) = F[K]
  <2>1. FlattenSeq(t) = G[Len(t)]
    <3> HIDE DEF G
    <3> QED
      BY <1>5, FlattenIs
  <2>2. G[Len(t)] = F[K]
    BY <1>1, <1>4
  <2> QED
    BY <2>1, <2>2
<1>7. /\ F[K] \in Seq(X) /\ F[N] \in Seq(X) /\ At(F, K) <= At(F, N)
      /\ \A i \in 1 .. At(F, K) : F[N][i] = F[K][i]
  <2>1. K \in 0 .. N /\ N \in K .. N /\ N \in 0 .. N
    BY <1>1
  <2>2. F[K] \in Seq(X) /\ F[N] \in Seq(X)
    BY <1>2, <2>1, JoinStart
  <2>3. At(F, K) <= At(F, N) /\ \A i \in 1 .. At(F, K) : F[N][i] = F[K][i]
    BY <1>2, <2>1, JoinPrefix
  <2> QED
    BY <2>2, <2>3
<1> DEFINE x == F[K]
           y == F[N]
<1>8. IsPrefix(x, y)
  <2>1. /\ x \in Seq(X) /\ y \in Seq(X) /\ Len(x) <= Len(y) /\ \A i \in 1 .. Len(x) : y[i] = x[i]
    BY <1>7 DEF At
  <2> HIDE DEF x, y
  <2>2. SubSeq(y, 1, Len(x)) = SubSeq(x, 1, Len(x))
    <3>1. Len(x) \in 0 .. Len(y) /\ Len(x) \in 0 .. Len(x)
      BY <2>1
    <3>2. /\ SubSeq(y, 1, Len(x)) \in Seq(X) /\ Len(SubSeq(y, 1, Len(x))) = Len(x)
          /\ \A i \in 1 .. Len(x) : SubSeq(y, 1, Len(x))[i] = y[i]
      BY <2>1, <3>1
    <3>3. /\ SubSeq(x, 1, Len(x)) \in Seq(X) /\ Len(SubSeq(x, 1, Len(x))) = Len(x)
          /\ \A i \in 1 .. Len(x) : SubSeq(x, 1, Len(x))[i] = x[i]
      BY <2>1, <3>1
    <3> DEFINE u == SubSeq(y, 1, Len(x))
               v == SubSeq(x, 1, Len(x))
    <3>4. u \in Seq(X) /\ v \in Seq(X) /\ Len(u) = Len(v) /\ \A i \in 1 .. Len(u) : u[i] = v[i]
      BY <2>1, <3>2, <3>3
    <3> HIDE DEF u, v
    <3>5. u = v
      BY <3>4
    <3> QED
      BY <3>5 DEF u, v
  <2> QED
    BY <2>1, <2>2 DEF IsPrefix
<1> QED
  BY <1>3, <1>6, <1>7, <1>8 DEF t

(* The base of a file's name, or one character more.                       *)
LEMMA FileNameIs ==
    ASSUME NEW file \in Files
    PROVE  /\ file.path = <<>> => FileName(file) = Append(file.base, Quote)
           /\ file.path # <<>> /\ file.base # <<>> => FileName(file) = file.base
           /\ file.path # <<>> /\ file.base = <<>> => FileName(file) = <<Quote>>
<1> DEFINE p == file.path
           q == file.base
           v == p \o q
           I == { i \in 1 .. Len(v) : v[i] = "/" }
           m == IF I # {} THEN Max(I) ELSE 0
<1>1. /\ m = 0 => FileName(file) = Append(v, Quote)
      /\ m # 0 /\ m = Len(v) => FileName(file) = <<Quote>>
      /\ m # 0 /\ m # Len(v) => FileName(file) = SubSeq(v, m + 1, Len(v))
  BY DEF FileName, SelectLastInSeq
<1>2. (p = <<>> \/ (p \in Seq(Chars) /\ p # <<>> /\ Last(p) = "/")) /\ q \in Seq(Chars \ {"/"})
  <2>1. CASE file = NoFile
    <3> DEFINE D == Chars \ {"/"}
    <3>1. p = <<>> /\ q = <<>>
      BY <2>1 DEF NoFile
    <3> HIDE DEF D, p, q
    <3>2. q \in Seq(D)
      BY <3>1
    <3> QED
      BY <3>1, <3>2 DEF D
  <2>2. CASE file # NoFile
    BY <2>2 DEF Files, Paths
  <2> QED
    BY <2>1, <2>2
<1> DEFINE C == Chars \cup {"/"}
           sl == "/"
<1>3. p \in Seq(C) /\ q \in Seq(C) /\ \A i \in 1 .. Len(q) : q[i] # sl
  <2> DEFINE D == Chars \ {"/"}
  <2>1. q \in Seq(D) /\ D \subseteq C /\ \A d \in D : d # sl
    BY <1>2
  <2>2. p = <<>> \/ p \in Seq(Chars)
    BY <1>2
  <2>3. Chars \subseteq C
    OBVIOUS
  <2> HIDE DEF p, q, C, D, sl
  <2>4. p \in Seq(C)
    <3>1. CASE p = <<>>
      BY <3>1
    <3>2. CASE p \in Seq(Chars)
      <4>1. \A i \in 1 .. Len(p) : p[i] \in C
        BY <2>3, <3>2
      <4>2. Len(p) \in Nat /\ p = [i \in 1 .. Len(p) |-> p[i]]
        BY <3>2
      <4> QED
        BY <4>1, <4>2
    <3> QED
      BY <2>2, <3>1, <3>2
  <2>5. q \in Seq(C) /\ \A i \in 1 .. Len(q) : q[i] \in D
    BY <2>1
  <2> QED
    BY <2>1, <2>4, <2>5
<1> HIDE DEF C, p, q, v, I
<1>4. /\ v \in Seq(C) /\ Len(p) \in Nat /\ Len(q) \in Nat /\ Len(v) = Len(p) + Len(q)
      /\ \A i \in 1 .. Len(p) : v[i] = p[i]
      /\ \A i \in 1 .. Len(q) : v[Len(p) + i] = q[i]
  <2>1. v = p \o q
    BY DEF v
  <2> QED
    BY <1>3, <2>1, ConcatFacts
<1>5. \A i \in 1 .. Len(v) : v[i] = sl => i <= Len(p)
  <2> SUFFICES ASSUME NEW i \in 1 .. Len(v), i > Len(p) PROVE v[i] # sl
    BY <1>4
  <2>1. i - Len(p) \in 1 .. Len(q) /\ Len(p) + (i - Len(p)) = i
    BY <1>4
  <2>2. v[i] = q[i - Len(p)]
    BY <1>4, <2>1
  <2> QED
    BY <1>3, <2>1, <2>2
<1>6. CASE p = <<>>
  <2>1. v = q /\ Len(p) = 0
    <3>1. <<>> \o q = q
      BY <1>3
    <3> QED
      BY <1>6, <3>1 DEF v
  <2>2. I = {}
    <3>1. \A i \in 1 .. Len(v) : v[i] # "/"
      BY <1>4, <1>5, <2>1
    <3> QED
      BY <3>1 DEF I
  <2>3. FileName(file) = Append(q, Quote)
    BY <1>1, <2>1, <2>2
  <2> QED
    BY <1>6, <2>3 DEF p, q
<1>7. CASE p # <<>>
  <2>1. Len(p) # 0 /\ p[Len(p)] = sl
    <3>1. p[Len(p)] = sl
      BY <1>2, <1>7 DEF Last
    <3>2. Len(p) # 0
      BY <1>3, <1>7
    <3> QED
      BY <3>1, <3>2
  <2>2. Len(p) \in I /\ \A i \in I : i \in Nat /\ Len(p) >= i
    <3>1. Len(p) \in 1 .. Len(v) /\ Len(p) \in 1 .. Len(p)
      BY <1>4, <2>1
    <3>2. v[Len(p)] = sl
      BY <1>4, <2>1, <3>1
    <3>3. \A i \in I : i \in 1 .. Len(v) /\ v[i] = sl
      BY DEF I
    <3>4. Len(p) \in I
      BY <3>1, <3>2 DEF I
    <3> QED
      BY <1>4, <1>5, <3>3, <3>4
  <2> DEFINE k == Len(p)
  <2>3. k \in Nat
    BY <1>4
  <2> HIDE DEF k
  <2>4. Max(I) = k
    <3>1. k \in I /\ \A i \in I : i \in Nat /\ k >= i
      BY <2>2 DEF k
    <3>2. \A x \in I : (\A y \in I : x >= y) => x = k
      BY <2>3, <3>1
    <3> QED
      BY <3>1, <3>2 DEF Max
  <2>5. m = k /\ m # 0
    BY <2>1, <2>2, <2>4 DEF k
  <2>6. CASE q # <<>>
    <3>1. Len(q) # 0 /\ m # Len(v)
      <4>1. Len(q) # 0
        BY <1>3, <2>6
      <4> HIDE DEF m
      <4> QED
        BY <1>4, <2>5, <4>1 DEF k
    <3>2. FileName(file) = SubSeq(v, k + 1, Len(v))
      <4> HIDE DEF m
      <4> QED
        BY <1>1, <2>5, <3>1
    <3>3. \A j \in 1 .. Len(q) : v[k + j] = q[j]
      BY <1>4 DEF k
    <3>4. k + Len(q) = Len(v) /\ k + Len(q) <= Len(v) /\ Len(q) \in 0 .. Len(q)
      BY <1>4 DEF k
    <3>5. SubSeq(v, k + 1, k + Len(q)) = SubSeq(q, 1, Len(q))
      BY <1>3, <1>4, <2>3, <3>3, <3>4, PieceAt
    <3>6. SubSeq(q, 1, Len(q)) = q
      BY <1>3
    <3>7. FileName(file) = q
      BY <3>2, <3>4, <3>5, <3>6
    <3> QED
      BY <1>7, <2>6, <3>7 DEF p, q
  <2>7. CASE q = <<>>
    <3>1. m # 0 /\ m = Len(v)
      <4>1. Len(q) = 0
        BY <2>7
      <4> HIDE DEF m
      <4> QED
        BY <1>4, <2>5, <4>1 DEF k
    <3>2. FileName(file) = <<Quote>>
      <4> HIDE DEF m
      <4> QED
        BY <1>1, <3>1
    <3> QED
      BY <1>7, <2>7, <3>2 DEF p, q
  <2> QED
    BY <2>6, <2>7
<1> QED
  BY <1>6, <1>7

(* It begins with the base.                                                *)
LEMMA FileNameBegins ==
    ASSUME NEW file \in Files
    PROVE  IsPrefix(file.base, FileName(file))
<1> DEFINE C == Chars \ {"/"}
           D == C \cup {Quote}
           q == file.base
           v == FileName(file)
<1>1. q \in Seq(C)
  <2>1. CASE file = NoFile
    <3>1. q = <<>>
      BY <2>1 DEF NoFile
    <3> HIDE DEF C, q
    <3> QED
      BY <3>1
  <2>2. CASE file # NoFile
    BY <2>2 DEF Files
  <2> QED
    BY <2>1, <2>2
<1>2. \/ v = Append(q, Quote)
      \/ v = q
      \/ q = <<>> /\ v = <<Quote>>
  BY FileNameIs
<1>3. C \subseteq D /\ Quote \in D
  OBVIOUS
<1> HIDE DEF C, D, q, v
<1> DEFINE x == Quote
<1> HIDE DEF x
<1>4. q \in Seq(D) /\ Len(q) \in Nat /\ x \in D
  BY <1>1, <1>3 DEF x
<1>5. v \in Seq(D) /\ Len(q) <= Len(v) /\ \A i \in 1 .. Len(q) : v[i] = q[i]
  <2>1. CASE v = Append(q, x)
    BY <1>4, <2>1
  <2>2. CASE v = q
    BY <1>4, <2>2
  <2>3. CASE q = <<>> /\ v = <<x>>
    BY <1>4, <2>3
  <2> QED
    BY <1>2, <2>1, <2>2, <2>3 DEF x
<1>6. SubSeq(v, 0 + 1, 0 + Len(q)) = SubSeq(q, 1, Len(q))
  <2> DEFINE k == Len(q)
  <2>1. k \in 0 .. Len(q) /\ 0 + k <= Len(v) /\ 0 \in Nat /\ \A j \in 1 .. k : v[0 + j] = q[j]
    BY <1>4, <1>5
  <2> HIDE DEF k
  <2>2. SubSeq(v, 0 + 1, 0 + k) = SubSeq(q, 1, k)
    BY <1>4, <1>5, <2>1, PieceAt
  <2> QED
    BY <2>2 DEF k
<1>7. 0 + 1 = 1 /\ 0 + Len(q) = Len(q)
  BY <1>4
<1>8. SubSeq(q, 1, Len(q)) = SubSeq(v, 1, Len(q))
  BY <1>6, <1>7
<1> QED
  BY <1>5, <1>8 DEF IsPrefix, q, v

LEMMA FieldKinds ==
    /\ \A n, f : /\ Field(Disposition(n, f)).name = "Content-Disposition"
                 /\ Field(Disposition(n, f)).varname = n /\ Field(Disposition(n, f)).filename = f
                 /\ Field(Disposition(n, f)).listed
    /\ Field(ContentType).name # "Content-Disposition" /\ Field(NoColon).name # "Content-Disposition"
    /\ Field(OddType).name # "Content-Disposition"
    /\ Field(ContentType).listed /\ Field(OddType).listed /\ ~Field(NoColon).listed
<1>1. ASSUME NEW n, NEW f
      PROVE  /\ Field(Disposition(n, f)).name = "Content-Disposition"
             /\ Field(Disposition(n, f)).varname = n /\ Field(Disposition(n, f)).filename = f
             /\ Field(Disposition(n, f)).listed
  <2>1. Field(Disposition(n, f)) = [name |-> "Content-Disposition", listed |-> TRUE,
                                    varname |-> n, filename |-> f]
    BY DEF Field, Disposition
  <2> QED
    BY <2>1
<1>2. /\ Field(ContentType).name # "Content-Disposition" /\ Field(NoColon).name # "Content-Disposition"
      /\ Field(OddType).name # "Content-Disposition"
  BY DEF Field, ContentType, OddType, NoColon
<1>3. Field(ContentType).listed /\ Field(OddType).listed /\ ~Field(NoColon).listed
  BY DEF Field, ContentType, OddType, NoColon
<1> QED
  BY <1>1, <1>2, <1>3

OtherFields == {Field(ContentType), Field(OddType), Field(NoColon)}

LEMMA FieldsAre ==
    ASSUME NEW c \in Controls, NEW fs, fs = FieldsOf(c)
    PROVE  /\ Len(fs) \in Nat \ {0} /\ DOMAIN fs = 1 .. Len(fs)
           /\ fs[1] = Field(Disposition(c.name, c.file))
           /\ \A j \in 2 .. Len(fs) : fs[j] \in OtherFields
           /\ \A j \in 1 .. Len(fs) : fs[j] = Field(NoColon) => c.header = "folded"
<1> DEFINE x == Field(Disposition(c.name, c.file))
           y == Field(ContentType)
           o == Field(OddType)
           z == Field(NoColon)
           S == OtherFields
<1>0. c.header \in {"none", "type", "folded", "odd"}
  BY DEF Controls
<1>1. x # z /\ y # z /\ o # z /\ y \in S /\ o \in S /\ z \in S
  <2>1. x.listed /\ y.listed /\ o.listed /\ ~z.listed
    BY FieldKinds
  <2>2. y \in S /\ o \in S /\ z \in S
    BY DEF OtherFields
  <2> HIDE DEF x, y, o, z, S
  <2> QED
    BY <2>1, <2>2
<1>2. CASE c.header = "none"
  <2>1. fs = <<x>> \o <<>>
    BY <1>2 DEF FieldsOf
  <2> HIDE DEF x, y, o, z, S
  <2>2. <<x>> \o <<>> = <<x>>
    OBVIOUS
  <2>3. fs = <<x>>
    BY <2>1, <2>2
  <2>4. Len(fs) = 1 /\ DOMAIN fs = 1 .. 1 /\ fs[1] = x
    BY <2>3
  <2> QED
    BY <1>1, <2>4 DEF x, z, S
<1>3. ASSUME NEW w \in {y, o}, fs = <<x>> \o <<w>>
      PROVE  /\ Len(fs) \in Nat \ {0} /\ DOMAIN fs = 1 .. Len(fs) /\ fs[1] = x
             /\ \A j \in 2 .. Len(fs) : fs[j] \in S
             /\ \A j \in 1 .. Len(fs) : fs[j] # z
  <2> HIDE DEF x, y, o, z, S
  <2> DEFINE t == Append(<<x>>, w)
  <2>2. <<x>> \o <<w>> = t
    OBVIOUS
  <2>3. Len(t) = 2 /\ DOMAIN t = 1 .. 2 /\ t[1] = x /\ t[2] = w
    OBVIOUS
  <2> HIDE DEF t
  <2>4. Len(fs) = 2 /\ DOMAIN fs = 1 .. 2 /\ fs[1] = x /\ fs[2] = w
    BY <1>3, <2>2, <2>3
  <2>5. w # z /\ w \in S
    BY <1>1
  <2> QED
    BY <1>1, <2>4, <2>5
<1>5. CASE c.header = "type"
  <2>1. fs = <<x>> \o <<y>> /\ y \in {y, o}
    BY <1>5 DEF FieldsOf
  <2> HIDE DEF x, y, o, z, S
  <2> QED
    BY <1>3, <2>1 DEF x, z, S
<1>6. CASE c.header = "odd"
  <2>1. fs = <<x>> \o <<o>> /\ o \in {y, o}
    BY <1>6 DEF FieldsOf
  <2> HIDE DEF x, y, o, z, S
  <2> QED
    BY <1>3, <2>1 DEF x, z, S
<1>4. CASE c.header = "folded"
  <2>1. fs = <<x>> \o <<y, z>>
    BY <1>4 DEF FieldsOf
  <2> HIDE DEF x, y, o, z, S
  <2> DEFINE t == Append(Append(<<x>>, y), z)
  <2>2. <<x>> \o <<y, z>> = t
    OBVIOUS
  <2>3. Len(t) = 3 /\ DOMAIN t = 1 .. 3 /\ t[1] = x /\ t[2] = y /\ t[3] = z
    OBVIOUS
  <2> HIDE DEF t
  <2>4. Len(fs) = 3 /\ DOMAIN fs = 1 .. 3 /\ fs[1] = x /\ fs[2] = y /\ fs[3] = z
    BY <2>1, <2>2, <2>3
  <2>5. \A j \in 2 .. 3 : fs[j] \in S
    BY <1>1, <2>4
  <2> QED
    BY <1>4, <2>4, <2>5 DEF x, z, S
<1> QED
  BY <1>0, <1>2, <1>4, <1>5, <1>6

(* A whole part gives the array one entry, which is its control's, or none *)
(* if the control says nothing.                                            *)
Speaks(c) == c.file # NoFile \/ c.data # <<>>
Entries(part) == [j \in DOMAIN part.fields |-> Entry(part, part.fields[j])]

LEMMA EntryDelivers ==
    ASSUME NEW c \in Controls, NEW r, NEW x, x = Field(Disposition(c.name, c.file))
    PROVE  /\ ~Speaks(c) => Entry(ReadPart(c, r), x) = <<>>
           /\ Speaks(c) => \E e : Entry(ReadPart(c, r), x) = <<e>> /\ Delivers(e, c)
<1> DEFINE part == ReadPart(c, r)
<1>1. part.data = c.data /\ part.rest = r
  BY DEF ReadPart
<1>2. x.name = "Content-Disposition" /\ x.varname = c.name /\ x.filename = c.file
  BY FieldKinds
<1>3. c.file \in Files
  BY DEF Controls
<1> HIDE DEF part
<1>4. CASE ~Speaks(c)
  <2>1. c.file = NoFile /\ c.data = <<>>
    BY <1>4 DEF Speaks
  <2>2. Entry(part, x) = <<>>
    BY <1>1, <1>2, <2>1 DEF Entry
  <2> QED
    BY <1>4, <2>2 DEF part
<1>5. CASE c.file = NoFile /\ c.data # <<>>
  <2> DEFINE e == [key |-> c.name, val |-> c.data]
  <2>1. Entry(part, x) = <<e>>
    BY <1>1, <1>2, <1>5 DEF Entry
  <2>2. Delivers(e, c)
    BY <1>5 DEF Delivers
  <2>3. Speaks(c)
    BY <1>5 DEF Speaks
  <2> HIDE DEF e
  <2> QED
    BY <2>1, <2>2, <2>3 DEF part
<1>6. CASE c.file # NoFile
  <2> DEFINE n == FileName(c.file)
             d == FileData(part)
             e == [key |-> c.name, base |-> n, val |-> d]
  <2>1. Entry(part, x) = <<e>>
    BY <1>1, <1>2, <1>6 DEF Entry
  <2>2. c.data # <<>> => d = c.data
    BY <1>1 DEF FileData
  <2>3. IsPrefix(c.file.base, n)
    BY <1>3, FileNameBegins
  <2>4. c.file.path # <<>> /\ c.file.base # <<>> => n = c.file.base
    BY <1>3, FileNameIs
  <2> HIDE DEF n, d
  <2>5. e.key = c.name /\ e.base = n /\ e.val = d
    OBVIOUS
  <2> HIDE DEF e
  <2>6. Delivers(e, c)
    BY <2>2, <2>3, <2>4, <2>5 DEF Delivers
  <2>7. Speaks(c)
    BY <1>6 DEF Speaks
  <2> QED
    BY <2>1, <2>6, <2>7 DEF part
<1> QED
  BY <1>4, <1>5, <1>6 DEF Speaks

LEMMA PartEntries ==
    ASSUME NEW c \in Controls, NEW r
    PROVE  /\ ~Speaks(c) => FlattenSeq(Entries(ReadPart(c, r))) = <<>>
           /\ Speaks(c) => \E e : FlattenSeq(Entries(ReadPart(c, r))) = <<e>> /\ Delivers(e, c)
<1> DEFINE part == ReadPart(c, r)
           fs == FieldsOf(c)
           N == Len(fs)
           ss == Entries(part)
           first == Entry(part, fs[1])
           S == Range(first)
<1>1. part.fields = fs
  BY DEF ReadPart
<1>2. /\ N \in Nat \ {0} /\ DOMAIN fs = 1 .. N
      /\ fs[1] = Field(Disposition(c.name, c.file))
      /\ \A j \in 2 .. N : fs[j] \in OtherFields
  BY FieldsAre
<1>3. /\ ~Speaks(c) => first = <<>>
      /\ Speaks(c) => \E e : first = <<e>> /\ Delivers(e, c)
  BY <1>2, EntryDelivers
<1> HIDE DEF part, fs, N, first, S
<1>4. ss = [j \in 1 .. N |-> Entry(part, fs[j])]
  BY <1>1, <1>2 DEF Entries
<1>5. \A j \in 2 .. N : Entry(part, fs[j]) = <<>>
  <2> TAKE j \in 2 .. N
  <2>1. fs[j].name # "Content-Disposition"
    BY <1>2, FieldKinds DEF OtherFields
  <2> QED
    BY <2>1 DEF Entry
<1>6. first \in Seq(S)
  <2>1. first = <<>> \/ \E e : first = <<e>>
    BY <1>3
  <2>2. ASSUME NEW e, first = <<e>> PROVE first \in Seq(S)
    <3>1. e \in S
      <4>1. 1 \in DOMAIN <<e>> /\ <<e>>[1] = e
        OBVIOUS
      <4> QED
        BY <2>2, <4>1 DEF S, Range
    <3> QED
      BY <2>2, <3>1
  <2>3. first = <<>> => first \in Seq(S)
    OBVIOUS
  <2> QED
    BY ONLY <2>1, <2>2, <2>3
<1>7. ss \in Seq(Seq(S)) /\ Len(ss) = N /\ ss[1] = first /\ \A j \in 2 .. N : ss[j] = <<>>
  <2> DEFINE Y == Seq(S)
             G(j) == Entry(part, fs[j])
  <2>1. G(1) = first /\ \A j \in 2 .. N : G(j) = <<>>
    BY <1>5 DEF first
  <2>2. ss = [j \in 1 .. N |-> G(j)]
    BY <1>4
  <2>3. <<>> \in Y /\ first \in Y
    BY <1>6
  <2> HIDE DEF Y, G, ss
  <2>4. \A j \in 1 .. N : G(j) \in Y
    <3> TAKE j \in 1 .. N
    <3>1. j = 1 \/ j \in 2 .. N
      BY <1>2
    <3> QED
      BY <2>1, <2>3, <3>1
  <2>5. ss \in Seq(Y) /\ Len(ss) = N
    BY <1>2, <2>2, <2>4
  <2>6. ss[1] = G(1) /\ \A j \in 2 .. N : ss[j] = G(j)
    BY <1>2, <2>2
  <2> QED
    BY <2>1, <2>5, <2>6 DEF Y
<1> HIDE DEF ss
<1>8. FlattenSeq(ss) = ss[1]
  <2>1. Len(ss) # 0 /\ \A k \in 2 .. Len(ss) : ss[k] = <<>>
    BY <1>2, <1>7
  <2> QED
    BY <1>7, <2>1, FlattenOne
<1> QED
  BY <1>3, <1>7, <1>8 DEF ss, part

(* Two joins whose pieces go together, one by one and place by place.      *)
LEMMA FlattenTwo ==
    ASSUME NEW X, NEW Y, NEW R, NEW us, NEW vs, us \in Seq(Seq(X)), vs \in Seq(Seq(Y)),
           Len(us) = Len(vs),
           \A k \in 1 .. Len(us) : /\ Len(us[k]) = Len(vs[k])
                                   /\ \A i \in 1 .. Len(us[k]) : <<us[k][i], vs[k][i]>> \in R
    PROVE  /\ FlattenSeq(us) \in Seq(X) /\ FlattenSeq(vs) \in Seq(Y)
           /\ Len(FlattenSeq(us)) = Len(FlattenSeq(vs))
           /\ \A i \in 1 .. Len(FlattenSeq(us)) : <<FlattenSeq(us)[i], FlattenSeq(vs)[i]>> \in R
<1> DEFINE N == Len(us)
           SX == Seq(X)
           SY == Seq(Y)
<1>1. N \in Nat /\ \A k \in 1 .. N : us[k] \in SX /\ vs[k] \in SY
  <2>1. us \in Seq(SX) /\ vs \in Seq(SY)
    OBVIOUS
  <2> HIDE DEF SX, SY
  <2> QED
    BY <2>1
<1>2. PICK F : Joins(X, us, F)
  BY JoinsExists
<1>3. PICK G : Joins(Y, vs, G)
  BY JoinsExists
<1>4. /\ F \in [0 .. N -> SX] /\ F[0] = <<>> /\ \A k \in 1 .. N : F[k] = F[k - 1] \o us[k]
      /\ G \in [0 .. N -> SY] /\ G[0] = <<>> /\ \A k \in 1 .. N : G[k] = G[k - 1] \o vs[k]
  BY <1>2, <1>3 DEF Joins
<1>5. FlattenSeq(us) = F[N] /\ FlattenSeq(vs) = G[N]
  BY <1>2, <1>3, FlattenIs
<1> DEFINE Together(u, v) == Len(u) = Len(v) /\ \A i \in 1 .. Len(u) : <<u[i], v[i]>> \in R
           T == { k \in Nat : k <= N => Together(F[k], G[k]) }
<1>6. 0 \in T
  <2>1. Len(<<>>) = 0
    OBVIOUS
  <2>2. Together(F[0], G[0])
    BY <1>4, <2>1
  <2> HIDE DEF Together
  <2> QED
    BY <2>2
<1>7. ASSUME NEW k \in Nat, k \in T PROVE k + 1 \in T
  <2> SUFFICES ASSUME k + 1 <= N PROVE Together(F[k + 1], G[k + 1])
    BY DEF T
  <2>1. k + 1 \in 1 .. N /\ (k + 1) - 1 = k /\ k \in 0 .. N
    BY <1>1
  <2>2. Together(F[k], G[k])
    <3> HIDE DEF Together
    <3> QED
      BY <1>1, <1>7, <2>1
  <2> DEFINE a == F[k]
             b == us[k + 1]
             c == F[k + 1]
             d == G[k]
             e == vs[k + 1]
             g == G[k + 1]
  <2>3. /\ a \in Seq(X) /\ b \in Seq(X) /\ c = a \o b
        /\ d \in Seq(Y) /\ e \in Seq(Y) /\ g = d \o e
    BY <1>1, <1>4, <2>1
  <2>4. /\ Len(a) = Len(d) /\ \A i \in 1 .. Len(a) : <<a[i], d[i]>> \in R
        /\ Len(b) = Len(e) /\ \A i \in 1 .. Len(b) : <<b[i], e[i]>> \in R
    BY <2>1, <2>2
  <2> HIDE DEF a, b, c, d, e, g, Together, T
  <2>5. /\ Len(a) \in Nat /\ Len(b) \in Nat /\ Len(c) = Len(a) + Len(b)
        /\ \A i \in 1 .. Len(a) : c[i] = a[i]
        /\ \A i \in 1 .. Len(b) : c[Len(a) + i] = b[i]
    BY ONLY <2>3, ConcatFacts
  <2>6. /\ Len(d) \in Nat /\ Len(e) \in Nat /\ Len(g) = Len(d) + Len(e)
        /\ \A i \in 1 .. Len(d) : g[i] = d[i]
        /\ \A i \in 1 .. Len(e) : g[Len(d) + i] = e[i]
    BY ONLY <2>3, ConcatFacts
  <2>7. Len(c) = Len(g)
    BY ONLY <2>4, <2>5, <2>6
  <2>8. ASSUME NEW i \in 1 .. Len(c) PROVE <<c[i], g[i]>> \in R
    <3> DEFINE l == Len(a)
    <3>1. l \in Nat /\ Len(b) \in Nat /\ i \in 1 .. l + Len(b) /\ Len(e) = Len(b) /\ Len(d) = l
      BY <2>4, <2>5
    <3>2. CASE i \in 1 .. l
      <4>1. c[i] = a[i] /\ g[i] = d[i]
        BY <2>5, <2>6, <3>1, <3>2
      <4> QED
        BY <2>4, <3>2, <4>1
    <3>3. CASE i > l
      <4> DEFINE j == i - l
      <4>1. j \in 1 .. Len(b) /\ l + j = i
        BY <3>1, <3>3
      <4> HIDE DEF j
      <4>2. c[i] = b[j] /\ g[i] = e[j]
        BY <2>5, <2>6, <3>1, <4>1
      <4> QED
        BY <2>4, <4>1, <4>2
    <3> QED
      BY <3>1, <3>2, <3>3
  <2> QED
    BY <2>7, <2>8 DEF Together, c, g
<1>8. Nat \subseteq T
  <2> HIDE DEF T
  <2> QED
    BY <1>6, <1>7, SetInduction
<1>9. Together(F[N], G[N])
  <2> HIDE DEF Together
  <2>1. N \in T /\ N <= N
    <3> HIDE DEF T
    <3> QED
      BY <1>1, <1>8
  <2> QED
    BY <2>1
<1>10. F[N] \in Seq(X) /\ G[N] \in Seq(Y)
  BY <1>1, <1>4
<1> QED
  BY <1>5, <1>9, <1>10

(* The parts that were read deliver the first of the controls that say     *)
(* something.                                                              *)
ShownParts(f) == [i \in DOMAIN f |-> IF f[i].file = NoFile /\ f[i].data = <<>> THEN <<>> ELSE <<f[i]>>]
Fulfils(q, shown) == Len(q) <= Len(shown) /\ \A i \in 1 .. Len(q) : Delivers(q[i], shown[i])

LEMMA ShownTyped ==
    ASSUME NEW f \in Seq(Controls)
    PROVE  /\ Len(f) \in Nat /\ DOMAIN f = 1 .. Len(f) /\ \A i \in 1 .. Len(f) : f[i] \in Controls
           /\ ShownParts(f) \in Seq(Seq(Controls)) /\ Len(ShownParts(f)) = Len(f)
           /\ \A i \in 1 .. Len(f) : ShownParts(f)[i] = IF Speaks(f[i]) THEN <<f[i]>> ELSE <<>>
           /\ Shown(f) = FlattenSeq(ShownParts(f))
<1> DEFINE C == Controls
           Y == Seq(C)
           N == Len(f)
           G(i) == IF Speaks(f[i]) THEN <<f[i]>> ELSE <<>>
           ss == ShownParts(f)
<1>1. N \in Nat /\ DOMAIN f = 1 .. N /\ \A i \in 1 .. N : f[i] \in C
  <2>1. f \in Seq(C)
    OBVIOUS
  <2> HIDE DEF C
  <2> QED
    BY <2>1
<1>2. ss = [i \in 1 .. N |-> G(i)]
  <2>1. ss = [i \in 1 .. N |-> IF f[i].file = NoFile /\ f[i].data = <<>> THEN <<>> ELSE <<f[i]>>]
    BY <1>1 DEF ShownParts
  <2>2. \A i \in 1 .. N : (IF f[i].file = NoFile /\ f[i].data = <<>> THEN <<>> ELSE <<f[i]>>) = G(i)
    BY DEF Speaks
  <2> QED
    BY <2>1, <2>2
<1>3. \A i \in 1 .. N : G(i) \in Y
  <2> TAKE i \in 1 .. N
  <2>1. f[i] \in C
    BY <1>1
  <2> DEFINE x == f[i]
  <2> HIDE DEF C, x
  <2>2. <<x>> \in Y /\ <<>> \in Y
    BY <2>1 DEF x
  <2> QED
    BY <2>2 DEF x
<1>4. Shown(f) = FlattenSeq(ss)
  BY DEF Shown, ShownParts
<1> HIDE DEF Y, ss, G
<1>5. ss \in Seq(Y) /\ Len(ss) = N /\ \A i \in 1 .. N : ss[i] = G(i)
  <2> HIDE DEF N
  <2> QED
    BY <1>1, <1>2, <1>3
<1> QED
  BY <1>1, <1>4, <1>5 DEF ss, Y, G

LEMMA FillRight ==
    ASSUME NEW f \in Seq(Controls), NEW K \in 0 .. Len(f), NEW parts, NEW rest,
           DOMAIN parts = 1 .. K, \A i \in 1 .. K : parts[i] = ReadPart(f[i], rest[i])
    PROVE  /\ \E X : Fill(parts) \in Seq(X)
           /\ Fulfils(Fill(parts), Shown(f))
           /\ K = Len(f) => Len(Fill(parts)) = Len(Shown(f))
           /\ NullParams(parts) => \E c \in Range(f) : c.header = "folded"
<1> DEFINE N == Len(f)
           C == Controls
           ss == ShownParts(f)
           vs == SubSeq(ss, 1, K)
           us == [i \in 1 .. K |-> FlattenSeq(Entries(parts[i]))]
           X == UNION { Range(us[i]) : i \in 1 .. K }
           R == { p \in X \X C : Delivers(p[1], p[2]) }
<1>1. N \in Nat /\ DOMAIN f = 1 .. N /\ (\A i \in 1 .. N : f[i] \in C) /\ K \in Nat /\ K <= N
  BY ShownTyped
<1>2. /\ ss \in Seq(Seq(C)) /\ Len(ss) = N
      /\ \A i \in 1 .. N : ss[i] = IF Speaks(f[i]) THEN <<f[i]>> ELSE <<>>
      /\ Shown(f) = FlattenSeq(ss)
  BY ShownTyped
<1>3. Fill(parts) = FlattenSeq(us)
  BY DEF Fill, Entries
<1>4. ASSUME NEW i \in 1 .. K
      PROVE  /\ ~Speaks(f[i]) => us[i] = <<>>
             /\ Speaks(f[i]) => \E e : us[i] = <<e>> /\ Delivers(e, f[i])
  <2>1. f[i] \in Controls /\ parts[i] = ReadPart(f[i], rest[i])
    BY <1>1
  <2>2. us[i] = FlattenSeq(Entries(ReadPart(f[i], rest[i])))
    BY <2>1
  <2> HIDE DEF us
  <2> QED
    BY <2>1, <2>2, PartEntries
<1>5. us = [i \in 1 .. K |-> us[i]]
  OBVIOUS
<1> HIDE DEF us, ss, C
<1>6. vs \in Seq(Seq(C)) /\ Len(vs) = K /\ \A i \in 1 .. K : vs[i] = ss[i]
  <2> DEFINE Y == Seq(C)
  <2>1. ss \in Seq(Y)
    BY <1>2
  <2> HIDE DEF Y
  <2>2. vs \in Seq(Y) /\ Len(vs) = K /\ \A i \in 1 .. K : vs[i] = ss[i]
    BY <1>1, <1>2, <2>1
  <2> QED
    BY <2>2 DEF Y
<1> HIDE DEF vs
<1>7. ASSUME NEW i \in 1 .. K
      PROVE  /\ us[i] \in Seq(X) /\ Len(us[i]) = Len(vs[i])
             /\ \A j \in 1 .. Len(us[i]) : <<us[i][j], vs[i][j]>> \in R
  <2>0. i \in 1 .. N /\ f[i] \in C
    BY <1>1
  <2>1. CASE ~Speaks(f[i])
    <3>1. us[i] = <<>> /\ vs[i] = <<>>
      BY <1>2, <1>4, <1>6, <2>0, <2>1
    <3>2. <<>> \in Seq(X) /\ Len(<<>>) = 0
      <4> HIDE DEF X
      <4> QED
        OBVIOUS
    <3>3. \A j \in 1 .. 0 : <<us[i][j], vs[i][j]>> \in R
      OBVIOUS
    <3> HIDE DEF X, R
    <3> QED
      BY <3>1, <3>2, <3>3
  <2>2. CASE Speaks(f[i])
    <3>1. PICK e : us[i] = <<e>> /\ Delivers(e, f[i])
      BY <1>4, <2>2
    <3>2. vs[i] = <<f[i]>>
      BY <1>2, <1>6, <2>0, <2>2
    <3>3. e \in X
      <4>1. 1 \in DOMAIN us[i] /\ us[i][1] = e
        BY <3>1
      <4>2. e \in Range(us[i])
        BY <4>1 DEF Range
      <4> QED
        BY <4>2
    <3> DEFINE d == f[i]
    <3>4. <<e, d>> \in R
      BY <2>0, <3>1, <3>3
    <3> HIDE DEF X, R, d
    <3>5. us[i] = <<e>> /\ vs[i] = <<d>>
      BY <3>1, <3>2 DEF d
    <3>6. <<e>> \in Seq(X) /\ Len(<<e>>) = 1 /\ Len(<<d>>) = 1 /\ <<e>>[1] = e /\ <<d>>[1] = d
      BY <3>3
    <3>7. \A j \in 1 .. 1 : <<us[i][j], vs[i][j]>> \in R
      BY <3>4, <3>5
    <3> QED
      BY <3>5, <3>6, <3>7
  <2> QED
    BY <2>1, <2>2
<1> DEFINE u == FlattenSeq(us)
           v == FlattenSeq(vs)
           w == FlattenSeq(ss)
<1>8. us \in Seq(Seq(X)) /\ Len(us) = K
  <2> DEFINE Y == Seq(X)
  <2>1. \A i \in 1 .. K : us[i] \in Y
    BY <1>7
  <2> HIDE DEF Y, X
  <2>2. us \in [1 .. K -> Y]
    BY <1>5, <2>1
  <2>3. us \in Seq(Y) /\ Len(us) = K
    BY <1>1, <2>2
  <2> QED
    BY <2>3 DEF Y
<1>9. /\ u \in Seq(X) /\ v \in Seq(C) /\ Len(u) = Len(v)
      /\ \A i \in 1 .. Len(u) : <<u[i], v[i]>> \in R
  <2> HIDE DEF X, R
  <2>1. us \in Seq(Seq(X)) /\ vs \in Seq(Seq(C)) /\ Len(us) = Len(vs)
    BY <1>6, <1>8
  <2>2. \A k \in 1 .. Len(us) : /\ Len(us[k]) = Len(vs[k])
                                /\ \A i \in 1 .. Len(us[k]) : <<us[k][i], vs[k][i]>> \in R
    BY <1>7, <1>8
  <2>3. /\ FlattenSeq(us) \in Seq(X) /\ FlattenSeq(vs) \in Seq(C)
        /\ Len(FlattenSeq(us)) = Len(FlattenSeq(vs))
        /\ \A i \in 1 .. Len(FlattenSeq(us)) : <<FlattenSeq(us)[i], FlattenSeq(vs)[i]>> \in R
    BY ONLY <2>1, <2>2, FlattenTwo
  <2> QED
    BY <2>3
<1>10. w \in Seq(C) /\ IsPrefix(v, w)
  <2>1. K \in 0 .. Len(ss)
    BY <1>2
  <2> QED
    BY <1>2, <2>1, FlattenPrefix DEF vs
<1>11. K = N => vs = ss
  <2> DEFINE Y == Seq(C)
  <2>1. ss \in Seq(Y) /\ vs \in Seq(Y)
    BY <1>2, <1>6
  <2> HIDE DEF Y
  <2>2. vs = [i \in 1 .. K |-> vs[i]] /\ ss = [i \in 1 .. N |-> ss[i]]
    BY <1>2, <1>6, <2>1
  <2> QED
    BY <1>6, <2>2
<1>12. ASSUME NEW i \in 1 .. Len(u) PROVE Delivers(u[i], v[i])
  <2> DEFINE p == <<u[i], v[i]>>
  <2>1. p \in R /\ p[1] = u[i] /\ p[2] = v[i]
    BY <1>9
  <2> HIDE DEF p, u, v, X
  <2> QED
    BY <2>1
<1> HIDE DEF u, v, w, X, R
<1>13. Len(v) <= Len(w) /\ \A i \in 1 .. Len(v) : w[i] = v[i]
  <2>1. v \in Seq(C) /\ w \in Seq(C) /\ Len(v) <= Len(w) /\ SubSeq(v, 1, Len(v)) = SubSeq(w, 1, Len(v))
    BY <1>9, <1>10 DEF IsPrefix
  <2>2. Len(v) \in Nat /\ Len(w) \in Nat
    BY <2>1
  <2>3. ASSUME NEW i \in 1 .. Len(v) PROVE w[i] = v[i]
    <3>1. SubSeq(v, 1, Len(v))[i] = v[i] /\ SubSeq(w, 1, Len(v))[i] = w[i]
      BY <2>1, <2>2
    <3> QED
      BY <2>1, <3>1
  <2> QED
    BY <2>1, <2>3
<1>14. Fulfils(u, w)
  <2>1. Len(u) \in Nat /\ Len(u) = Len(v) /\ Len(u) <= Len(w)
    BY <1>9, <1>13
  <2>2. ASSUME NEW i \in 1 .. Len(u) PROVE Delivers(u[i], w[i])
    <3>1. w[i] = v[i]
      BY <1>9, <1>13
    <3> QED
      BY <1>12, <3>1
  <2> QED
    BY <2>1, <2>2 DEF Fulfils
<1>15. K = N => Len(u) = Len(w)
  BY <1>9, <1>11 DEF v, w
<1>16. NullParams(parts) => \E c \in Range(f) : c.header = "folded"
  <2> SUFFICES ASSUME NEW i \in 1 .. K, NEW x \in Range(parts[i].fields), ~x.listed
               PROVE  \E c \in Range(f) : c.header = "folded"
    BY DEF NullParams
  <2> DEFINE c == f[i]
             fs == FieldsOf(c)
  <2>1. c \in Controls /\ c \in Range(f) /\ parts[i].fields = fs
    <3>1. i \in 1 .. N
      BY <1>1
    <3>2. f[i] \in Range(f)
      BY <1>1, <3>1 DEF Range
    <3>3. parts[i] = ReadPart(c, rest[i])
      OBVIOUS
    <3>4. ReadPart(c, rest[i]).fields = fs
      BY DEF ReadPart
    <3> HIDE DEF fs
    <3> QED
      BY <1>1, <3>1, <3>2, <3>3, <3>4 DEF C
  <2> HIDE DEF c
  <2>2. /\ Len(fs) \in Nat \ {0} /\ DOMAIN fs = 1 .. Len(fs)
        /\ fs[1] = Field(Disposition(c.name, c.file))
        /\ \A j \in 2 .. Len(fs) : fs[j] \in OtherFields
        /\ \A j \in 1 .. Len(fs) : fs[j] = Field(NoColon) => c.header = "folded"
    BY <2>1, FieldsAre
  <2> HIDE DEF fs
  <2>3. PICK j \in 1 .. Len(fs) : x = fs[j]
    BY <2>1, <2>2 DEF Range
  <2>4. j = 1 \/ j \in 2 .. Len(fs)
    BY <2>2
  <2>5. fs[j] = Field(NoColon)
    BY <2>2, <2>3, <2>4, FieldKinds DEF OtherFields
  <2> QED
    BY <2>1, <2>2, <2>5
<1>17. Fill(parts) = u /\ Shown(f) = w
  BY <1>2, <1>3 DEF u, w
<1> QED
  BY <1>9, <1>14, <1>15, <1>16, <1>17

(* A type without "=" stands in a body only if a control's header has it.  *)
LEMMA OddFrom ==
    ASSUME NEW f, NEW B, NEW A, Laid(f, B, A), NEW i \in 1 .. Len(B), B[i] = OddType
    PROVE  \E c \in Range(f) : c.header = "odd"
<1> DEFINE N == Len(f)
           T == { k \in 1 .. N : i <= A[k] }
<1>1. N \in Nat /\ DOMAIN f = 1 .. N /\ \A k \in 1 .. N : f[k] \in Controls
  <2>1. f \in Seq(Controls)
    BY DEF Laid
  <2> QED
    BY <2>1, ShownTyped
<1>2. /\ \A k \in 0 .. N : A[k] \in Nat
      /\ A[0] = 0 /\ Len(B) = A[N] + 4
      /\ \A j \in 1 .. 4 : B[A[N] + j] = Closing[j]
  BY DEF Laid
<1>3. A[N] \in Nat /\ i \in Nat
  BY <1>1, <1>2
<1>4. i <= A[N]
  <2> SUFFICES ASSUME i > A[N] PROVE FALSE
    BY <1>3
  <2> DEFINE j == i - A[N]
  <2>1. j \in 1 .. 4 /\ A[N] + j = i
    BY <1>2, <1>3
  <2> HIDE DEF j
  <2>2. Closing[j] = OddType
    BY <1>2, <2>1
  <2>3. j = 1 \/ j = 2 \/ j = 3 \/ j = 4
    BY <2>1
  <2> QED
    BY <2>2, <2>3, ClosingText, OddKind
<1>5. N \in T
  <2>1. N # 0
    BY <1>2, <1>3, <1>4
  <2> QED
    BY <1>1, <1>4, <2>1
<1>6. PICK k \in T : \A y \in T : k <= y
  <2>1. T \subseteq Nat
    BY <1>1
  <2> HIDE DEF T
  <2> QED
    BY <1>5, <2>1, LeastNat
<1> DEFINE p == PartOf(f[k])
           a == A[k - 1]
           j == i - a
<1>7. /\ k \in 1 .. N /\ i <= A[k] /\ A[k] = a + Len(p) /\ a \in Nat /\ A[k] \in Nat
      /\ \A m \in 1 .. Len(p) : B[a + m] = p[m]
  <2>1. k \in 1 .. N /\ i <= A[k]
    OBVIOUS
  <2>2. k - 1 \in 0 .. N /\ k \in 0 .. N
    BY <1>1, <2>1
  <2> QED
    BY <1>2, <2>1, <2>2 DEF Laid
<1>8. a < i
  <2> SUFFICES ASSUME i <= a PROVE FALSE
    BY <1>3, <1>7
  <2>1. k - 1 # 0
    BY <1>2, <1>3
  <2>2. k - 1 \in T
    BY <1>1, <1>7, <2>1
  <2>3. k \in Nat
    BY <1>1, <1>7
  <2> HIDE DEF T
  <2> QED
    BY <1>6, <2>2, <2>3
<1>9. f[k] \in Controls /\ f[k] \in Range(f)
  BY <1>1, <1>7 DEF Range
<1> HIDE DEF p, a, T
<1>10. Len(p) \in Nat
  BY <1>9, PartTyped DEF p
<1>11. j \in 1 .. Len(p) /\ a + j = i
  BY <1>3, <1>7, <1>8, <1>10
<1>12. p[j] = OddType
  <2> HIDE DEF j
  <2> QED
    BY <1>7, <1>11
<1>13. f[k].header = "odd"
  <2> HIDE DEF j
  <2> QED
    BY <1>9, <1>11, <1>12, PartText DEF p
<1> QED
  BY <1>9, <1>13

(* What the array holds of a form whose body was cut, and what may end the *)
(* process.                                                                *)
LEMMA QueryOfForm ==
    ASSUME NEW f \in Seq(Controls), NEW n \in 0 .. Len(Body(f)), NEW b, IsCut(b, Body(f), n)
    PROVE  /\ \E X : Fill(Parts(b)) \in Seq(X)
           /\ Fulfils(Fill(Parts(b)), Shown(f))
           /\ b = Body(f) => Len(Fill(Parts(b))) = Len(Shown(f))
           /\ NullParams(Parts(b)) => \E c \in Range(f) : c.header = "folded"
           /\ ReadsPastEnd(b) => b # Body(f)
           /\ ReadsPastLine(b) => \E c \in Range(f) : c.header = "odd"
<1> DEFINE B == Body(f)
<1>1. PICK A : Laid(f, B, A)
  BY BodyLaid
<1>2. n \in 0 .. Len(B) /\ IsCut(b, B, n)
  OBVIOUS
<1>3. /\ n \in Nat /\ Len(b) \in Nat /\ n <= Len(b) /\ Len(b) <= n + 1
      /\ \A i \in 1 .. n : b[i] = B[i]
      /\ \A i \in n + 1 .. Len(b) : b[i] = Half
  BY <1>1, <1>2, CutBody
<1>4. PICK K \in 0 .. Len(f) : Parts(b) = SubSeq(ReadParts(f, A, b), 1, K) /\ (n = Len(B) => K = Len(f))
  BY <1>1, <1>2, PartsCut
<1>5. Len(B) \in Nat /\ Len(B) # 0 /\ B[Len(B)] = CRLF
  <2>1. Len(f) \in 0 .. Len(f) /\ Len(f) \in Nat
    BY ShownTyped
  <2>2. A[Len(f)] \in Nat /\ Len(B) = A[Len(f)] + 4 /\ B[A[Len(f)] + 4] = Closing[4]
    BY <1>1, <2>1 DEF Laid
  <2> HIDE DEF B
  <2> QED
    BY <2>2, ClosingText
<1>6. CRLF # Boundary /\ Half # CRLF
  BY TokenKinds
<1> HIDE DEF B
<1>7. b = B => n = Len(B)
  <2> SUFFICES ASSUME b = B, n # Len(B) PROVE FALSE
    OBVIOUS
  <2>1. Len(B) \in n + 1 .. Len(b)
    BY <1>3, <1>5
  <2>2. b[Len(B)] = Half
    BY <1>3, <2>1
  <2> QED
    BY <1>5, <1>6, <2>2
<1>8. ReadsPastEnd(b) => b # B
  <2>1. ReadsPastEnd(b) => b[Len(b)] = Boundary \/ b[Len(b)] = Half
    BY DEF ReadsPastEnd, Last
  <2> QED
    BY <1>5, <1>6, <2>1
<1>9. ReadsPastLine(b) => \E c \in Range(f) : c.header = "odd"
  <2> SUFFICES ASSUME NEW i \in 1 .. Len(b) - 1, b[i] = OddType
               PROVE  \E c \in Range(f) : c.header = "odd"
    BY DEF ReadsPastLine
  <2>1. i \in 1 .. n /\ i \in 1 .. Len(B)
    BY <1>2, <1>3, <1>5
  <2>2. B[i] = OddType
    BY <1>3, <2>1
  <2> QED
    BY <1>1, <2>1, <2>2, OddFrom
<1> DEFINE parts == Parts(b)
           rp == ReadParts(f, A, b)
           rest == [i \in 1 .. Len(f) |-> PartRest(f, A, b, i)]
<1>10. DOMAIN parts = 1 .. K /\ \A i \in 1 .. K : parts[i] = ReadPart(f[i], rest[i])
  <2> DEFINE N == Len(f)
             V == { ReadPart(f[i], rest[i]) : i \in 1 .. N }
  <2>1. N \in Nat /\ DOMAIN f = 1 .. N
    BY ShownTyped
  <2>2. rp = [i \in 1 .. N |-> ReadPart(f[i], PartRest(f, A, b, i))]
    BY <2>1 DEF ReadParts
  <2>3. \A i \in 1 .. N : rest[i] = PartRest(f, A, b, i)
    OBVIOUS
  <2> HIDE DEF rest
  <2>4. rp \in [1 .. N -> V] /\ \A i \in 1 .. N : rp[i] = ReadPart(f[i], rest[i])
    BY <2>2, <2>3
  <2>5. parts = SubSeq(rp, 1, K)
    BY <1>4
  <2> HIDE DEF V, rp, N, parts
  <2>6. K \in 0 .. N
    BY DEF N
  <2>7. rp \in Seq(V) /\ Len(rp) = N
    BY <2>1, <2>4
  <2>8. DOMAIN parts = 1 .. K /\ \A i \in 1 .. K : parts[i] = rp[i]
    BY <2>1, <2>5, <2>6, <2>7
  <2>9. \A i \in 1 .. K : i \in 1 .. N
    BY <2>1, <2>6
  <2> QED
    BY <2>4, <2>8, <2>9
<1> HIDE DEF parts, rest, rp
<1>11. /\ \E X : Fill(parts) \in Seq(X)
       /\ Fulfils(Fill(parts), Shown(f))
       /\ K = Len(f) => Len(Fill(parts)) = Len(Shown(f))
       /\ NullParams(parts) => \E c \in Range(f) : c.header = "folded"
  BY <1>10, FillRight
<1>12. b = B => K = Len(f)
  BY <1>4, <1>7 DEF B
<1> QED
  BY <1>8, <1>9, <1>11, <1>12 DEF parts, B

LEMMA NoBody ==
    /\ Fill(Parts(<<>>)) = <<>> /\ ~NullParams(Parts(<<>>))
    /\ ~ReadsPastEnd(<<>>) /\ ~ReadsPastLine(<<>>)
<1> DEFINE f == <<>>
           B == Body(f)
           S == Controls
           b == <<>>
<1>1. f \in Seq(S)
  <2> HIDE DEF S
  <2> QED
    OBVIOUS
<1>2. PICK A : Laid(f, B, A)
  BY <1>1, BodyLaid
<1>3. Len(B) \in Nat
  <2> DEFINE T == Tokens
  <2>1. B \in Seq(T)
    BY <1>2 DEF Laid
  <2> HIDE DEF T, B
  <2> QED
    BY <2>1
<1>4. 0 \in 0 .. Len(B) /\ IsCut(b, B, 0)
  <2> DEFINE T == Tokens
  <2> HIDE DEF B, T
  <2>1. b \in Seq(T) /\ Len(b) = 0 /\ 0 \in 0 .. Len(B)
    BY <1>3
  <2> QED
    BY <2>1 DEF IsCut, T
<1>5. Shown(f) = <<>> /\ Range(f) = {}
  <2>1. Shown(f) = FlattenSeq([i \in DOMAIN f |-> IF f[i].file = NoFile /\ f[i].data = <<>> THEN <<>> ELSE <<f[i]>>])
    BY DEF Shown
  <2>2. [i \in DOMAIN f |-> IF f[i].file = NoFile /\ f[i].data = <<>> THEN <<>> ELSE <<f[i]>>] = <<>>
    OBVIOUS
  <2>3. FlattenSeq(<<>>) = <<>>
    BY DEF FlattenSeq
  <2> QED
    BY <2>1, <2>2, <2>3 DEF Range
<1>6. /\ \E X : Fill(Parts(b)) \in Seq(X)
      /\ Fulfils(Fill(Parts(b)), Shown(f))
      /\ NullParams(Parts(b)) => \E c \in Range(f) : c.header = "folded"
      /\ ReadsPastLine(b) => \E c \in Range(f) : c.header = "odd"
  <2> HIDE DEF b, f
  <2> QED
    BY <1>1, <1>4, QueryOfForm
<1>7. Fill(Parts(b)) = <<>>
  <2> DEFINE q == Fill(Parts(b))
  <2>1. PICK X : q \in Seq(X)
    BY <1>6
  <2>2. Len(q) <= Len(<<>>)
    BY <1>5, <1>6 DEF Fulfils
  <2> HIDE DEF q
  <2>3. q = <<>>
    BY <2>1, <2>2
  <2> QED
    BY <2>3 DEF q
<1>8. ~NullParams(Parts(b)) /\ ~ReadsPastLine(b)
  BY <1>5, <1>6
<1>9. ~ReadsPastEnd(b)
  BY DEF ReadsPastEnd
<1> QED
  BY <1>7, <1>8, <1>9

LEMMA SuffixOf ==
    ASSUME NEW X, NEW x \in Seq(X), NEW y \in Seq(X)
    PROVE  IsSuffix(y, x \o y) /\ SubSeq(x \o y, 1, Len(x \o y) - Len(y)) = x
<1> DEFINE z == x \o y
           l == Len(x)
           m == Len(y)
           u == Reverse(y)
           v == Reverse(z)
<1>1. /\ z \in Seq(X) /\ l \in Nat /\ m \in Nat /\ Len(z) = l + m
      /\ \A i \in 1 .. l : z[i] = x[i]
      /\ \A j \in 1 .. m : z[l + j] = y[j]
  <2>1. z = x \o y
    OBVIOUS
  <2> HIDE DEF z
  <2> QED
    BY <2>1, ConcatFacts
<1> HIDE DEF z
<1>2. u = [i \in 1 .. m |-> y[(m - i) + 1]] /\ v = [i \in 1 .. Len(z) |-> z[(Len(z) - i) + 1]]
  BY DEF Reverse
<1> HIDE DEF u, v, l, m
<1>3. u \in Seq(X) /\ Len(u) = m
  <2>1. \A i \in 1 .. m : y[(m - i) + 1] \in X
    <3> TAKE i \in 1 .. m
    <3>1. (m - i) + 1 \in 1 .. m
      BY <1>1
    <3> QED
      BY <3>1 DEF m
  <2>2. u \in [1 .. m -> X]
    BY <1>2, <2>1
  <2> QED
    BY <1>1, <2>2
<1>4. v \in Seq(X) /\ Len(v) = l + m
  <2>1. Len(z) \in Nat
    BY <1>1
  <2>2. \A i \in 1 .. Len(z) : z[(Len(z) - i) + 1] \in X
    <3> TAKE i \in 1 .. Len(z)
    <3>1. (Len(z) - i) + 1 \in 1 .. Len(z)
      BY <2>1
    <3> QED
      BY <1>1, <3>1
  <2> DEFINE k == Len(z)
  <2>3. v \in [1 .. k -> X]
    BY <1>2, <2>2
  <2>4. k \in Nat /\ k = l + m
    BY <1>1
  <2> HIDE DEF k
  <2>5. v \in Seq(X) /\ Len(v) = k
    <3>1. k \in Nat
      BY <2>4
    <3> QED
      BY <2>3, <3>1
  <2> QED
    BY <2>4, <2>5
<1>5. \A i \in 1 .. m : v[i] = u[i]
  <2> TAKE i \in 1 .. m
  <2>1. /\ i \in 1 .. Len(z) /\ (m - i) + 1 \in 1 .. m
        /\ (Len(z) - i) + 1 = l + ((m - i) + 1)
    BY <1>1
  <2>2. v[i] = z[l + ((m - i) + 1)] /\ u[i] = y[(m - i) + 1]
    BY <1>2, <2>1
  <2> DEFINE j == (m - i) + 1
  <2>3. j \in 1 .. m /\ v[i] = z[l + j] /\ u[i] = y[j]
    BY <2>1, <2>2
  <2> HIDE DEF j
  <2>4. z[l + j] = y[j]
    BY <1>1, <2>3
  <2> QED
    BY <2>3, <2>4
<1>6. IsPrefix(u, v)
  <2>1. Len(u) <= Len(v)
    BY <1>1, <1>3, <1>4
  <2>2. SubSeq(u, 1, Len(u)) = SubSeq(v, 1, Len(u))
    <3> DEFINE k == Len(u)
    <3>1. k \in 0 .. Len(u) /\ 0 + k <= Len(v) /\ \A j \in 1 .. k : v[0 + j] = u[j]
      BY <1>1, <1>3, <1>4, <1>5
    <3>2. SubSeq(v, 0 + 1, 0 + k) = SubSeq(u, 1, k)
      <4>1. 0 \in Nat
        OBVIOUS
      <4> HIDE DEF k
      <4> QED
        BY <1>3, <1>4, <3>1, <4>1, PieceAt
    <3>3. 0 + 1 = 1 /\ 0 + k = k
      BY <1>1, <1>3
    <3> QED
      BY <3>2, <3>3
  <2> QED
    BY <2>1, <2>2 DEF IsPrefix
<1>7. SubSeq(z, 1, Len(z) - Len(y)) = x
  <2>1. Len(z) - Len(y) = l
    BY <1>1 DEF m
  <2>2. l \in 0 .. Len(x) /\ 0 + l <= Len(z) /\ \A j \in 1 .. l : z[0 + j] = x[j]
    BY <1>1 DEF l
  <2>3. SubSeq(z, 0 + 1, 0 + l) = SubSeq(x, 1, l)
    <3>1. 0 \in Nat
      OBVIOUS
    <3> QED
      BY <1>1, <2>2, <3>1, PieceAt
  <2>4. SubSeq(x, 1, l) = x
    BY DEF l
  <2>5. 0 + 1 = 1 /\ 0 + l = l
    BY <1>1
  <2> QED
    BY <2>1, <2>3, <2>4, <2>5
<1> QED
  BY <1>6, <1>7 DEF IsSuffix, u, v, z

-----------------------------------------------------------------------------
(* The invariant: what arrived is a beginning of what was sent, an object  *)
(* holds the text that its place allows it, and an answer is the one that  *)
(* this text gives.                                                        *)
TextArrived(p, b) ==
    \E n \in 0 .. Len(Link(p)) : \E x \in Stubs :
      /\ x # <<>> => n < Len(Link(p)) /\ Link(p)[n + 1].esc
      /\ b = SubSeq(Link(p), 1, n) \o x

FormArrived(f, b) == \E n \in 0 .. Len(Body(f)) : IsCut(b, Body(f), n)

InputRight(m, x) ==
    /\ m \in {"GET", "POST"} /\ x.type \in {"pairs", "multipart", "unbounded"}
    /\ x.sentArgs \in Seq(PairSet) /\ x.args = Link(x.sentArgs)
    /\ m = "GET" => x.type = "pairs"
    /\ m = "POST" /\ x.type = "pairs" =>
         x.sent \in Seq(PairSet) /\ TextArrived(x.sent, x.body) /\ (x.whole => x.body = Link(x.sent))
    /\ m = "POST" /\ x.type = "multipart" =>
         x.sent \in Seq(Controls) /\ FormArrived(x.sent, x.body) /\ (x.whole <=> x.body = Body(x.sent))

TextOf(m, x, o) ==
    CASE m = "GET" -> x.args
      [] m = "POST" /\ o = 1 -> x.body
      [] OTHER -> <<>>

ObjectsRight(objs, m, x) ==
    /\ objs \in Seq({x.args, x.body, <<>>}) /\ Len(objs) <= 2
    /\ \A o \in 1 .. Len(objs) : objs[o] = TextOf(m, x, o)

AnswerRight ==
    /\ asked \in 0 .. Len(objects)
    /\ asked = 0 => ~crashed
    /\ asked # 0 /\ crashed => Crashes(asked) \/ MayCrash(asked)
    /\ asked # 0 /\ ~crashed => ~Crashes(asked) /\ query = QueryOf(asked)

RequestInv ==
    /\ InputRight(method, input)
    /\ ObjectsRight(objects, method, input)
    /\ AnswerRight

LEMMA CutText ==
    ASSUME NEW p \in Seq(PairSet), NEW n \in 0 .. Len(Link(p))
    PROVE  TextArrived(p, SubSeq(Link(p), 1, n))
<1> DEFINE t == Link(p)
           e == <<>>
<1>1. t \in Seq(Symbols)
  BY LinkTyped
<1>2. e \in Stubs
  BY DEF Stubs
<1>3. SubSeq(t, 1, n) \o e = SubSeq(t, 1, n)
  <2> DEFINE S == Symbols
  <2>1. t \in Seq(S) /\ n \in 0 .. Len(t)
    BY <1>1
  <2> HIDE DEF t, S
  <2>2. SubSeq(t, 1, n) \in Seq(S)
    BY <2>1
  <2> QED
    BY <2>2
<1> HIDE DEF e
<1>4. e = <<>>
  BY DEF e
<1> QED
  BY <1>2, <1>3, <1>4 DEF TextArrived

LEMMA TextArrives ==
    ASSUME NEW p \in Seq(PairSet), NEW b \in ArrivedText(Link(p))
    PROVE  TextArrived(p, b)
<1> DEFINE t == Link(p)
           l == Len(t)
<1>1. DOMAIN t = 1 .. l /\ l \in Nat
  <2> DEFINE S == Symbols
  <2>1. t \in Seq(S)
    BY LinkTyped
  <2> HIDE DEF S, t
  <2> QED
    BY <2>1
<1>2. CASE b \in Cuts(t)
  <2>1. PICK n \in 0 .. l : b = SubSeq(t, 1, n)
    BY <1>2 DEF Cuts
  <2> QED
    BY <2>1, CutText
<1>3. CASE b \in UNION { CutsInside(t, n) : n \in { i \in DOMAIN t : t[i].esc } }
  <2>1. PICK m \in { i \in DOMAIN t : t[i].esc } : b \in CutsInside(t, m)
    BY <1>3
  <2>2. PICK s \in Beginnings : b = SubSeq(t, 1, m - 1) \o Stub(s)
    BY <2>1 DEF CutsInside
  <2> DEFINE n == m - 1
             x == Stub(s)
  <2>3. n \in 0 .. l /\ n < l /\ n + 1 = m /\ t[m].esc
    BY <1>1
  <2>4. x \in Stubs
    BY DEF Stubs
  <2>5. b = SubSeq(t, 1, n) \o x
    BY <2>2
  <2> HIDE DEF n, x
  <2> QED
    BY <2>3, <2>4, <2>5 DEF TextArrived
<1> QED
  BY <1>2, <1>3 DEF ArrivedText

LEMMA FormArrives ==
    ASSUME NEW f \in Seq(Controls), NEW b \in ArrivedBody(Body(f))
    PROVE  FormArrived(f, b)
<1> DEFINE B == Body(f)
           T == Tokens
           l == Len(B)
<1>1. B \in Seq(T)
  <2>1. PICK A : Laid(f, B, A)
    BY BodyLaid
  <2> QED
    BY <2>1 DEF Laid
<1>2. Half \in T
  BY TokenKinds
<1> HIDE DEF T, B
<1>3. l \in Nat /\ DOMAIN B = 1 .. l
  BY <1>1
<1>4. CASE b \in Cuts(B)
  <2>1. PICK n \in 0 .. l : b = SubSeq(B, 1, n)
    BY <1>4 DEF Cuts
  <2>2. /\ b \in Seq(T) /\ Len(b) = n /\ Len(b) # n + 1
        /\ \A i \in 1 .. n : b[i] = B[i]
    BY <1>1, <1>3, <2>1
  <2>3. IsCut(b, B, n)
    BY <2>2 DEF IsCut, T
  <2> QED
    BY <2>3 DEF FormArrived, B
<1>5. CASE \E m \in DOMAIN B : b = Append(SubSeq(B, 1, m - 1), Half)
  <2>1. PICK m \in DOMAIN B : b = Append(SubSeq(B, 1, m - 1), Half)
    BY <1>5
  <2> DEFINE n == m - 1
             x == SubSeq(B, 1, n)
             h == Half
  <2>2. n \in 0 .. l /\ n < l /\ n + 1 = m
    BY <1>3
  <2> HIDE DEF n
  <2>3. x \in Seq(T) /\ Len(x) = n /\ \A i \in 1 .. n : x[i] = B[i]
    BY <1>1, <1>3, <2>2
  <2>4. b = Append(x, h) /\ h \in T
    BY <1>2, <2>1 DEF n
  <2> HIDE DEF x, h
  <2>5. b \in Seq(T) /\ Len(b) = n + 1 /\ b[n + 1] = h /\ \A i \in 1 .. n : b[i] = x[i]
    BY <2>2, <2>3, <2>4
  <2>6. IsCut(b, B, n)
    BY <2>2, <2>3, <2>5 DEF IsCut, T, h
  <2> QED
    BY <2>2, <2>6 DEF FormArrived, B
<1> QED
  BY <1>4, <1>5 DEF ArrivedBody, B

LEMMA InputsRight == GetInput \/ PostInput => InputRight(method, input)
<1>1. PairLists \subseteq Seq(PairSet) /\ Forms \subseteq Seq(Controls)
  BY FormsAssumption, PairsAssumption DEF PairSet
<1>2. ASSUME GetInput PROVE InputRight(method, input)
  <2>1. PICK a \in PairLists : input = Input(a, <<>>, <<>>, "pairs")
    BY <1>2 DEF GetInput
  <2>2. method = "GET" /\ input.sentArgs = a /\ input.args = Link(a) /\ input.type = "pairs"
    BY <1>2, <2>1 DEF GetInput, Input
  <2> QED
    BY <1>1, <2>2 DEF InputRight
<1>e. <<>> \in Seq(PairSet)
  <2> DEFINE S == PairSet
  <2> HIDE DEF S
  <2>1. <<>> \in Seq(S)
    OBVIOUS
  <2> QED
    BY <2>1 DEF S
<1>3. ASSUME PostInput PROVE InputRight(method, input)
  <2>0. method = "POST"
    BY <1>3 DEF PostInput
  <2>1. CASE \E a, p \in PairLists : \E b \in ArrivedText(Link(p)) : input = Input(a, p, b, "pairs")
    <3>1. PICK a \in PairLists, p \in PairLists : \E b \in ArrivedText(Link(p)) : input = Input(a, p, b, "pairs")
      BY <2>1
    <3>2. PICK b \in ArrivedText(Link(p)) : input = Input(a, p, b, "pairs")
      BY <3>1
    <3>3. /\ input.sentArgs = a /\ input.args = Link(a) /\ input.type = "pairs"
          /\ input.body = b /\ input.sent = p
          /\ input.whole => input.body = Link(p)
      BY <3>2 DEF Input
    <3>4. TextArrived(p, b)
      BY <1>1, TextArrives
    <3> QED
      BY <1>1, <2>0, <3>3, <3>4 DEF InputRight
  <2>2. CASE \E f \in Forms : \E b \in ArrivedBody(Body(f)) : input = Input(<<>>, f, b, "multipart")
    <3>1. PICK f \in Forms : \E b \in ArrivedBody(Body(f)) : input = Input(<<>>, f, b, "multipart")
      BY <2>2
    <3>2. PICK b \in ArrivedBody(Body(f)) : input = Input(<<>>, f, b, "multipart")
      BY <3>1
    <3>3. /\ input.sentArgs = <<>> /\ input.args = Link(<<>>) /\ input.type = "multipart"
          /\ input.body = b /\ input.sent = f
          /\ input.whole <=> input.body = Body(f)
      BY <3>2 DEF Input
    <3>4. FormArrived(f, b)
      BY <1>1, FormArrives
    <3> QED
      BY <1>1, <1>e, <2>0, <3>3, <3>4 DEF InputRight
  <2>3. CASE \E f \in Forms : input = Input(<<>>, f, Body(f), "unbounded")
    <3>1. PICK f \in Forms : input = Input(<<>>, f, Body(f), "unbounded")
      BY <2>3
    <3>2. input.sentArgs = <<>> /\ input.args = Link(<<>>) /\ input.type = "unbounded"
      BY <3>1 DEF Input
    <3> QED
      BY <1>e, <2>0, <3>2 DEF InputRight
  <2> QED
    BY <1>3, <2>1, <2>2, <2>3 DEF PostInput
<1> QED
  BY <1>2, <1>3

LEMMA RequestInitInv == RequestInit => RequestInv
<1> SUFFICES ASSUME RequestInit PROVE RequestInv
  OBVIOUS
<1>1. InputRight(method, input)
  BY InputsRight DEF RequestInit
<1>2. objects = <<>> /\ asked = 0 /\ crashed = FALSE
  BY DEF RequestInit
<1>3. Len(objects) = 0 /\ DOMAIN objects = 1 .. 0
  BY <1>2
<1> QED
  BY <1>1, <1>2, <1>3 DEF RequestInv, ObjectsRight, AnswerRight

LEMMA NewObjectInv == ASSUME RequestInv, NewObject PROVE RequestInv'
<1> DEFINE t == CASE method = "GET" -> input.args
                  [] method = "POST" /\ objects = <<>> -> input.body
                  [] OTHER -> <<>>
           l == Len(objects)
           X == {input.args, input.body, <<>>}
<1>1. /\ InputRight(method, input) /\ ObjectsRight(objects, method, input) /\ AnswerRight
      /\ l < 2 /\ objects' = Append(objects, t)
      /\ UNCHANGED <<method, input, asked, query, crashed>>
  BY DEF RequestInv, NewObject
<1>2. objects \in Seq(X) /\ l \in 0 .. 1 /\ \A o \in 1 .. l : objects[o] = TextOf(method, input, o)
  <2>1. objects \in Seq(X) /\ l <= 2 /\ \A o \in 1 .. l : objects[o] = TextOf(method, input, o)
    BY <1>1 DEF ObjectsRight
  <2>2. l < 2
    BY <1>1
  <2> HIDE DEF X, t
  <2> QED
    BY <2>1, <2>2
<1>3. t \in X /\ t = TextOf(method, input, l + 1)
  <2>1. t \in X
    OBVIOUS
  <2>2. objects = <<>> <=> l + 1 = 1
    <3> HIDE DEF X
    <3> QED
      BY <1>2
  <2> QED
    BY <2>1, <2>2 DEF TextOf
<1> HIDE DEF X, t
<1>4. /\ objects' \in Seq(X) /\ Len(objects') = l + 1
      /\ \A o \in 1 .. l : objects'[o] = objects[o]
      /\ objects'[l + 1] = t
  BY <1>1, <1>2, <1>3
<1>5. InputRight(method, input)'
  BY <1>1
<1>6. ObjectsRight(objects, method, input)'
  <2>1. \A o \in 1 .. Len(objects') : objects'[o] = TextOf(method, input, o)
    BY <1>2, <1>3, <1>4
  <2> QED
    BY <1>1, <1>2, <1>4, <2>1 DEF ObjectsRight, X
<1>7. AnswerRight'
  <2>1. asked \in 0 .. l /\ asked' = asked
    BY <1>1 DEF AnswerRight
  <2>2. asked # 0 => objects'[asked] = objects[asked]
    BY <1>2, <1>4, <2>1
  <2>3. asked # 0 => /\ (Crashes(asked)' <=> Crashes(asked)) /\ (MayCrash(asked)' <=> MayCrash(asked))
                     /\ QueryOf(asked)' = QueryOf(asked)
    BY <1>1, <2>2 DEF Crashes, MayCrash, QueryOf
  <2>4. asked' \in 0 .. Len(objects')
    BY <1>2, <1>4, <2>1
  <2> QED
    BY <1>1, <2>1, <2>3, <2>4 DEF AnswerRight
<1> QED
  BY <1>5, <1>6, <1>7 DEF RequestInv

LEMMA QueryInv == ASSUME RequestInv, NEW o \in 1 .. 2, Query(o) PROVE RequestInv'
<1>1. /\ InputRight(method, input) /\ ObjectsRight(objects, method, input)
      /\ o \in DOMAIN objects /\ asked' = o
      /\ Crashes(o) => crashed'
      /\ crashed' => Crashes(o) \/ MayCrash(o)
      /\ query' = IF crashed' THEN <<>> ELSE QueryOf(o)
      /\ UNCHANGED <<method, input, objects>>
  BY DEF RequestInv, Query
<1>2. InputRight(method, input)' /\ ObjectsRight(objects, method, input)'
  BY <1>1
<1>3. o \in 0 .. Len(objects) /\ o # 0
  <2> DEFINE X == {input.args, input.body, <<>>}
  <2>1. objects \in Seq(X) /\ o \in DOMAIN objects
    BY <1>1 DEF ObjectsRight
  <2> HIDE DEF X
  <2> QED
    BY <2>1
<1>4. /\ (Crashes(asked)' <=> Crashes(o)) /\ (MayCrash(asked)' <=> MayCrash(o))
      /\ QueryOf(asked)' = QueryOf(o)
  BY <1>1 DEF Crashes, MayCrash, QueryOf
<1>5. AnswerRight'
  BY <1>1, <1>3, <1>4 DEF AnswerRight
<1> QED
  BY <1>2, <1>5 DEF RequestInv

LEMMA RequestNextInv == RequestInv /\ [RequestNext]_requestVars => RequestInv'
<1> SUFFICES ASSUME RequestInv, [RequestNext]_requestVars PROVE RequestInv'
  OBVIOUS
<1>1. CASE NewObject
  BY <1>1, NewObjectInv
<1>2. CASE \E o \in 1 .. 2 : Query(o)
  <2>1. PICK o \in 1 .. 2 : Query(o)
    BY <1>2
  <2> QED
    BY <2>1, QueryInv
<1>3. CASE UNCHANGED requestVars
  <2>1. UNCHANGED <<method, input, objects, asked, query, crashed>>
    BY <1>3 DEF requestVars
  <2>2. asked # 0 => /\ (Crashes(asked)' <=> Crashes(asked)) /\ (MayCrash(asked)' <=> MayCrash(asked))
                     /\ QueryOf(asked)' = QueryOf(asked)
    BY <2>1 DEF Crashes, MayCrash, QueryOf
  <2> QED
    BY <2>1, <2>2 DEF RequestInv, AnswerRight
<1> QED
  BY <1>1, <1>2, <1>3 DEF RequestNext

(* What the array of query() takes from the body.                          *)
BodyPart(o) ==
    CASE method = "GET" -> <<>>
      [] method = "POST" /\ input.type = "multipart" -> Fill(Parts(objects[o]))
      [] OTHER -> Populate(objects[o])

(* What it should be, for the first object of a POST and for the others.   *)
BodyRight(q, o) ==
    /\ method = "GET" \/ o = 2 => q = <<>>
    /\ method = "POST" /\ o = 1 /\ input.type = "pairs" =>
         CutShort(q, input.sent) /\ (input.whole => q = input.sent)
    /\ method = "POST" /\ o = 1 /\ input.type = "multipart" =>
         Fulfils(q, Shown(input.sent)) /\ (input.whole => Len(q) = Len(Shown(input.sent)))

LEMMA ArgsRight == ASSUME NEW p \in Seq(PairSet) PROVE Populate(Link(p)) = p
<1> DEFINE t == Link(p)
           l == Len(t)
           e == <<>>
           q == Populate(t)
<1>1. l \in 0 .. l /\ SubSeq(t, 1, l) \o e = t
  <2> DEFINE S == Symbols
  <2>1. t \in Seq(S)
    BY LinkTyped
  <2> HIDE DEF t, S
  <2>2. l \in Nat /\ SubSeq(t, 1, l) = t /\ t \o <<>> = t
    BY <2>1
  <2> QED
    BY <2>2
<1>2. e \in Stubs
  BY DEF Stubs
<1>3. PICK n \in 0 .. l : n = l /\ SubSeq(t, 1, n) \o e = t
  BY <1>1
<1>4. PICK x \in Stubs : x = <<>> /\ SubSeq(t, 1, n) \o x = t
  BY <1>2, <1>3
<1> HIDE DEF q
<1>5. q = Populate(SubSeq(Link(p), 1, n) \o x)
  BY <1>4 DEF q
<1>6. x # <<>> => n < Len(Link(p)) /\ Link(p)[n + 1].esc
  BY <1>4
<1>7. n = Len(Link(p))
  BY <1>3
<1>8. q = p
  BY <1>5, <1>6, <1>7, QueryOfText
<1> QED
  BY <1>8 DEF q

LEMMA BodyCorrect ==
    ASSUME InputRight(method, input), ObjectsRight(objects, method, input),
           NEW o \in 1 .. Len(objects), ~Crashes(o)
    PROVE  /\ o \in 1 .. 2 /\ input.type \in {"pairs", "multipart"}
           /\ \E X : PairSet \subseteq X /\ BodyPart(o) \in Seq(X)
           /\ BodyRight(BodyPart(o), o)
           /\ input.type = "pairs" =>
                /\ Populate(objects[o]) \in Seq(PairSet)
                /\ Populate(objects[o]) = IF method = "GET" THEN input.sentArgs ELSE BodyPart(o)
<1> DEFINE P == PairSet
           t == objects[o]
           r == BodyPart(o)
<1>1. o \in 1 .. 2
  <2> DEFINE Y == {input.args, input.body, <<>>}
  <2>1. objects \in Seq(Y) /\ Len(objects) <= 2
    BY DEF ObjectsRight
  <2> HIDE DEF Y
  <2> QED
    BY <2>1
<1>2. t = TextOf(method, input, o)
  BY DEF ObjectsRight
<1>3. method \in {"GET", "POST"} /\ "GET" # "POST"
  BY DEF InputRight
<1>4. input.type \in {"pairs", "multipart"}
  BY <1>3 DEF InputRight, Crashes
<1>5. <<>> \in Seq(P)
  <2> HIDE DEF P
  <2> QED
    OBVIOUS
<1>6. CASE method = "GET"
  <2>1. t = input.args /\ input.args = Link(input.sentArgs) /\ input.sentArgs \in Seq(P)
    BY <1>2, <1>6 DEF TextOf, InputRight
  <2>2. Populate(t) = input.sentArgs
    BY <2>1, ArgsRight
  <2>3. r = <<>> /\ BodyRight(r, o)
    BY <1>3, <1>6 DEF BodyPart, BodyRight
  <2> HIDE DEF t, r, P
  <2>4. \E X : P \subseteq X /\ r \in Seq(X)
    BY <1>5, <2>3
  <2> QED
    BY <1>1, <1>4, <1>6, <2>1, <2>2, <2>3, <2>4 DEF r, t, P
<1>7. CASE method = "POST" /\ o = 2
  <2>1. t = <<>>
    BY <1>2, <1>3, <1>7 DEF TextOf
  <2>2. r = <<>> /\ Populate(t) = <<>>
    BY <1>3, <1>7, <2>1, NoBody, PopulateNone DEF BodyPart
  <2>3. BodyRight(r, o)
    BY <1>3, <1>7, <2>2 DEF BodyRight
  <2> HIDE DEF t, r, P
  <2>4. \E X : P \subseteq X /\ r \in Seq(X)
    BY <1>5, <2>2
  <2> QED
    BY <1>1, <1>3, <1>4, <1>5, <1>7, <2>2, <2>3, <2>4 DEF r, t, P
<1>8. CASE method = "POST" /\ o = 1 /\ input.type = "multipart"
  <2>1. t = input.body /\ r = Fill(Parts(t))
    BY <1>2, <1>3, <1>8 DEF TextOf, BodyPart
  <2> DEFINE f == input.sent
  <2>2. f \in Seq(Controls) /\ FormArrived(f, t) /\ (input.whole <=> t = Body(f))
    BY <1>8, <2>1 DEF InputRight
  <2> HIDE DEF f, t, r
  <2>3. PICK n \in 0 .. Len(Body(f)) : IsCut(t, Body(f), n)
    BY <2>2 DEF FormArrived
  <2>4. /\ \E X : Fill(Parts(t)) \in Seq(X)
        /\ Fulfils(Fill(Parts(t)), Shown(f))
        /\ t = Body(f) => Len(Fill(Parts(t))) = Len(Shown(f))
    BY <2>2, <2>3, QueryOfForm
  <2>5. BodyRight(r, o)
    BY <1>3, <1>8, <2>1, <2>2, <2>4 DEF BodyRight, f
  <2>6. \E X : P \subseteq X /\ r \in Seq(X)
    <3>1. PICK Y : r \in Seq(Y)
      BY <2>1, <2>4
    <3> DEFINE X == P \cup Y
    <3>2. P \subseteq X /\ Y \subseteq X
      OBVIOUS
    <3> HIDE DEF X, P
    <3>3. r \in Seq(X)
      BY <3>1, <3>2
    <3> QED
      BY <3>2, <3>3
  <2> QED
    BY <1>1, <1>4, <1>8, <2>5, <2>6 DEF r, P
<1>9. CASE method = "POST" /\ o = 1 /\ input.type = "pairs"
  <2>1. t = input.body /\ r = Populate(t)
    BY <1>2, <1>3, <1>9 DEF TextOf, BodyPart
  <2> DEFINE p == input.sent
  <2>2. p \in Seq(PairSet) /\ TextArrived(p, t) /\ (input.whole => t = Link(p))
    BY <1>9, <2>1 DEF InputRight
  <2> HIDE DEF p, t, r
  <2>3. PICK n \in 0 .. Len(Link(p)) : \E x \in Stubs :
          /\ x # <<>> => n < Len(Link(p)) /\ Link(p)[n + 1].esc
          /\ t = SubSeq(Link(p), 1, n) \o x
    BY <2>2 DEF TextArrived
  <2>4. PICK x \in Stubs :
          /\ x # <<>> => n < Len(Link(p)) /\ Link(p)[n + 1].esc
          /\ t = SubSeq(Link(p), 1, n) \o x
    BY <2>3
  <2>5. r \in Seq(PairSet) /\ CutShort(r, p)
    <3>1. r = Populate(SubSeq(Link(p), 1, n) \o x)
      BY <2>1, <2>4
    <3> QED
      BY <2>2, <2>4, <3>1, QueryOfText
  <2>6. input.whole => r = p
    BY <2>1, <2>2, ArgsRight
  <2>7. BodyRight(r, o)
    BY <1>3, <1>9, <2>5, <2>6 DEF BodyRight, p
  <2>8. \E X : P \subseteq X /\ r \in Seq(X)
    <3>1. P \subseteq P /\ r \in Seq(P)
      BY <2>5
    <3> HIDE DEF P
    <3> QED
      BY <3>1
  <2> QED
    BY <1>1, <1>3, <1>4, <1>9, <2>1, <2>5, <2>7, <2>8 DEF r, t, P
<1> QED
  BY <1>1, <1>3, <1>4, <1>6, <1>7, <1>8, <1>9

(* The values of a name are a sequence.                                    *)
LEMMA ValuesTyped ==
    ASSUME NEW q \in Seq(PairSet), NEW name
    PROVE  IsPrefix(ValuesOf(q, name), ValuesOf(q, name))
<1> DEFINE V == Seq(Chars)
           Y == Seq(V)
           N == Len(q)
           G(i) == IF q[i].key = name THEN <<q[i].val>> ELSE <<>>
           ss == [i \in DOMAIN q |-> G(i)]
           x == FlattenSeq(ss)
<1>1. N \in Nat /\ DOMAIN q = 1 .. N /\ \A i \in 1 .. N : q[i] \in PairSet
  <2> DEFINE S == PairSet
  <2>1. q \in Seq(S)
    OBVIOUS
  <2> HIDE DEF S
  <2> QED
    BY <2>1
<1>2. \A i \in 1 .. N : G(i) \in Y
  <2> TAKE i \in 1 .. N
  <2> DEFINE v == q[i].val
  <2>1. v \in V
    BY <1>1 DEF PairSet
  <2> HIDE DEF V, v
  <2>2. <<v>> \in Y /\ <<>> \in Y
    BY <2>1
  <2> QED
    BY <2>2 DEF v
<1>3. ss = [i \in 1 .. N |-> G(i)]
  BY <1>1
<1>4. ss \in Seq(Y)
  <2> HIDE DEF Y, N, G, ss
  <2> QED
    BY <1>1, <1>2, <1>3
<1> HIDE DEF ss, V
<1>5. x \in Seq(V)
  <2>1. 0 \in 0 .. Len(ss)
    <3> HIDE DEF Y
    <3> QED
      BY <1>4
  <2> QED
    BY <1>4, <2>1, FlattenPrefix
<1>6. ValuesOf(q, name) = x
  BY DEF ValuesOf, ss
<1> HIDE DEF x
<1>7. Len(x) <= Len(x)
  BY <1>5
<1> QED
  BY <1>6, <1>7 DEF IsPrefix

LEMMA QueryFromInv == RequestInv => QueryRight
<1> SUFFICES ASSUME RequestInv, asked # 0, ~crashed
             PROVE  QueryRight
  BY DEF QueryRight
<1> DEFINE args == input.sentArgs
           r == BodyPart(asked)
<1>1. /\ InputRight(method, input) /\ ObjectsRight(objects, method, input)
      /\ asked \in 0 .. Len(objects) /\ ~Crashes(asked) /\ query = QueryOf(asked)
  BY DEF RequestInv, AnswerRight
<1>2. asked \in 1 .. Len(objects)
  <2> DEFINE Y == {input.args, input.body, <<>>}
  <2>1. objects \in Seq(Y)
    BY <1>1 DEF ObjectsRight
  <2> HIDE DEF Y
  <2> QED
    BY <1>1, <2>1
<1>3. /\ asked \in 1 .. 2 /\ input.type \in {"pairs", "multipart"}
      /\ \E X : PairSet \subseteq X /\ r \in Seq(X)
      /\ BodyRight(r, asked)
      /\ input.type = "pairs" =>
           /\ Populate(objects[asked]) \in Seq(PairSet)
           /\ Populate(objects[asked]) = IF method = "GET" THEN args ELSE r
  BY <1>1, <1>2, BodyCorrect
<1>4. args \in Seq(PairSet) /\ Populate(input.args) = args
  BY <1>1, ArgsRight DEF InputRight
<1>m. method \in {"GET", "POST"} /\ "GET" # "POST"
  BY <1>1 DEF InputRight
<1>5. query = r \o args
  BY <1>1, <1>4 DEF QueryOf, BodyPart
<1> HIDE DEF r, args
<1>6. PICK X : PairSet \subseteq X /\ r \in Seq(X)
  BY <1>3
<1>7. args \in Seq(X)
  <2> DEFINE A == PairSet
  <2>1. A \subseteq X /\ args \in Seq(A)
    BY <1>4, <1>6
  <2> HIDE DEF A
  <2> QED
    BY <2>1
<1>8. IsSuffix(args, query) /\ SubSeq(query, 1, Len(query) - Len(args)) = r
  BY <1>5, <1>6, <1>7, SuffixOf
<1> DEFINE body == SubSeq(query, 1, Len(query) - Len(args))
           own == IF method = "GET" THEN args ELSE body
           shown == Shown(input.sent)
<1>9. body = r
  BY <1>8
<1>d. DOMAIN r = 1 .. Len(r)
  BY <1>6
<1> HIDE DEF body
<1>10. ASSUME method = "GET" \/ asked = 2 PROVE body = <<>>
  BY <1>3, <1>9, <1>10 DEF BodyRight
<1>11. ASSUME method = "POST", asked = 1, input.type = "pairs"
       PROVE  CutShort(body, input.sent) /\ (input.whole => body = input.sent)
  BY <1>3, <1>9, <1>11 DEF BodyRight
<1>12. ASSUME method = "POST", asked = 1, input.type = "multipart"
       PROVE  /\ Len(body) <= Len(shown) /\ (input.whole => Len(body) = Len(shown))
              /\ \A i \in DOMAIN body : Delivers(body[i], shown[i])
  BY <1>3, <1>9, <1>12, <1>d DEF BodyRight, Fulfils
<1>13. input.type = "pairs" =>
         \A p \in Range(input.sent \o args) :
            IsPrefix(ValuesOf(own, p.key), GetParams(asked, p.key))
  <2> SUFFICES ASSUME input.type = "pairs", NEW name
               PROVE  IsPrefix(ValuesOf(own, name), GetParams(asked, name))
    OBVIOUS
  <2> DEFINE q == Populate(objects[asked])
  <2>1. q \in Seq(PairSet) /\ q = own
    BY <1>3, <1>9
  <2>2. GetParams(asked, name) = ValuesOf(q, name)
    BY DEF GetParams
  <2> HIDE DEF q, own
  <2> QED
    BY <2>1, <2>2, ValuesTyped
<1> HIDE DEF own, shown
<1>14. CASE method = "GET" \/ asked = 2
  BY <1>8, <1>10, <1>13, <1>14 DEF QueryRight, body, args, own, shown
<1>15. CASE method = "POST" /\ asked = 1 /\ input.type = "pairs"
  BY <1>8, <1>11, <1>13, <1>15, <1>m DEF QueryRight, body, args, own, shown
<1>16. CASE method = "POST" /\ asked = 1 /\ input.type = "multipart"
  BY <1>8, <1>12, <1>13, <1>16, <1>m DEF QueryRight, body, args, own, shown
<1> QED
  BY <1>3, <1>m, <1>14, <1>15, <1>16

LEMMA CrashesFromInv == RequestInv => CrashesExplained
<1> SUFFICES ASSUME RequestInv, crashed, input.type # "unbounded"
             PROVE  CrashesExplained
  BY DEF CrashesExplained
<1> DEFINE t == objects[asked]
           f == input.sent
<1>1. /\ InputRight(method, input) /\ ObjectsRight(objects, method, input)
      /\ asked \in 0 .. Len(objects) /\ asked # 0 /\ (Crashes(asked) \/ MayCrash(asked))
  BY DEF RequestInv, AnswerRight
<1>2. /\ method = "POST" /\ input.type = "multipart"
      /\ ReadsPastEnd(t) \/ ReadsPastLine(t) \/ NullParams(Parts(t))
  BY <1>1 DEF Crashes, MayCrash
<1>3. asked \in 1 .. 2 /\ asked \in 1 .. Len(objects)
  <2> DEFINE Y == {input.args, input.body, <<>>}
  <2>1. objects \in Seq(Y) /\ Len(objects) <= 2
    BY <1>1 DEF ObjectsRight
  <2> HIDE DEF Y
  <2> QED
    BY <1>1, <2>1
<1>4. t = TextOf(method, input, asked)
  BY <1>1, <1>3 DEF ObjectsRight
<1>5. asked = 1 /\ t = input.body
  BY <1>2, <1>3, <1>4, NoBody DEF TextOf
<1>6. f \in Seq(Controls) /\ FormArrived(f, t) /\ (input.whole <=> t = Body(f))
  BY <1>1, <1>2, <1>5 DEF InputRight
<1> HIDE DEF t, f
<1>7. PICK n \in 0 .. Len(Body(f)) : IsCut(t, Body(f), n)
  BY <1>6 DEF FormArrived
<1>8. /\ NullParams(Parts(t)) => \E c \in Range(f) : c.header = "folded"
      /\ ReadsPastEnd(t) => t # Body(f)
      /\ ReadsPastLine(t) => \E c \in Range(f) : c.header = "odd"
  BY <1>6, <1>7, QueryOfForm
<1>9. \/ ~input.whole /\ ReadsPastEnd(input.body)
      \/ \E c \in Range(f) : c.header \in {"folded", "odd"}
  <2>1. CASE ReadsPastEnd(t)
    BY <1>5, <1>6, <1>8, <2>1
  <2>2. CASE ReadsPastLine(t)
    BY <1>8, <2>2
  <2>3. CASE NullParams(Parts(t))
    BY <1>8, <2>3
  <2> QED
    BY <1>2, <2>1, <2>2, <2>3
<1> QED
  BY <1>2, <1>5, <1>9 DEF CrashesExplained, f

(* The strengthening is an invariant: an object's text is what its place   *)
(* allows it (apache.fec:55-76), and an answer is made of it alone.        *)
THEOREM RequestInductive == RequestSpec => []RequestInv
<1>1. RequestInit => RequestInv
  BY RequestInitInv
<1>2. RequestInv /\ [RequestNext]_requestVars => RequestInv'
  BY RequestNextInv
<1> QED
  BY <1>1, <1>2, PTL DEF RequestSpec

(* For any characters, any lists of pairs and any forms, whole or cut at   *)
(* any byte: query() gives what the browser's form held, then the URL's    *)
(* arguments, and getParams() agrees (util_qparser.c, multipart.c).        *)
THEOREM QueryCorrect == RequestSpec => []QueryRight
<1>1. RequestInv => QueryRight
  BY QueryFromInv
<1> QED
  BY <1>1, RequestInductive, PTL

(* query() ends the process only without a boundary, for a body that stops *)
(* behind one or a byte later, and for a folded header line or a parameter *)
(* without "=" (util_qparser.c:59, multipart.c:59, 148, 185).              *)
THEOREM CrashesCorrect == RequestSpec => []CrashesExplained
<1>1. RequestInv => CrashesExplained
  BY CrashesFromInv
<1> QED
  BY <1>1, RequestInductive, PTL

-----------------------------------------------------------------------------
(* The handler of mod_ferite                                               *)

VariablePairs == Names \X Values

Configs == [vars : Seq(VariablePairs), debug : {0, 1}, cache : BOOLEAN,
            dir : Places \cup {Tmp}]

Points == {"arrived", "convert", "compile", "globals", "execute", "failed", "done"}

Served == [section : Sections, failed : BOOLEAN, nulls : 0..2]

RequestTyped ==
    /\ DOMAIN req = {"pc", "section", "kind", "method", "ret", "script", "nulls",
                     "failed", "globals", "page", "cached"}
    /\ req.pc \in Points /\ req.section \in Sections
    /\ req.kind \in Kinds /\ req.method \in Methods
    /\ req.script \in BOOLEAN /\ req.failed \in BOOLEAN /\ req.nulls \in 0..2

Typed ==
    /\ log \in [Sections -> Seq(Directives)]
    /\ conf \in [Sections -> Configs]
    /\ cacheOn \in BOOLEAN /\ lost \in Nat
    /\ served \in Seq(Served)
    /\ req = NoRequest \/ RequestTyped

(* A section's configuration is what its directives say.                   *)
Says(s) ==
    /\ Len(conf[s].vars) = VariablesOf(s) /\ InOrder(s, conf[s].vars, 0)
    /\ conf[s].debug = IF Given(s, "debug", 1) THEN 1 ELSE 0
    /\ conf[s].cache = Given(s, "cache", TRUE)
    /\ conf[s].dir = DirOf(s)

ConfRight == \A s \in Sections : Says(s)

(* Where a request has come to in the handler, and with what.              *)
RequestRight ==
    req # NoRequest =>
       /\ req.script <=> req.pc \in {"globals", "execute", "failed"}
       /\ req.failed => req.pc = "done"
       /\ req.pc \in {"arrived", "convert"} => req.nulls = 0
       /\ req.pc \in {"arrived", "convert", "compile"} => req.page = "none"
       /\ req.pc \notin {"arrived", "done"} =>
             req.kind # "missing" /\ req.method \notin {"HEAD", "PUT"}
       /\ req.pc = "compile" => req.nulls <= 1 /\ (req.kind = "fsp" => req.nulls = 1)
       /\ req.script =>
             /\ req.page \in {"converted", "plain"}
             /\ req.page = "converted" => req.kind = "fsp"
             /\ req.kind = "fsp" /\ req.page = "plain" => req.nulls # 0

(* What the process carries on: of the requests served, and of the one in  *)
(* the handler.                                                            *)
LostBy(all) ==
    Cardinality({i \in DOMAIN all : all[i].failed})
      + Cardinality({i \in DOMAIN all : all[i].nulls >= 1})
      + Cardinality({i \in DOMAIN all : all[i].nulls >= 2})

CachedBy(all) == \E i \in DOMAIN all : Switched(all[i].section, "cache", TRUE)

LostIn(r) == r.nulls + (IF r.failed THEN 1 ELSE 0)

Begun == req # NoRequest /\ req.pc # "arrived"

ProcessRight ==
    /\ cacheOn = (CachedBy(served) \/ (Begun /\ Switched(req.section, "cache", TRUE)))
    /\ lost = LostBy(served) + (IF Begun THEN LostIn(req) ELSE 0)

HandlerInv ==
    /\ Typed /\ ConfRight /\ RequestRight
    /\ ScriptSeesConfig /\ AnswersTell /\ ProcessRight

-----------------------------------------------------------------------------
(* Sequences and counting                                                  *)

LEMMA Appended ==
    ASSUME NEW S, NEW q \in Seq(S), NEW x
    PROVE  /\ Len(q) \in Nat /\ DOMAIN q = 1..Len(q) /\ Len(Append(q, x)) = Len(q) + 1
           /\ DOMAIN Append(q, x) = 1..Len(q) + 1
           /\ \A i \in 1..Len(q) : Append(q, x)[i] = q[i] /\ q[i] \in S
           /\ Append(q, x)[Len(q) + 1] = x
           /\ x \in S => Append(q, x) \in Seq(S)
<1>1. q \in Seq(S \cup {x}) /\ Len(q) \in Nat /\ \A i \in 1..Len(q) : q[i] \in S
  OBVIOUS
<1>2. /\ Append(q, x) \in Seq(S \cup {x}) /\ Len(Append(q, x)) = Len(q) + 1
      /\ \A i \in 1..Len(q) : Append(q, x)[i] = q[i]
      /\ Append(q, x)[Len(q) + 1] = x
  BY <1>1, AppendProperties
<1> QED
  BY <1>1, <1>2

(* A set of numbers that may have got the next one.                        *)
LEMMA OneMore ==
    ASSUME NEW n \in Nat, NEW S \in SUBSET (1..n), NEW T \in SUBSET (1..n + 1),
           \A i \in 1..n : i \in S <=> i \in T
    PROVE  /\ Cardinality(S) \in Nat
           /\ Cardinality(T) = Cardinality(S) + (IF n + 1 \in T THEN 1 ELSE 0)
<1>0. IsFiniteSet(1..n) /\ 1..n + 1 = (1..n) \cup {n + 1} /\ n + 1 \notin 1..n
  BY FS_Interval
<1>1. IsFiniteSet(S)
  BY <1>0, FS_Subset
<1>2. Cardinality(S) \in Nat
  BY <1>1, FS_CardinalityType
<1>3. CASE n + 1 \in T
  <2>1. T = S \cup {n + 1} /\ n + 1 \notin S
    BY <1>0, <1>3
  <2> QED
    BY <1>1, <1>2, <1>3, <2>1, FS_AddElement
<1>4. CASE n + 1 \notin T
  <2>1. T = S
    BY <1>0, <1>4
  <2> QED
    BY <1>2, <1>4, <2>1
<1> QED
  BY <1>3, <1>4

(* The numbers of a set that is bounded have a greatest.                   *)
LEMMA Greatest ==
    ASSUME NEW n \in Nat, NEW S \in SUBSET (1..n), S # {}
    PROVE  \E m \in S : \A j \in S : j <= m
<1> DEFINE U == {b \in Nat : \A j \in S : j <= b}
<1>1. U \in SUBSET Nat /\ n \in U
  OBVIOUS
<1>2. PICK b \in U : \A c \in U : b <= c
  BY <1>1, LeastNat
<1>3. b \in S
  <2>1. SUFFICES ASSUME b \notin S PROVE FALSE
    OBVIOUS
  <2>2. b \in Nat /\ \A j \in S : j \in Nat /\ j >= 1 /\ j < b
    BY <2>1
  <2>3. \A j \in S : j <= b - 1
    BY <2>2
  <2>4. b - 1 \in Nat
    <3>1. \E j \in S : j \in Nat /\ j >= 1 /\ j < b
      BY <2>2
    <3> QED
      BY <2>2, <3>1
  <2>5. b - 1 \in U
    BY <2>3, <2>4
  <2> QED
    BY <1>2, <2>2, <2>5
<1> QED
  BY <1>3

(* LastOf is the greatest.                                                 *)
LEMMA LastIs ==
    ASSUME NEW S \in SUBSET Nat, NEW m \in S, \A j \in S : j <= m
    PROVE  LastOf(S) = m
<1>1. LastOf(S) \in S /\ \A j \in S : j <= LastOf(S)
  BY DEF LastOf
<1>2. LastOf(S) \in Nat /\ m \in Nat /\ LastOf(S) <= m /\ m <= LastOf(S)
  BY <1>1
<1> QED
  BY <1>2

-----------------------------------------------------------------------------
(* The configuration                                                       *)

(* The variables of a section are numbered from one.                       *)
LEMMA Numbered ==
    ASSUME NEW s, NEW n \in Nat
    PROVE  /\ Variables(s, n) \in Nat
           /\ \A i \in 1..n :
                /\ Variables(s, i) \in 0..Variables(s, n)
                /\ log[s][i].what = "var" => Variables(s, i) # 0
<1> DEFINE S(i) == {j \in 1..i : log[s][j].what = "var"}
<1>1. \A i \in Nat : /\ IsFiniteSet(S(i)) /\ Cardinality(S(i)) \in Nat
                     /\ Variables(s, i) = Cardinality(S(i))
  <2> SUFFICES ASSUME NEW i \in Nat
               PROVE  /\ IsFiniteSet(S(i)) /\ Cardinality(S(i)) \in Nat
                      /\ Variables(s, i) = Cardinality(S(i))
    OBVIOUS
  <2>1. S(i) \in SUBSET (1..i) /\ IsFiniteSet(1..i)
    BY FS_Interval
  <2>2. IsFiniteSet(S(i))
    BY <2>1, FS_Subset
  <2> QED
    BY <2>2, FS_CardinalityType DEF Variables
<1>2. ASSUME NEW i \in 1..n PROVE Variables(s, i) \in 0..Variables(s, n)
  <2>1. S(i) \in SUBSET S(n)
    OBVIOUS
  <2>2. Cardinality(S(i)) <= Cardinality(S(n))
    BY <1>1, <2>1, FS_Subset
  <2>3. i \in Nat
    OBVIOUS
  <2>4. Variables(s, i) = Cardinality(S(i)) /\ Variables(s, n) = Cardinality(S(n))
    BY <1>1, <2>3
  <2>5. Cardinality(S(i)) \in Nat /\ Cardinality(S(n)) \in Nat
    BY <1>1, <2>3
  <2> HIDE DEF S
  <2> QED
    BY <2>2, <2>4, <2>5
<1>3. ASSUME NEW i \in 1..n, log[s][i].what = "var" PROVE Variables(s, i) # 0
  <2>1. i \in S(i)
    BY <1>3
  <2>2. i \in Nat /\ IsFiniteSet(S(i)) /\ Variables(s, i) = Cardinality(S(i))
    BY <1>1
  <2> HIDE DEF S
  <2> QED
    BY <2>1, <2>2, FS_EmptySet
<1> QED
  BY <1>1, <1>2, <1>3

(* The fields of the configuration that a request sees.                    *)
LEMMA Seen ==
    ASSUME Typed, ConfRight, NEW s \in Sections
    PROVE  LET c == ConfOf(s)
               inner == IF s = "inner" THEN conf["inner"].vars ELSE <<>>
           IN  /\ c.vars = inner \o conf["outer"].vars
               /\ Whose(s) \in Sections
               /\ c.debug = conf[Whose(s)].debug /\ c.cache = conf[Whose(s)].cache
               /\ c.dir = IF s = "inner" /\ conf["inner"].dir # Tmp THEN conf["inner"].dir
                          ELSE conf["outer"].dir
<1>1. /\ \A t \in Sections : conf[t] \in Configs
      /\ "outer" \in Sections /\ "inner" \in Sections
  BY DEF Typed, Sections
<1>2. conf["outer"].vars \in Seq(VariablePairs) /\ conf["inner"].vars \in Seq(VariablePairs)
  BY <1>1 DEF Configs
<1>3. /\ conf["outer"].vars \o <<>> = conf["outer"].vars
      /\ <<>> \o conf["outer"].vars = conf["outer"].vars
  BY <1>2, ConcatEmptySeq
<1>4. ASSUME log["inner"] = <<>> PROVE conf["inner"].vars = <<>> /\ conf["inner"].dir = Tmp
  <2>1. Says("inner") /\ log["inner"] = <<>> /\ Len(log["inner"]) = 0 /\ DOMAIN log["inner"] = {}
    BY <1>1, <1>4 DEF ConfRight
  <2>2. VariablesOf("inner") = 0
    <3>1. {i \in 1..0 : log["inner"][i].what = "var"} = {}
      OBVIOUS
    <3> QED
      BY <2>1, <3>1, FS_EmptySet DEF VariablesOf, Variables
  <2>3. {i \in DOMAIN log["inner"] : log["inner"][i].what = "dir"} = {}
    BY <2>1
  <2> QED
    BY <1>2, <2>1, <2>2, <2>3 DEF Says, DirOf
<1> QED
  BY <1>1, <1>3, <1>4 DEF ConfOf, Merge, Create, Sections, Whose
(* A directive of a section.                                               *)
Adds(s, d) == log' = [log EXCEPT ![s] = Append(@, d)]

(* What it adds to the section, and that it leaves the other alone. *)
LEMMA LogMore ==
    ASSUME Typed, NEW s \in Sections, NEW d \in Directives, NEW n, n = Len(log[s]),
           Adds(s, d)
    PROVE  /\ n \in Nat /\ DOMAIN log[s] = 1..n /\ DOMAIN log'[s] = 1..n + 1
           /\ Len(log'[s]) = n + 1 /\ log'[s][n + 1] = d
           /\ \A i \in 1..n : log'[s][i] = log[s][i] /\ log[s][i] \in Directives
           /\ log' \in [Sections -> Seq(Directives)]
           /\ \A t \in Sections : t # s => log'[t] = log[t]
<1>1. log[s] \in Seq(Directives) /\ log'[s] = Append(log[s], d)
  BY DEF Typed, Adds
<1>2. Append(log[s], d) \in Seq(Directives)
  BY <1>1, Appended
<1>3. /\ log' \in [Sections -> Seq(Directives)]
      /\ \A t \in Sections : t # s => log'[t] = log[t]
  BY <1>1, <1>2 DEF Typed, Adds
<1> QED
  BY <1>1, <1>3, Appended

LEMMA VariablesMore ==
    ASSUME Typed, NEW s \in Sections, NEW d \in Directives, NEW n, n = Len(log[s]),
           Adds(s, d)
    PROVE  /\ \A i \in 1..n : Variables(s, i)' = Variables(s, i)
           /\ VariablesOf(s) \in Nat
           /\ VariablesOf(s)' = Variables(s, n + 1)'
           /\ VariablesOf(s)' = VariablesOf(s) + (IF d.what = "var" THEN 1 ELSE 0)
<1>1. /\ n \in Nat /\ Len(log'[s]) = n + 1 /\ log'[s][n + 1] = d
      /\ \A i \in 1..n : log'[s][i] = log[s][i]
  BY LogMore
<1>2. ASSUME NEW i \in 1..n PROVE Variables(s, i)' = Variables(s, i)
  <2>1. {j \in 1..i : log'[s][j].what = "var"} = {j \in 1..i : log[s][j].what = "var"}
    BY <1>1
  <2> QED
    BY <2>1 DEF Variables
<1>3. /\ VariablesOf(s) = Cardinality({j \in 1..n : log[s][j].what = "var"})
      /\ VariablesOf(s)' = Cardinality({j \in 1..n + 1 : log'[s][j].what = "var"})
      /\ VariablesOf(s)' = Variables(s, n + 1)'
  BY <1>1 DEF VariablesOf, Variables
<1> DEFINE S == {j \in 1..n : log[s][j].what = "var"}
           T == {j \in 1..n + 1 : log'[s][j].what = "var"}
<1>4. /\ S \in SUBSET (1..n) /\ T \in SUBSET (1..n + 1)
      /\ \A i \in 1..n : i \in S <=> i \in T
      /\ n + 1 \in T <=> d.what = "var"
  BY <1>1
<1> HIDE DEF S, T
<1>5. /\ Cardinality(S) \in Nat
      /\ Cardinality(T) = Cardinality(S) + (IF n + 1 \in T THEN 1 ELSE 0)
  BY <1>1, <1>4, OneMore
<1>6. VariablesOf(s) = Cardinality(S) /\ VariablesOf(s)' = Cardinality(T)
  BY <1>3 DEF S, T
<1> QED
  BY <1>2, <1>3, <1>4, <1>5, <1>6

LEMMA GivenMore ==
    ASSUME Typed, NEW s \in Sections, NEW d \in Directives,
           Adds(s, d), NEW w, NEW v
    PROVE  Given(s, w, v)' <=> Given(s, w, v) \/ d = [what |-> w, value |-> v]
<1> DEFINE n == Len(log[s])
<1>1. /\ n \in Nat /\ DOMAIN log[s] = 1..n /\ DOMAIN log'[s] = 1..n + 1
      /\ log'[s][n + 1] = d
      /\ \A i \in 1..n : log'[s][i] = log[s][i]
  BY LogMore
<1> HIDE DEF n
<1> QED
  BY <1>1 DEF Given

LEMMA DirMore ==
    ASSUME Typed, NEW s \in Sections, NEW d \in Directives,
           Adds(s, d)
    PROVE  DirOf(s)' = IF d.what = "dir" THEN d.value ELSE DirOf(s)
<1>1. PICK n : n = Len(log[s])
  OBVIOUS
<1>2. /\ n \in Nat /\ DOMAIN log[s] = 1..n /\ DOMAIN log'[s] = 1..n + 1
      /\ log'[s][n + 1] = d
      /\ \A i \in 1..n : log'[s][i] = log[s][i]
  BY <1>1, LogMore
<1> DEFINE S == {i \in DOMAIN log[s] : log[s][i].what = "dir"}
           T == {i \in DOMAIN log'[s] : log'[s][i].what = "dir"}
<1>3. /\ DirOf(s) = IF S = {} THEN Tmp ELSE log[s][LastOf(S)].value
      /\ DirOf(s)' = IF T = {} THEN Tmp ELSE log'[s][LastOf(T)].value
  BY DEF DirOf, LastOf
<1>4. CASE d.what = "dir"
  <2>1. n + 1 \in T /\ T \in SUBSET Nat /\ \A j \in T : j <= n + 1
    BY <1>2, <1>4
  <2>2. LastOf(T) = n + 1
    BY <2>1, LastIs
  <2> HIDE DEF T
  <2> QED
    BY <1>2, <1>3, <1>4, <2>1, <2>2
<1>5. CASE d.what # "dir"
  <2>1. T = S
    BY <1>2, <1>5
  <2>2. ASSUME S # {} PROVE LastOf(S) \in 1..n
    <3>1. S \in SUBSET (1..n)
      BY <1>2
    <3> HIDE DEF S
    <3>2. \E m \in S : \A j \in S : j <= m
      BY <1>2, <2>2, <3>1, Greatest
    <3> QED
      BY <3>1, <3>2 DEF LastOf
  <2> HIDE DEF S, T
  <2> QED
    BY <1>2, <1>3, <1>5, <2>1, <2>2
<1> QED
  BY <1>4, <1>5
(* A directive of one section is added to its configuration.               *)
LEMMA DirectiveSays ==
    ASSUME Typed, ConfRight, NEW s \in Sections, NEW d \in Directives,
           Adds(s, d), conf' = [conf EXCEPT ![s] = Apply(@, d)]
    PROVE  conf' \in [Sections -> Configs] /\ ConfRight'
<1>1. /\ conf[s] \in Configs /\ conf'[s] = Apply(conf[s], d)
      /\ \A t \in Sections : t # s => conf'[t] = conf[t]
  BY DEF Typed
<1>2. PICK n : n = Len(log[s])
  OBVIOUS
<1>3. /\ n \in Nat /\ DOMAIN log[s] = 1..n /\ DOMAIN log'[s] = 1..n + 1
      /\ log'[s][n + 1] = d
      /\ \A i \in 1..n : log'[s][i] = log[s][i] /\ log[s][i] \in Directives
      /\ \A t \in Sections : t # s => log'[t] = log[t]
  BY <1>2, LogMore
<1>4. /\ conf[s].vars \in Seq(VariablePairs) /\ conf[s].debug \in {0, 1}
      /\ conf[s].cache \in BOOLEAN /\ conf[s].dir \in Places \cup {Tmp}
  BY <1>1 DEF Configs
<1>5. /\ d.what \in {"cache", "debug", "dir", "var"}
      /\ d.what = "cache" => d = [what |-> "cache", value |-> d.value] /\ d.value \in BOOLEAN
      /\ d.what = "debug" => d = [what |-> "debug", value |-> d.value] /\ d.value \in {0, 1}
      /\ d.what = "dir" => d.value \in Places \cup {Tmp}
      /\ d.what = "var" => d.name \in Names /\ d.value \in Values
  BY DEF Directives
<1>6. /\ conf'[s] \in Configs
      /\ conf'[s].vars = IF d.what = "var" THEN Append(conf[s].vars, <<d.name, d.value>>)
                         ELSE conf[s].vars
      /\ conf'[s].debug = IF d.what = "debug" /\ d.value # 0 THEN d.value ELSE conf[s].debug
      /\ conf'[s].cache = (conf[s].cache \/ (d.what = "cache" /\ d.value))
      /\ conf'[s].dir = IF d.what = "dir" THEN d.value ELSE conf[s].dir
  <2>1. CASE d.what = "var"
    <3>1. Append(conf[s].vars, <<d.name, d.value>>) \in Seq(VariablePairs)
      BY <1>4, <1>5, <2>1, Appended DEF VariablePairs
    <3>2. conf'[s] = [conf[s] EXCEPT !.vars = Append(@, <<d.name, d.value>>)]
      BY <1>1, <2>1 DEF Apply
    <3> DEFINE v == Append(conf[s].vars, <<d.name, d.value>>)
    <3> HIDE DEF v
    <3>3. v \in Seq(VariablePairs) /\ conf'[s] = [conf[s] EXCEPT !.vars = v]
      BY <3>1, <3>2 DEF v
    <3>4. conf'[s] \in Configs /\ conf'[s].vars = v
      BY <1>1, <3>3 DEF Configs
    <3>5. /\ conf'[s].debug = conf[s].debug /\ conf'[s].cache = conf[s].cache
          /\ conf'[s].dir = conf[s].dir
      BY <1>1, <3>3 DEF Configs
    <3> QED
      BY <1>4, <2>1, <3>4, <3>5 DEF v
  <2>2. CASE d.what = "cache"
    <3>1. conf'[s] = [conf[s] EXCEPT !.cache = @ \/ d.value]
      BY <1>1, <2>2 DEF Apply
    <3> QED
      BY <1>1, <1>4, <1>5, <2>2, <3>1 DEF Configs
  <2>3. CASE d.what = "debug"
    <3>1. conf'[s] = [conf[s] EXCEPT !.debug = IF d.value # 0 THEN d.value ELSE @]
      BY <1>1, <2>3 DEF Apply
    <3> QED
      BY <1>1, <1>4, <1>5, <2>3, <3>1 DEF Configs
  <2>4. CASE d.what = "dir"
    <3>1. conf'[s] = [conf[s] EXCEPT !.dir = d.value]
      BY <1>1, <2>4 DEF Apply
    <3> QED
      BY <1>1, <1>4, <1>5, <2>4, <3>1 DEF Configs
  <2> QED
    BY <1>5, <2>1, <2>2, <2>3, <2>4
<1>7. Len(conf[s].vars) = VariablesOf(s) /\ InOrder(s, conf[s].vars, 0)
  BY DEF ConfRight, Says
<1>8. /\ \A i \in 1..n : Variables(s, i)' = Variables(s, i)
      /\ VariablesOf(s) \in Nat /\ VariablesOf(s) = Variables(s, n)
      /\ VariablesOf(s)' = Variables(s, n + 1)'
      /\ VariablesOf(s)' = VariablesOf(s) + (IF d.what = "var" THEN 1 ELSE 0)
  BY <1>2, VariablesMore DEF VariablesOf
<1>9. Len(conf'[s].vars) = VariablesOf(s)'
  <2>1. Len(Append(conf[s].vars, <<d.name, d.value>>)) = Len(conf[s].vars) + 1
    BY <1>4, Appended
  <2>2. conf'[s].vars = IF d.what = "var" THEN Append(conf[s].vars, <<d.name, d.value>>)
                        ELSE conf[s].vars
    BY <1>6
  <2>3. CASE d.what = "var"
    <3>1. conf'[s].vars = Append(conf[s].vars, <<d.name, d.value>>)
      BY <2>2, <2>3
    <3>2. VariablesOf(s)' = Len(conf[s].vars) + 1
      BY <1>7, <1>8, <2>3
    <3> QED
      BY <2>1, <3>1, <3>2
  <2>4. CASE d.what # "var"
    <3>1. conf'[s].vars = conf[s].vars
      BY <2>2, <2>4
    <3>2. VariablesOf(s)' = VariablesOf(s)
      BY <1>8, <2>4
    <3> QED
      BY <1>7, <3>1, <3>2
  <2> QED
    BY <2>3, <2>4
<1>10. ASSUME NEW i \in 1..n + 1, log'[s][i].what = "var"
       PROVE  conf'[s].vars[Variables(s, i)'] = <<log'[s][i].name, log'[s][i].value>>
  <2>1. CASE i = n + 1
    <3>1. d.what = "var" /\ log'[s][i] = d /\ Variables(s, i)' = Len(conf[s].vars) + 1
      BY <1>3, <1>7, <1>8, <1>10, <2>1
    <3> QED
      BY <1>4, <1>6, <3>1, Appended
  <2>2. CASE i # n + 1
    <3>1. i \in 1..n /\ log'[s][i] = log[s][i] /\ Variables(s, i)' = Variables(s, i)
      BY <1>3, <1>8, <2>2
    <3>2. Variables(s, i) \in 1..Len(conf[s].vars)
      BY <1>3, <1>7, <1>8, <1>10, <3>1, Numbered
    <3>3. conf[s].vars[Variables(s, i)] = <<log[s][i].name, log[s][i].value>>
      <4>1. 0 + Variables(s, i) = Variables(s, i)
        BY <3>2
      <4> QED
        BY <1>3, <1>7, <1>10, <3>1, <4>1 DEF InOrder
    <3>4. conf'[s].vars[Variables(s, i)] = conf[s].vars[Variables(s, i)]
      <4>1. Append(conf[s].vars, <<d.name, d.value>>)[Variables(s, i)]
              = conf[s].vars[Variables(s, i)]
        BY <1>4, <3>2, Appended
      <4>2. conf'[s].vars \in {Append(conf[s].vars, <<d.name, d.value>>), conf[s].vars}
        BY <1>6
      <4> QED
        BY <4>1, <4>2
    <3> QED
      BY <3>1, <3>3, <3>4
  <2> QED
    BY <2>1, <2>2
<1>11. InOrder(s, conf[s].vars, 0)'
  <2>1. \A i \in 1..n + 1 : 0 + Variables(s, i)' = Variables(s, i)'
    <3>1. \A i \in 1..n : Variables(s, i) \in Nat
      BY <1>3, Numbered
    <3> QED
      BY <1>3, <1>8, <3>1
  <2> QED
    BY <1>3, <1>10, <2>1 DEF InOrder
<1>12. conf'[s].debug = IF Given(s, "debug", 1)' THEN 1 ELSE 0
  <2>1. Given(s, "debug", 1)' <=> Given(s, "debug", 1) \/ d = [what |-> "debug", value |-> 1]
    BY GivenMore
  <2>2. d = [what |-> "debug", value |-> 1] <=> d.what = "debug" /\ d.value # 0
    BY <1>5
  <2>3. conf[s].debug = IF Given(s, "debug", 1) THEN 1 ELSE 0
    BY DEF ConfRight, Says
  <2> QED
    BY <1>5, <1>6, <2>1, <2>2, <2>3
<1>13. conf'[s].cache = Given(s, "cache", TRUE)'
  <2>1. Given(s, "cache", TRUE)'
          <=> Given(s, "cache", TRUE) \/ d = [what |-> "cache", value |-> TRUE]
    BY GivenMore
  <2>2. d = [what |-> "cache", value |-> TRUE] <=> d.what = "cache" /\ d.value
    BY <1>5
  <2>3. conf[s].cache = Given(s, "cache", TRUE)
    BY DEF ConfRight, Says
  <2> QED
    BY <1>4, <1>6, <2>1, <2>2, <2>3 DEF Given
<1>14. conf'[s].dir = DirOf(s)'
  BY <1>6, DirMore DEF ConfRight, Says
<1>15. Says(s)'
  BY <1>9, <1>11, <1>12, <1>13, <1>14 DEF Says
<1>16. ASSUME NEW t \in Sections, t # s PROVE Says(t)'
  <2>1. log'[t] = log[t] /\ conf'[t] = conf[t] /\ Says(t)
    BY <1>1, <1>3, <1>16 DEF ConfRight
  <2>2. \A i : Variables(t, i)' = Variables(t, i)
    BY <2>1 DEF Variables
  <2>3. /\ VariablesOf(t)' = VariablesOf(t)
        /\ InOrder(t, conf[t].vars, 0)' = InOrder(t, conf[t].vars, 0)
    BY <2>1, <2>2 DEF VariablesOf, InOrder
  <2>4. \A w, v : Given(t, w, v)' = Given(t, w, v)
    BY <2>1 DEF Given
  <2>5. DirOf(t)' = DirOf(t)
    BY <2>1 DEF DirOf
  <2> QED
    BY <2>1, <2>3, <2>4, <2>5 DEF Says
<1>17. conf' \in [Sections -> Configs]
  BY <1>1, <1>6 DEF Typed
<1> QED
  BY <1>15, <1>16, <1>17 DEF ConfRight
-----------------------------------------------------------------------------
(* What the process carries on                                             *)

LEMMA LostTyped == ASSUME NEW q \in Seq(Served) PROVE LostBy(q) \in Nat
<1>1. DOMAIN q = 1..Len(q) /\ Len(q) \in Nat /\ IsFiniteSet(1..Len(q))
  BY Appended, FS_Interval
<1>2. ASSUME NEW S \in SUBSET DOMAIN q PROVE Cardinality(S) \in Nat
  BY <1>1, <1>2, FS_Subset, FS_CardinalityType
<1>3. \A S \in SUBSET DOMAIN q : Cardinality(S) \in Nat
  BY <1>2
<1> QED
  BY <1>3 DEF LostBy

(* A request more.                                                         *)
LEMMA LostMore ==
    ASSUME NEW q \in Seq(Served), NEW r, r.failed \in BOOLEAN, r.nulls \in 0..2
    PROVE  LostBy(q) \in Nat /\ LostBy(Append(q, r)) = LostBy(q) + LostIn(r)
<1> DEFINE a == Append(q, r)
           n == Len(q)
<1>1. /\ n \in Nat /\ DOMAIN q = 1..n /\ DOMAIN a = 1..n + 1
      /\ a[n + 1] = r
      /\ \A i \in 1..n : a[i] = q[i]
  BY Appended
<1> HIDE DEF a, n
<1>2. /\ Cardinality({i \in DOMAIN q : q[i].failed}) \in Nat
      /\ Cardinality({i \in DOMAIN a : a[i].failed})
           = Cardinality({i \in DOMAIN q : q[i].failed}) + (IF r.failed THEN 1 ELSE 0)
  <2> DEFINE S == {i \in DOMAIN q : q[i].failed}
             T == {i \in DOMAIN a : a[i].failed}
  <2>1. /\ S \in SUBSET (1..n) /\ T \in SUBSET (1..n + 1)
        /\ \A i \in 1..n : i \in S <=> i \in T
        /\ n + 1 \in T <=> r.failed
    BY <1>1
  <2> HIDE DEF S, T
  <2>2. /\ Cardinality(S) \in Nat
        /\ Cardinality(T) = Cardinality(S) + (IF n + 1 \in T THEN 1 ELSE 0)
    BY <1>1, <2>1, OneMore
  <2>3. /\ Cardinality(S) \in Nat
        /\ Cardinality(T) = Cardinality(S) + (IF r.failed THEN 1 ELSE 0)
    BY <2>1, <2>2
  <2> QED
    BY <2>3 DEF S, T
<1>3. ASSUME NEW k \in 1..2
      PROVE  /\ Cardinality({i \in DOMAIN q : q[i].nulls >= k}) \in Nat
             /\ Cardinality({i \in DOMAIN a : a[i].nulls >= k})
                  = Cardinality({i \in DOMAIN q : q[i].nulls >= k})
                    + (IF r.nulls >= k THEN 1 ELSE 0)
  <2> DEFINE S == {i \in DOMAIN q : q[i].nulls >= k}
             T == {i \in DOMAIN a : a[i].nulls >= k}
  <2>1. /\ S \in SUBSET (1..n) /\ T \in SUBSET (1..n + 1)
        /\ \A i \in 1..n : i \in S <=> i \in T
        /\ n + 1 \in T <=> r.nulls >= k
    BY <1>1
  <2> HIDE DEF S, T
  <2>2. /\ Cardinality(S) \in Nat
        /\ Cardinality(T) = Cardinality(S) + (IF n + 1 \in T THEN 1 ELSE 0)
    BY <1>1, <2>1, OneMore
  <2>3. /\ Cardinality(S) \in Nat
        /\ Cardinality(T) = Cardinality(S) + (IF r.nulls >= k THEN 1 ELSE 0)
    BY <2>1, <2>2
  <2> QED
    BY <2>3 DEF S, T
<1> DEFINE F(x) == Cardinality({i \in DOMAIN x : x[i].failed})
           N(x, k) == Cardinality({i \in DOMAIN x : x[i].nulls >= k})
<1>4. /\ LostBy(q) = F(q) + N(q, 1) + N(q, 2)
      /\ LostBy(a) = F(a) + N(a, 1) + N(a, 2)
  BY DEF LostBy
<1>5. /\ F(q) \in Nat /\ F(a) = F(q) + (IF r.failed THEN 1 ELSE 0)
      /\ N(q, 1) \in Nat /\ N(a, 1) = N(q, 1) + (IF r.nulls >= 1 THEN 1 ELSE 0)
      /\ N(q, 2) \in Nat /\ N(a, 2) = N(q, 2) + (IF r.nulls >= 2 THEN 1 ELSE 0)
  BY <1>2, <1>3
<1> HIDE DEF F, N
<1>6. /\ r.nulls >= 1 => N(a, 1) = N(q, 1) + 1
      /\ ~(r.nulls >= 1) => N(a, 1) = N(q, 1)
      /\ r.nulls >= 2 => N(a, 2) = N(q, 2) + 1
      /\ ~(r.nulls >= 2) => N(a, 2) = N(q, 2)
      /\ r.failed => F(a) = F(q) + 1
      /\ ~r.failed => F(a) = F(q)
  BY <1>5
<1>7. LostBy(q) \in Nat
  BY <1>4, <1>5
<1>8. LostBy(a) = LostBy(q) + (r.nulls + (IF r.failed THEN 1 ELSE 0))
  <2>1. CASE r.nulls = 0
    BY <1>4, <1>5, <1>6, <2>1
  <2>2. CASE r.nulls = 1
    BY <1>4, <1>5, <1>6, <2>2
  <2>3. CASE r.nulls = 2
    BY <1>4, <1>5, <1>6, <2>3
  <2> QED
    BY <2>1, <2>2, <2>3
<1> QED
  BY <1>7, <1>8 DEF LostIn, a

LEMMA CachedMore ==
    ASSUME NEW q \in Seq(Served), NEW r
    PROVE  CachedBy(Append(q, r)) <=> CachedBy(q) \/ Switched(r.section, "cache", TRUE)
<1>1. /\ Len(q) \in Nat /\ DOMAIN q = 1..Len(q) /\ DOMAIN Append(q, r) = 1..Len(q) + 1
      /\ Append(q, r)[Len(q) + 1] = r
      /\ \A i \in 1..Len(q) : Append(q, r)[i] = q[i]
  BY Appended
<1>2. ASSUME CachedBy(Append(q, r)) PROVE CachedBy(q) \/ Switched(r.section, "cache", TRUE)
  <2>1. PICK i \in 1..Len(q) + 1 : Switched(Append(q, r)[i].section, "cache", TRUE)
    BY <1>1, <1>2 DEF CachedBy
  <2>2. i = Len(q) + 1 \/ i \in 1..Len(q)
    BY <1>1
  <2> QED
    BY <1>1, <2>1, <2>2 DEF CachedBy
<1>3. ASSUME CachedBy(q) PROVE CachedBy(Append(q, r))
  <2>1. PICK i \in 1..Len(q) : Switched(q[i].section, "cache", TRUE)
    BY <1>1, <1>3 DEF CachedBy
  <2>2. i \in DOMAIN Append(q, r) /\ Append(q, r)[i] = q[i]
    BY <1>1
  <2> QED
    BY <2>1, <2>2 DEF CachedBy
<1>4. ASSUME Switched(r.section, "cache", TRUE) PROVE CachedBy(Append(q, r))
  <2>1. Len(q) + 1 \in DOMAIN Append(q, r)
    BY <1>1
  <2> QED
    BY <1>1, <1>4, <2>1 DEF CachedBy
<1> QED
  BY <1>2, <1>3, <1>4

(* A request that is there has all its fields.                             *)
LEMMA RequestThere ==
    ASSUME Typed
    PROVE  /\ req = NoRequest <=> req.pc = "none"
           /\ req # NoRequest <=> RequestTyped
  BY DEF Typed, RequestTyped, NoRequest, Points

(* The property follows from the invariant.                                *)
LEMMA Carried == Typed /\ ProcessRight => ProcessExplained
<1> SUFFICES ASSUME Typed, ProcessRight PROVE ProcessExplained
  OBVIOUS
<1>1. served \in Seq(Served)
  BY DEF Typed
<1>2. CASE ~Begun
  <2>1. LostBy(served) \in Nat
    BY <1>1, LostTyped
  <2>2. lost = LostBy(served)
    BY <1>2, <2>1 DEF ProcessRight
  <2>3. cacheOn = CachedBy(served)
    BY <1>2 DEF ProcessRight, Typed, CachedBy
  <2> QED
    BY <1>2, <2>2, <2>3 DEF Begun, ProcessExplained, LostBy, CachedBy
<1>3. CASE Begun
  <2>1. req.failed \in BOOLEAN /\ req.nulls \in 0..2
    BY <1>3, RequestThere DEF Begun, RequestTyped
  <2>2. lost = LostBy(Append(served, req))
    BY <1>1, <1>3, <2>1, LostMore DEF ProcessRight
  <2>3. CachedBy(Append(served, req)) <=> CachedBy(served) \/ Switched(req.section, "cache", TRUE)
    BY <1>1, CachedMore
  <2>4. cacheOn = CachedBy(Append(served, req))
    BY <1>3, <2>3 DEF ProcessRight, CachedBy
  <2> QED
    BY <1>3, <2>2, <2>4 DEF Begun, ProcessExplained, LostBy, CachedBy
<1> QED
  BY <1>2, <1>3
-----------------------------------------------------------------------------
(* The handler                                                             *)

(* While requests are handled the configuration stays what it is.          *)
LEMMA Same ==
    ASSUME UNCHANGED <<log, conf>>
    PROVE  /\ ConfRight => ConfRight'
           /\ \A s, w, v : Given(s, w, v)' = Given(s, w, v)
           /\ \A s, w, v : Switched(s, w, v)' = Switched(s, w, v)
           /\ \A q : CachedBy(q)' <=> CachedBy(q)
           /\ \A s, n : Variables(s, n)' = Variables(s, n)
           /\ \A s : VariablesOf(s)' = VariablesOf(s) /\ DirOf(s)' = DirOf(s)
<1>1. /\ \A s, w, v : Given(s, w, v)' = Given(s, w, v)
      /\ \A s, n : Variables(s, n)' = Variables(s, n)
      /\ \A s : VariablesOf(s)' = VariablesOf(s) /\ DirOf(s)' = DirOf(s)
  BY DEF Given, Switched, Whose, Variables, VariablesOf, DirOf
<1>2. \A s : InOrder(s, conf[s].vars, 0)' = InOrder(s, conf[s].vars, 0)
  BY <1>1 DEF InOrder
<1>3. \A s : Says(s) => Says(s)'
  BY <1>1, <1>2 DEF Says
<1>4. \A s, w, v : Switched(s, w, v)' = Switched(s, w, v)
  BY DEF Given, Switched, Whose
<1> QED
  BY <1>1, <1>3, <1>4 DEF ConfRight, CachedBy

(* What a step of the handler has to do with the process.                  *)
LEMMA HandlerStep ==
    ASSUME HandlerInv, RequestTyped, UNCHANGED <<log, conf, served>>,
           RequestTyped', RequestRight', req'.section = req.section, req'.pc # "arrived",
           cacheOn' = (cacheOn \/ Switched(req.section, "cache", TRUE)),
           lost' = lost + (LostIn(req') - LostIn(req)),
           req'.pc = "execute" => ScriptSeesConfig',
           req'.pc = "done" => AnswersTell'
    PROVE  HandlerInv'
<1>1. /\ Typed /\ ConfRight /\ RequestRight /\ ProcessRight
      /\ served \in Seq(Served) /\ cacheOn \in BOOLEAN /\ lost \in Nat
  BY DEF HandlerInv, Typed
<1>2. req # NoRequest /\ req' # NoRequest /\ req'.pc # "none"
  BY DEF RequestTyped, NoRequest, Points
<1>3. ConfRight'
  BY <1>1, Same
<1>4. LostIn(req) \in 0..3 /\ LostIn(req') \in 0..3 /\ LostBy(served) \in Nat
  BY <1>1, LostTyped DEF RequestTyped, LostIn
<1>5. ~Begun => LostIn(req) = 0
  BY <1>1, <1>2, <1>4 DEF Begun, RequestRight, LostIn, RequestTyped
<1>6. lost' = LostBy(served) + LostIn(req')
  BY <1>1, <1>4, <1>5 DEF ProcessRight
<1>7. Begun'
  BY <1>2 DEF Begun
<1>8. cacheOn' = (CachedBy(served) \/ Switched(req.section, "cache", TRUE))
  BY <1>1 DEF ProcessRight, CachedBy
<1>9. /\ Switched(req.section, "cache", TRUE) = Switched(req.section, "cache", TRUE)'
      /\ CachedBy(served)' = CachedBy(served)
  BY Same DEF Given, Switched, Whose, CachedBy
<1>10. ProcessRight'
  BY <1>4, <1>6, <1>7, <1>8, <1>9 DEF ProcessRight
<1>11. Typed'
  BY <1>1, <1>4, <1>6, <1>8 DEF Typed, CachedBy
<1>12. ScriptSeesConfig' /\ AnswersTell'
  BY DEF ScriptSeesConfig, AnswersTell
<1> QED
  BY <1>3, <1>10, <1>11, <1>12 DEF HandlerInv

(* What the process had before a step of a request that was begun.         *)
LEMMA CacheStays ==
    ASSUME HandlerInv, Begun
    PROVE  cacheOn = (cacheOn \/ Switched(req.section, "cache", TRUE))
  BY DEF HandlerInv, ProcessRight, Typed

(* The lookup of the file and the method.                                  *)
LEMMA LookHandlerInv == ASSUME HandlerInv, Look PROVE HandlerInv'
<1>1. /\ Typed /\ ConfRight /\ RequestRight /\ req.pc = "arrived"
      /\ UNCHANGED <<log, conf, lost, served>>
  BY DEF HandlerInv, Look
<1>2. RequestTyped /\ req # NoRequest
  BY <1>1, RequestThere
<1>3. ~req.script /\ ~req.failed /\ req.nulls = 0 /\ req.page = "none"
  BY <1>1, <1>2 DEF RequestRight
<1>4. cacheOn' = (cacheOn \/ Switched(req.section, "cache", TRUE))
  <2>1. ConfOf(req.section).cache = Switched(req.section, "cache", TRUE)
    <3>1. /\ ConfOf(req.section).cache = conf[Whose(req.section)].cache
          /\ Whose(req.section) \in Sections
      BY <1>1, <1>2, Seen DEF RequestTyped
    <3> QED
      BY <1>1, <3>1 DEF ConfRight, Says, Switched
  <2> QED
    BY <2>1 DEF Look
<1>5. /\ DOMAIN req' = DOMAIN req
      /\ \A f \in DOMAIN req \ {"pc", "ret"} : req'[f] = req[f]
      /\ req.kind = "missing" => req'.pc = "done" /\ req'.ret = "404"
      /\ req.kind # "missing" /\ req.method = "HEAD" => req'.pc = "done" /\ req'.ret = "OK"
      /\ req.kind # "missing" /\ req.method = "PUT" =>
           req'.pc = "done" /\ req'.ret = "DECLINED"
      /\ req.kind # "missing" /\ req.method \notin {"HEAD", "PUT"} =>
           req'.pc = IF req.kind = "fe" THEN "compile" ELSE "convert"
  <2>1. CASE req.kind = "missing"
    <3>1. req' = [req EXCEPT !.pc = "done", !.ret = "404"]
      BY <2>1 DEF Look, Answer
    <3> QED
      BY <1>2, <2>1, <3>1 DEF RequestTyped
  <2>2. CASE req.kind # "missing" /\ req.method = "HEAD"
    <3>1. req' = [req EXCEPT !.pc = "done", !.ret = "OK"]
      BY <2>2 DEF Look, Answer
    <3> QED
      BY <1>2, <2>2, <3>1 DEF RequestTyped
  <2>3. CASE req.kind # "missing" /\ req.method = "PUT"
    <3>1. req' = [req EXCEPT !.pc = "done", !.ret = "DECLINED"]
      BY <2>3 DEF Look, Answer
    <3> QED
      BY <1>2, <2>3, <3>1 DEF RequestTyped
  <2>4. CASE req.kind # "missing" /\ req.method \notin {"HEAD", "PUT"}
    <3>1. req' = [req EXCEPT !.pc = IF req.kind = "fe" THEN "compile" ELSE "convert"]
      BY <2>4 DEF Look
    <3> QED
      BY <1>2, <2>4, <3>1 DEF RequestTyped
  <2> QED
    BY <2>1, <2>2, <2>3, <2>4
<1>6. /\ req'.pc \in {"done", "compile", "convert"}
      /\ req'.section = req.section /\ req'.kind = req.kind /\ req'.method = req.method
      /\ req'.script = req.script /\ req'.failed = req.failed /\ req'.nulls = req.nulls
      /\ req'.page = req.page
  BY <1>2, <1>5 DEF RequestTyped
<1>7. RequestTyped'
  BY <1>2, <1>5, <1>6 DEF RequestTyped, Points
<1>8. RequestRight'
  BY <1>2, <1>3, <1>5, <1>6 DEF RequestRight, RequestTyped, Kinds
<1>9. req'.pc = "done" => AnswersTell'
  BY <1>2, <1>3, <1>5, <1>6 DEF AnswersTell, RequestTyped
<1>10. lost' = lost + (LostIn(req') - LostIn(req))
  BY <1>1, <1>3, <1>6 DEF LostIn, Typed
<1> QED
  BY <1>1, <1>2, <1>4, <1>6, <1>7, <1>8, <1>9, <1>10, HandlerStep
(* The compiler has made a script, with or without an error.               *)
LEMMA ScriptMade ==
    ASSUME HandlerInv, RequestTyped, req.pc \in {"convert", "compile"},
           UNCHANGED <<log, conf, cacheOn, lost, served>>,
           NEW page \in {"converted", "plain"}, NEW p \in {"globals", "failed"},
           page = "converted" => req.kind = "fsp",
           req.kind = "fsp" /\ page = "plain" => req.nulls # 0,
           req' = [req EXCEPT !.script = TRUE, !.page = page, !.cached = cacheOn, !.pc = p]
    PROVE  HandlerInv'
<1>1. Typed /\ RequestRight /\ req # NoRequest /\ Begun
  BY RequestThere DEF HandlerInv, Begun
<1>2. /\ DOMAIN req' = DOMAIN req
      /\ req'.pc = p /\ req'.script = TRUE /\ req'.page = page
      /\ req'.section = req.section /\ req'.kind = req.kind /\ req'.method = req.method
      /\ req'.failed = req.failed /\ req'.nulls = req.nulls
  BY DEF RequestTyped
<1>3. RequestTyped'
  BY <1>2 DEF RequestTyped, Points
<1>4. RequestRight'
  BY <1>1, <1>2 DEF RequestRight
<1>5. cacheOn' = (cacheOn \/ Switched(req.section, "cache", TRUE))
  BY <1>1, CacheStays
<1>6. lost' = lost + (LostIn(req') - LostIn(req))
  BY <1>1, <1>2 DEF LostIn, Typed, RequestTyped
<1> QED
  BY <1>2, <1>3, <1>4, <1>5, <1>6, HandlerStep

(* An .fsp file is converted and compiled, or not.                         *)
LEMMA ConvertHandlerInv == ASSUME HandlerInv, NEW outcome \in Outcomes, Convert(outcome) PROVE HandlerInv'
<1>1. /\ Typed /\ RequestRight /\ req.pc = "convert"
      /\ UNCHANGED <<log, conf, cacheOn, served>>
  BY DEF HandlerInv, Convert
<1>2. RequestTyped /\ req # NoRequest /\ Begun
  BY <1>1, RequestThere DEF Begun
<1>3. ASSUME NEW n \in {0, 1}, n = 0 => req.kind # "fsp", lost' = lost + n,
             DOMAIN req' = DOMAIN req,
             \A f \in DOMAIN req \ {"pc", "nulls"} : req'[f] = req[f],
             req'.pc = "compile", req'.nulls = req.nulls + n
      PROVE  HandlerInv'
  <2>1. /\ DOMAIN req' = DOMAIN req
        /\ req'.pc = "compile" /\ req'.script = req.script /\ req'.page = req.page
        /\ req'.section = req.section /\ req'.kind = req.kind /\ req'.method = req.method
        /\ req'.failed = req.failed /\ req'.nulls = req.nulls + n
    BY <1>2, <1>3 DEF RequestTyped
  <2>2. req.nulls = 0 /\ ~req.script /\ ~req.failed
    BY <1>1, <1>2 DEF RequestRight
  <2>3. RequestTyped'
    BY <1>2, <2>1, <2>2 DEF RequestTyped, Points
  <2>4. RequestRight'
    BY <1>1, <1>2, <1>3, <2>1, <2>2 DEF RequestRight
  <2>5. cacheOn' = (cacheOn \/ Switched(req.section, "cache", TRUE))
    BY <1>1, <1>2, CacheStays
  <2>6. lost' = lost + (LostIn(req') - LostIn(req))
    BY <1>1, <1>3, <2>1, <2>2 DEF LostIn, Typed
  <2> QED
    BY <1>1, <1>2, <2>1, <2>3, <2>4, <2>5, <2>6, HandlerStep
<1>4. CASE req.kind = "fsp" /\ outcome # "null"
  <2>1. /\ lost' = lost
        /\ req' = [req EXCEPT !.script = TRUE, !.page = "converted", !.cached = cacheOn,
                              !.pc = IF outcome = "ok" THEN "globals" ELSE "failed"]
    BY <1>4 DEF Convert, Compiled
  <2> QED
    BY <1>1, <1>2, <1>4, <2>1, ScriptMade
<1>5. CASE req.kind = "fsp" /\ outcome = "null"
  <2>1. lost' = lost + 1 /\ req' = [[req EXCEPT !.pc = "compile"] EXCEPT !.nulls = @ + 1]
    BY <1>5 DEF Convert, Compiled
  <2>2. /\ DOMAIN req' = DOMAIN req
        /\ \A f \in DOMAIN req \ {"pc", "nulls"} : req'[f] = req[f]
        /\ req'.pc = "compile" /\ req'.nulls = req.nulls + 1
    BY <1>2, <2>1 DEF RequestTyped
  <2> QED
    BY <1>3, <2>1, <2>2
<1>6. CASE req.kind # "fsp"
  <2>1. lost' = lost /\ req' = [req EXCEPT !.pc = "compile"]
    BY <1>6 DEF Convert
  <2>2. /\ DOMAIN req' = DOMAIN req
        /\ \A f \in DOMAIN req \ {"pc", "nulls"} : req'[f] = req[f]
        /\ req'.pc = "compile" /\ req'.nulls = req.nulls + 0 /\ lost' = lost + 0
    BY <1>1, <1>2, <2>1 DEF RequestTyped, Typed
  <2> QED
    BY <1>3, <1>6, <2>2
<1> QED
  BY <1>4, <1>5, <1>6

(* The file itself is compiled, or there is no script.                     *)
LEMMA CompileHandlerInv == ASSUME HandlerInv, NEW outcome \in Outcomes, Compile(outcome) PROVE HandlerInv'
<1>1. /\ Typed /\ RequestRight /\ req.pc = "compile"
      /\ UNCHANGED <<log, conf, cacheOn, served>>
  BY DEF HandlerInv, Compile
<1>2. RequestTyped /\ req # NoRequest /\ Begun
  BY <1>1, RequestThere DEF Begun
<1>3. /\ ~req.script /\ ~req.failed /\ req.page = "none" /\ req.nulls \in 0..1
      /\ req.kind = "fsp" => req.nulls = 1
      /\ req.kind # "missing" /\ req.method \notin {"HEAD", "PUT"}
  BY <1>1, <1>2 DEF RequestRight, RequestTyped
<1>4. CASE outcome # "null"
  <2>1. /\ lost' = lost
        /\ req' = [req EXCEPT !.script = TRUE, !.page = "plain", !.cached = cacheOn,
                              !.pc = IF outcome = "ok" THEN "globals" ELSE "failed"]
    BY <1>4 DEF Compile, Compiled
  <2>2. req.kind = "fsp" /\ "plain" = "plain" => req.nulls # 0
    BY <1>3
  <2>3. (IF outcome = "ok" THEN "globals" ELSE "failed") \in {"globals", "failed"}
    OBVIOUS
  <2> QED
    BY <1>1, <1>2, <2>1, <2>2, <2>3, ScriptMade
<1>5. CASE outcome = "null"
  <2>1. /\ lost' = lost + 1
        /\ req' = [[req EXCEPT !.pc = "done", !.ret = "404"] EXCEPT !.nulls = @ + 1]
    BY <1>5 DEF Compile, Compiled, Answer
  <2>2. /\ DOMAIN req' = DOMAIN req
        /\ req'.pc = "done" /\ req'.ret = "404"
        /\ req'.script = req.script /\ req'.page = req.page
        /\ req'.section = req.section /\ req'.kind = req.kind /\ req'.method = req.method
        /\ req'.failed = req.failed /\ req'.nulls = req.nulls + 1
    BY <1>2, <2>1 DEF RequestTyped
  <2>3. RequestTyped'
    BY <1>2, <1>3, <2>2 DEF RequestTyped, Points
  <2>4. RequestRight'
    BY <1>2, <1>3, <2>2 DEF RequestRight, RequestTyped
  <2>5. cacheOn' = (cacheOn \/ Switched(req.section, "cache", TRUE))
    BY <1>1, <1>2, CacheStays
  <2>6. lost' = lost + (LostIn(req') - LostIn(req))
    BY <1>1, <1>3, <2>1, <2>2 DEF LostIn, Typed
  <2>7. AnswersTell'
    BY <1>3, <2>2 DEF AnswersTell
  <2> QED
    BY <1>1, <1>2, <2>2, <2>3, <2>4, <2>5, <2>6, <2>7, HandlerStep
<1> QED
  BY <1>4, <1>5
(* The global variables that are created for a section's script.           *)
LEMMA GlobalsRight ==
    ASSUME Typed, ConfRight, NEW s \in Sections, NEW g, NEW inner, NEW all,
           g = Append(ConfOf(s).vars, <<"FeriteWorkingDirectory", ConfOf(s).dir>>),
           inner = IF s = "inner" THEN VariablesOf("inner") ELSE 0,
           all = inner + VariablesOf("outer")
    PROVE  /\ Len(g) = all + 1
           /\ s = "inner" => InOrder("inner", g, 0)
           /\ InOrder("outer", g, inner)
           /\ g[all + 1] = <<"FeriteWorkingDirectory",
                             IF s = "inner" /\ DirOf("inner") # Tmp THEN DirOf("inner")
                             ELSE DirOf("outer")>>
<1>1. "inner" \in Sections /\ "outer" \in Sections
  BY DEF Sections
<1>2. PICK I : I = IF s = "inner" THEN conf["inner"].vars ELSE <<>>
  OBVIOUS
<1>3. PICK O : O = conf["outer"].vars
  OBVIOUS
<1>4. ConfOf(s).vars = I \o O
  BY <1>2, <1>3, Seen
<1>5. conf["inner"].vars \in Seq(VariablePairs) /\ O \in Seq(VariablePairs)
  BY <1>1, <1>3 DEF Typed, Configs
<1>6. I \in Seq(VariablePairs)
  BY <1>2, <1>5
<1>7. /\ Len(conf["inner"].vars) = VariablesOf("inner")
      /\ InOrder("inner", conf["inner"].vars, 0)
      /\ Len(O) = VariablesOf("outer") /\ InOrder("outer", O, 0)
  BY <1>1, <1>3 DEF ConfRight, Says
<1>8. Len(I) = inner /\ Len(I) \in Nat /\ Len(O) \in Nat /\ all = Len(I) + Len(O)
  BY <1>2, <1>5, <1>6, <1>7
<1>9. PICK d : d = <<"FeriteWorkingDirectory", ConfOf(s).dir>>
  OBVIOUS
<1>10. /\ Len(g) = all + 1 /\ g[all + 1] = d
       /\ \A i \in 1..Len(I) : g[i] = I[i]
       /\ \A i \in 1..Len(O) : g[Len(I) + i] = O[i]
  <2>1. /\ I \o O \in Seq(VariablePairs) /\ Len(I \o O) = all
        /\ \A i \in 1..all : (I \o O)[i] = IF i <= Len(I) THEN I[i] ELSE O[i - Len(I)]
    BY <1>5, <1>6, <1>8, ConcatProperties
  <2>2. PICK q : q = I \o O
    OBVIOUS
  <2>3. Len(g) = all + 1 /\ g[all + 1] = d /\ \A i \in 1..all : g[i] = (I \o O)[i]
    <3>1. q \in Seq(VariablePairs) /\ Len(q) = all /\ g = Append(q, d)
      BY <1>4, <1>9, <2>1, <2>2
    <3>2. Len(g) = all + 1 /\ g[all + 1] = d /\ \A i \in 1..all : g[i] = q[i]
      BY <3>1, Appended
    <3> QED
      BY <2>2, <3>2
  <2>4. ASSUME NEW i \in 1..Len(I) PROVE g[i] = I[i]
    BY <1>8, <2>1, <2>3
  <2>5. ASSUME NEW i \in 1..Len(O) PROVE g[Len(I) + i] = O[i]
    <3>1. Len(I) + i \in 1..all /\ ~(Len(I) + i <= Len(I)) /\ Len(I) + i - Len(I) = i
      BY <1>8
    <3> QED
      BY <2>1, <2>3, <3>1
  <2> QED
    BY <2>3, <2>4, <2>5
<1>11. \A t \in Sections : \A i \in DOMAIN log[t] :
          log[t][i].what = "var" => Variables(t, i) \in 1..VariablesOf(t)
  <2> SUFFICES ASSUME NEW t \in Sections, NEW i \in DOMAIN log[t], log[t][i].what = "var"
               PROVE  Variables(t, i) \in 1..VariablesOf(t)
    OBVIOUS
  <2>1. i \in 1..Len(log[t]) /\ Len(log[t]) \in Nat
    BY DEF Typed
  <2>2. Variables(t, i) \in 0..VariablesOf(t) /\ Variables(t, i) # 0 /\ VariablesOf(t) \in Nat
    BY <2>1, Numbered DEF VariablesOf
  <2> QED
    BY <2>2
<1>12. ASSUME s = "inner" PROVE InOrder("inner", g, 0)
  <2> SUFFICES ASSUME NEW i \in DOMAIN log["inner"], log["inner"][i].what = "var"
               PROVE  g[0 + Variables("inner", i)]
                        = <<log["inner"][i].name, log["inner"][i].value>>
    BY DEF InOrder
  <2>1. Variables("inner", i) \in 1..Len(I) /\ I = conf["inner"].vars
    BY <1>1, <1>2, <1>7, <1>11, <1>12
  <2>2. 0 + Variables("inner", i) = Variables("inner", i)
    BY <1>8, <2>1
  <2>3. I[Variables("inner", i)] = <<log["inner"][i].name, log["inner"][i].value>>
    BY <1>7, <2>1, <2>2 DEF InOrder
  <2> QED
    BY <1>10, <2>1, <2>2, <2>3
<1>13. InOrder("outer", g, inner)
  <2> SUFFICES ASSUME NEW i \in DOMAIN log["outer"], log["outer"][i].what = "var"
               PROVE  g[inner + Variables("outer", i)]
                        = <<log["outer"][i].name, log["outer"][i].value>>
    BY DEF InOrder
  <2>1. Variables("outer", i) \in 1..Len(O)
    BY <1>1, <1>7, <1>11
  <2>2. 0 + Variables("outer", i) = Variables("outer", i)
    BY <1>8, <2>1
  <2>3. O[Variables("outer", i)] = <<log["outer"][i].name, log["outer"][i].value>>
    BY <1>7, <2>2 DEF InOrder
  <2> QED
    BY <1>8, <1>10, <2>1, <2>3
<1>14. ConfOf(s).dir = IF s = "inner" /\ DirOf("inner") # Tmp THEN DirOf("inner")
                       ELSE DirOf("outer")
  <2>1. /\ conf["inner"].dir = DirOf("inner") /\ conf["outer"].dir = DirOf("outer")
    BY <1>1 DEF ConfRight, Says
  <2> QED
    BY <2>1, Seen
<1> QED
  BY <1>9, <1>10, <1>12, <1>13, <1>14

(* The variables are created before the script runs.                       *)
LEMMA CreateGlobalsHandlerInv == ASSUME HandlerInv, CreateGlobals PROVE HandlerInv'
<1>1. /\ Typed /\ ConfRight /\ RequestRight /\ req.pc = "globals"
      /\ UNCHANGED <<log, conf, cacheOn, lost, served>>
  BY DEF HandlerInv, CreateGlobals
<1>2. RequestTyped /\ req # NoRequest /\ Begun
  BY <1>1, RequestThere DEF Begun
<1>3. PICK g : g = Append(ConfOf(req.section).vars,
                          <<"FeriteWorkingDirectory", ConfOf(req.section).dir>>)
  OBVIOUS
<1>4. req' = [req EXCEPT !.globals = g, !.pc = "execute"]
  BY <1>3 DEF CreateGlobals
<1>5. /\ DOMAIN req' = DOMAIN req
      /\ req'.pc = "execute" /\ req'.globals = g
      /\ req'.script = req.script /\ req'.page = req.page
      /\ req'.section = req.section /\ req'.kind = req.kind /\ req'.method = req.method
      /\ req'.failed = req.failed /\ req'.nulls = req.nulls
  BY <1>2, <1>4 DEF RequestTyped
<1>6. RequestTyped'
  BY <1>2, <1>5 DEF RequestTyped, Points
<1>7. RequestRight'
  BY <1>1, <1>2, <1>5 DEF RequestRight, RequestTyped
<1>8. cacheOn' = (cacheOn \/ Switched(req.section, "cache", TRUE))
  BY <1>1, <1>2, CacheStays
<1>9. lost' = lost + (LostIn(req') - LostIn(req))
  BY <1>1, <1>2, <1>5 DEF LostIn, Typed, RequestTyped
<1>10. ScriptSeesConfig'
  <2>1. PICK n : n = IF req.section = "inner" THEN VariablesOf("inner") ELSE 0
    OBVIOUS
  <2>2. PICK m : m = n + VariablesOf("outer")
    OBVIOUS
  <2>3. req.section \in Sections
    BY <1>2 DEF RequestTyped
  <2>4. /\ Len(g) = m + 1
        /\ req.section = "inner" => InOrder("inner", g, 0)
        /\ InOrder("outer", g, n)
        /\ g[m + 1] = <<"FeriteWorkingDirectory",
                        IF req.section = "inner" /\ DirOf("inner") # Tmp THEN DirOf("inner")
                        ELSE DirOf("outer")>>
    <3>1. PICK s \in Sections : s = req.section
      BY <2>3
    <3>2. /\ g = Append(ConfOf(s).vars, <<"FeriteWorkingDirectory", ConfOf(s).dir>>)
          /\ n = IF s = "inner" THEN VariablesOf("inner") ELSE 0
      BY <1>3, <2>1, <3>1
    <3>3. /\ Len(g) = m + 1
          /\ s = "inner" => InOrder("inner", g, 0)
          /\ InOrder("outer", g, n)
          /\ g[m + 1] = <<"FeriteWorkingDirectory",
                          IF s = "inner" /\ DirOf("inner") # Tmp THEN DirOf("inner")
                          ELSE DirOf("outer")>>
      BY <1>1, <2>2, <3>2, GlobalsRight
    <3> QED
      BY <3>1, <3>3
  <2>5. /\ \A t, i : Variables(t, i)' = Variables(t, i)
        /\ \A t : VariablesOf(t)' = VariablesOf(t) /\ DirOf(t)' = DirOf(t)
    BY <1>1, Same
  <2>6. /\ req.section = "inner" => InOrder("inner", req.globals, 0)'
        /\ InOrder("outer", g, n)'
    BY <1>1, <1>5, <2>4, <2>5 DEF InOrder
  <2> QED
    BY <1>1, <1>5, <2>1, <2>2, <2>4, <2>5, <2>6 DEF ScriptSeesConfig, InOrder
<1> QED
  BY <1>1, <1>2, <1>5, <1>6, <1>7, <1>8, <1>9, <1>10, HandlerStep
(* An error is shown or hidden as the request's own section says.          *)
LEMMA HandleErrorHandlerInv == ASSUME HandlerInv, HandleError PROVE HandlerInv'
<1>1. /\ Typed /\ ConfRight /\ RequestRight /\ req.pc = "failed" /\ lost' = lost + 1
      /\ UNCHANGED <<log, conf, cacheOn, served>>
  BY DEF HandlerInv, HandleError
<1>2. RequestTyped /\ req # NoRequest /\ Begun
  BY <1>1, RequestThere DEF Begun
<1>3. /\ req.script /\ ~req.failed /\ req.kind # "missing" /\ req.method # "PUT"
      /\ req.page \in {"converted", "plain"}
  BY <1>1, <1>2 DEF RequestRight
<1>4. PICK shown \in BOOLEAN : shown = Switched(req.section, "debug", 1)
  BY DEF Given, Switched, Whose
<1>5. ConfOf(req.section).debug # 0 <=> shown
  <2>1. req.section \in Sections
    BY <1>2 DEF RequestTyped
  <2>2. /\ ConfOf(req.section).debug = conf[Whose(req.section)].debug
        /\ Whose(req.section) \in Sections
    BY <1>1, <2>1, Seen
  <2>3. conf[Whose(req.section)].debug = IF Switched(req.section, "debug", 1) THEN 1 ELSE 0
    BY <1>1, <2>2 DEF ConfRight, Says, Switched
  <2> QED
    BY <1>4, <2>2, <2>3
<1>6. /\ DOMAIN req' = DOMAIN req
      /\ req'.pc = "done" /\ req'.script = FALSE /\ req'.failed = TRUE
      /\ req'.section = req.section /\ req'.kind = req.kind /\ req'.method = req.method
      /\ req'.nulls = req.nulls
      /\ req'.page = (IF shown THEN "errors" ELSE req.page)
      /\ req'.ret = (IF shown THEN "OK" ELSE "500")
  <2>1. CASE shown
    <3>1. req' = [[req EXCEPT !.pc = "done", !.ret = "OK"]
                    EXCEPT !.script = FALSE, !.failed = TRUE, !.page = "errors"]
      BY <1>5, <2>1 DEF HandleError, Answer
    <3> QED
      BY <1>2, <2>1, <3>1 DEF RequestTyped
  <2>2. CASE ~shown
    <3>1. req' = [[req EXCEPT !.pc = "done", !.ret = "500"]
                    EXCEPT !.script = FALSE, !.failed = TRUE]
      BY <1>5, <2>2 DEF HandleError, Answer
    <3> QED
      BY <1>2, <2>2, <3>1 DEF RequestTyped
  <2> QED
    BY <2>1, <2>2
<1>7. RequestTyped'
  BY <1>2, <1>6 DEF RequestTyped, Points
<1>8. RequestRight'
  BY <1>6 DEF RequestRight
<1>9. cacheOn' = (cacheOn \/ Switched(req.section, "cache", TRUE))
  BY <1>1, <1>2, CacheStays
<1>10. lost' = lost + (LostIn(req') - LostIn(req))
  BY <1>1, <1>2, <1>3, <1>6 DEF LostIn, Typed, RequestTyped
<1>11. AnswersTell'
  <2>1. shown = Switched(req.section, "debug", 1)'
    BY <1>1, <1>4, <1>6 DEF Given, Switched, Whose
  <2>2. /\ req.page = "converted" => req.kind = "fsp"
        /\ req.kind = "fsp" /\ req.page = "plain" => req.nulls # 0
    BY <1>1, <1>2, <1>3 DEF RequestRight
  <2> QED
    BY <1>3, <1>6, <2>1, <2>2 DEF AnswersTell
<1> QED
  BY <1>1, <1>2, <1>6, <1>7, <1>8, <1>9, <1>10, <1>11, HandlerStep

(* The script returns, or fails.                                           *)
LEMMA ScriptEndsHandlerInv == ASSUME HandlerInv, NEW outcome \in Outcomes, ScriptEnds(outcome) PROVE HandlerInv'
<1>1. /\ Typed /\ ConfRight /\ RequestRight /\ req.pc = "execute"
      /\ UNCHANGED <<log, conf, cacheOn, lost, served>>
  BY DEF HandlerInv, ScriptEnds
<1>2. RequestTyped /\ req # NoRequest /\ Begun
  BY <1>1, RequestThere DEF Begun
<1>3. /\ req.script /\ ~req.failed /\ req.kind # "missing" /\ req.method # "PUT"
      /\ req.page \in {"converted", "plain"}
      /\ req.page = "converted" => req.kind = "fsp"
      /\ req.kind = "fsp" /\ req.page = "plain" => req.nulls # 0
  BY <1>1, <1>2 DEF RequestRight
<1>4. PICK ok \in BOOLEAN : ok <=> outcome = "ok"
  OBVIOUS
<1>5. /\ DOMAIN req' = DOMAIN req
      /\ req'.pc = (IF ok THEN "done" ELSE "failed")
      /\ req'.script = ~ok /\ req'.failed = req.failed /\ req'.nulls = req.nulls
      /\ req'.section = req.section /\ req'.kind = req.kind /\ req'.method = req.method
      /\ req'.page = req.page
      /\ ok => req'.ret = "OK"
  <2>1. CASE ok
    <3>1. req' = [[req EXCEPT !.pc = "done", !.ret = "OK"] EXCEPT !.script = FALSE]
      BY <1>4, <2>1 DEF ScriptEnds, Answer
    <3> QED
      BY <1>2, <2>1, <3>1 DEF RequestTyped
  <2>2. CASE ~ok
    <3>1. req' = [req EXCEPT !.pc = "failed"]
      BY <1>4, <2>2 DEF ScriptEnds
    <3> QED
      BY <1>2, <1>3, <2>2, <3>1 DEF RequestTyped
  <2> QED
    BY <2>1, <2>2
<1>6. RequestTyped'
  BY <1>2, <1>5 DEF RequestTyped, Points
<1>7. RequestRight'
  BY <1>1, <1>2, <1>3, <1>5 DEF RequestRight, RequestTyped
<1>8. cacheOn' = (cacheOn \/ Switched(req.section, "cache", TRUE))
  BY <1>1, <1>2, CacheStays
<1>9. lost' = lost + (LostIn(req') - LostIn(req))
  BY <1>1, <1>2, <1>5 DEF LostIn, Typed, RequestTyped
<1>10. req'.pc = "done" => AnswersTell'
  BY <1>3, <1>5 DEF AnswersTell
<1> QED
  BY <1>1, <1>2, <1>5, <1>6, <1>7, <1>8, <1>9, <1>10, HandlerStep

(* Between two requests.                                                   *)
LEMMA RespondHandlerInv == ASSUME HandlerInv, Respond PROVE HandlerInv'
<1>1. /\ Typed /\ ConfRight /\ RequestRight /\ ProcessRight /\ req.pc = "done"
      /\ UNCHANGED <<log, conf, cacheOn, lost>>
      /\ req' = NoRequest /\ served \in Seq(Served)
  BY DEF HandlerInv, Respond, Typed
<1>2. RequestTyped /\ req # NoRequest /\ Begun
  BY <1>1, RequestThere DEF Begun
<1>3. PICK r : r = [section |-> req.section, failed |-> req.failed, nulls |-> req.nulls]
  OBVIOUS
<1>4. /\ served' = Append(served, r) /\ r \in Served
      /\ r.section = req.section /\ LostIn(r) = LostIn(req)
      /\ r.failed \in BOOLEAN /\ r.nulls \in 0..2
  BY <1>2, <1>3 DEF Respond, Served, RequestTyped, LostIn
<1>5. served' \in Seq(Served)
  BY <1>1, <1>4, Appended
<1>6. Typed'
  BY <1>1, <1>5 DEF Typed
<1>7. ConfRight'
  BY <1>1, Same
<1>8. ~Begun' /\ RequestRight' /\ ScriptSeesConfig' /\ AnswersTell'
  BY <1>1 DEF Begun, RequestRight, ScriptSeesConfig, AnswersTell
<1>9. lost' = LostBy(served') + 0
  <2>1. LostBy(served') = LostBy(served) + LostIn(req) /\ LostBy(served) \in Nat
    BY <1>1, <1>4, LostMore
  <2>2. lost = LostBy(served) + LostIn(req)
    BY <1>1, <1>2 DEF ProcessRight
  <2>3. LostIn(req) \in Nat
    BY <1>2 DEF LostIn, RequestTyped
  <2> QED
    BY <1>1, <2>1, <2>2, <2>3
<1>10. cacheOn' = CachedBy(served)'
  <2>1. CachedBy(Append(served, r)) <=> CachedBy(served) \/ Switched(r.section, "cache", TRUE)
    BY <1>1, CachedMore
  <2>2. cacheOn = CachedBy(Append(served, r))
    BY <1>1, <1>2, <1>4, <2>1 DEF ProcessRight, CachedBy
  <2>3. CachedBy(served)' = CachedBy(Append(served, r))
    BY <1>1, <1>4 DEF CachedBy, Given, Switched, Whose
  <2> QED
    BY <1>1, <2>2, <2>3
<1>11. ProcessRight'
  BY <1>8, <1>9, <1>10 DEF ProcessRight, CachedBy
<1> QED
  BY <1>6, <1>7, <1>8, <1>11 DEF HandlerInv

LEMMA ArriveHandlerInv ==
    ASSUME HandlerInv, NEW s \in Sections, NEW k \in Kinds, NEW m \in Methods, Arrive(s, k, m)
    PROVE  HandlerInv'
<1>1. /\ Typed /\ ConfRight /\ ProcessRight /\ req = NoRequest /\ req' = NewRequest(s, k, m)
      /\ UNCHANGED <<log, conf, cacheOn, lost, served>>
  BY DEF HandlerInv, Arrive
<1>2. RequestTyped' /\ RequestRight' /\ req'.pc = "arrived"
  <2>1. /\ DOMAIN req' = {"pc", "section", "kind", "method", "ret", "script", "nulls",
                          "failed", "globals", "page", "cached"}
        /\ req'.pc = "arrived" /\ req'.section = s /\ req'.kind = k /\ req'.method = m
        /\ req'.script = FALSE /\ req'.nulls = 0 /\ req'.failed = FALSE
        /\ req'.page = "none"
    BY <1>1 DEF NewRequest
  <2>4. /\ ~req'.script /\ ~req'.failed
        /\ req'.nulls \in 0..2
    BY <2>1
  <2>5. req'.script \in BOOLEAN /\ req'.failed \in BOOLEAN
    BY <2>1, Zenon
  <2>2. RequestTyped'
    BY <2>1, <2>4, <2>5 DEF RequestTyped, Points
  <2>3. RequestRight'
    BY <2>1, <2>4 DEF RequestRight
  <2> QED
    BY <2>1, <2>2, <2>3
<1>3. Typed'
  BY <1>1, <1>2 DEF Typed
<1>4. ConfRight'
  BY <1>1, Same
<1>5. ScriptSeesConfig' /\ AnswersTell'
  BY <1>2 DEF ScriptSeesConfig, AnswersTell
<1>6. ~Begun /\ ~Begun'
  BY <1>1, <1>2 DEF Begun
<1>7. CachedBy(served)' = CachedBy(served)
  BY <1>1 DEF CachedBy, Given, Switched, Whose
<1>8. ProcessRight'
  BY <1>1, <1>6, <1>7 DEF ProcessRight
<1> QED
  BY <1>2, <1>3, <1>4, <1>5, <1>8 DEF HandlerInv

LEMMA DirectiveHandlerInv ==
    ASSUME HandlerInv, NEW s \in Sections, NEW d \in Directives, Directive(s, d)
    PROVE  HandlerInv'
<1>1. /\ Typed /\ ConfRight /\ ProcessRight /\ req = NoRequest /\ served = <<>>
      /\ UNCHANGED <<cacheOn, lost, req, served>>
      /\ Adds(s, d) /\ conf' = [conf EXCEPT ![s] = Apply(@, d)]
  BY DEF HandlerInv, Directive, Adds
<1>2. conf' \in [Sections -> Configs] /\ ConfRight'
  BY <1>1, DirectiveSays
<1>3. log' \in [Sections -> Seq(Directives)]
  BY <1>1, LogMore
<1>4. Typed'
  BY <1>1, <1>2, <1>3 DEF Typed, RequestTyped
<1>5. RequestRight' /\ ScriptSeesConfig' /\ AnswersTell' /\ ~Begun /\ ~Begun'
  BY <1>1 DEF RequestRight, ScriptSeesConfig, AnswersTell, Begun
<1>6. ~CachedBy(served) /\ ~CachedBy(served)'
  BY <1>1 DEF CachedBy
<1>7. ProcessRight'
  BY <1>1, <1>5, <1>6 DEF ProcessRight
<1> QED
  BY <1>2, <1>4, <1>5, <1>7 DEF HandlerInv

LEMMA InitHandlerInv == Init => HandlerInv
<1> SUFFICES ASSUME Init PROVE HandlerInv
  OBVIOUS
<1>1. /\ log = [s \in Sections |-> <<>>] /\ conf = [s \in Sections |-> Create]
      /\ cacheOn = FALSE /\ lost = 0 /\ req = NoRequest /\ served = <<>>
  BY DEF Init
<1>2. Create \in Configs
  BY DEF Create, Configs
<1>3. Typed
  <2>1. <<>> \in Seq(Directives) /\ <<>> \in Seq(Served)
    BY EmptySeq
  <2>2. log \in [Sections -> Seq(Directives)] /\ conf \in [Sections -> Configs]
    BY <1>1, <1>2, <2>1
  <2> QED
    BY <1>1, <2>1, <2>2 DEF Typed
<1>4. ASSUME NEW s \in Sections PROVE Says(s)
  <2>1. log[s] = <<>> /\ conf[s] = Create
    BY <1>1
  <2>2. VariablesOf(s) = 0
    <3>1. {i \in 1..Len(log[s]) : log[s][i].what = "var"} = {}
      BY <2>1
    <3> QED
      BY <3>1, FS_EmptySet DEF VariablesOf, Variables
  <2>3. DirOf(s) = Tmp
    <3>1. {i \in DOMAIN log[s] : log[s][i].what = "dir"} = {}
      BY <2>1
    <3> QED
      BY <3>1 DEF DirOf
  <2>4. \A w, v : ~Given(s, w, v)
    BY <2>1 DEF Given, Switched, Whose
  <2> QED
    <3>1. /\ conf[s].vars = <<>> /\ conf[s].debug = 0 /\ conf[s].cache = FALSE
          /\ conf[s].dir = Tmp /\ DOMAIN log[s] = {} /\ Len(conf[s].vars) = 0
      BY <2>1 DEF Create
    <3>2. InOrder(s, conf[s].vars, 0)
      BY <3>1 DEF InOrder
    <3> QED
      <4>1. Given(s, "cache", TRUE) = FALSE
        BY <2>4 DEF Given, Switched, Whose
      <4>2. conf[s].debug = IF Given(s, "debug", 1) THEN 1 ELSE 0
        BY <2>4, <3>1
      <4> QED
        BY <2>2, <2>3, <3>1, <3>2, <4>1, <4>2 DEF Says
<1>5. RequestRight /\ ScriptSeesConfig /\ AnswersTell /\ ~Begun
  BY <1>1 DEF RequestRight, ScriptSeesConfig, AnswersTell, Begun
<1>6. LostBy(served) = 0 /\ ~CachedBy(served)
  <2>1. /\ {i \in DOMAIN served : served[i].failed} = {}
        /\ {i \in DOMAIN served : served[i].nulls >= 1} = {}
        /\ {i \in DOMAIN served : served[i].nulls >= 2} = {}
    BY <1>1
  <2>2. ~CachedBy(served)
    BY <1>1 DEF CachedBy
  <2> QED
    BY <2>1, <2>2, FS_EmptySet DEF LostBy
<1>7. ProcessRight
  <2>1. cacheOn = (CachedBy(served) \/ (Begun /\ Switched(req.section, "cache", TRUE)))
    BY <1>1, <1>5, <1>6
  <2>2. lost = LostBy(served) + (IF Begun THEN LostIn(req) ELSE 0)
    BY <1>1, <1>5, <1>6
  <2> QED
    BY <2>1, <2>2 DEF ProcessRight
<1> QED
  BY <1>3, <1>4, <1>5, <1>7 DEF HandlerInv, ConfRight

(* Every step keeps the invariant.                                         *)
LEMMA NextHandlerInv == HandlerInv /\ [Next]_vars => HandlerInv'
<1> SUFFICES ASSUME HandlerInv, [Next]_vars PROVE HandlerInv'
  OBVIOUS
<1>1. ASSUME NEW s \in Sections, NEW d \in Directives, Directive(s, d) PROVE HandlerInv'
  BY <1>1, DirectiveHandlerInv
<1>2. ASSUME NEW s \in Sections, NEW k \in Kinds, NEW m \in Methods, Arrive(s, k, m)
      PROVE  HandlerInv'
  BY <1>2, ArriveHandlerInv
<1>3. CASE Look
  BY <1>3, LookHandlerInv
<1>4. CASE CreateGlobals
  BY <1>4, CreateGlobalsHandlerInv
<1>5. CASE HandleError
  BY <1>5, HandleErrorHandlerInv
<1>6. CASE Respond
  BY <1>6, RespondHandlerInv
<1>7. ASSUME NEW o \in Outcomes, Convert(o) PROVE HandlerInv'
  BY <1>7, ConvertHandlerInv
<1>8. ASSUME NEW o \in Outcomes, Compile(o) PROVE HandlerInv'
  BY <1>8, CompileHandlerInv
<1>9. ASSUME NEW o \in Outcomes, ScriptEnds(o) PROVE HandlerInv'
  BY <1>9, ScriptEndsHandlerInv
<1>10. CASE UNCHANGED vars
  <2>1. UNCHANGED <<log, conf, cacheOn, lost, req, served>>
    BY <1>10 DEF vars
  <2>2. ConfRight'
    BY <2>1, Same DEF HandlerInv
  <2>3. /\ Typed' /\ RequestRight' /\ ProcessRight'
    BY <2>1 DEF HandlerInv, Typed, RequestTyped, RequestRight, ProcessRight, Begun, CachedBy, Given, Switched, Whose
  <2>4. AnswersTell'
    BY <2>1 DEF HandlerInv, AnswersTell, Given, Switched, Whose
  <2>5. ScriptSeesConfig'
    <3>1. /\ \A t, i : Variables(t, i)' = Variables(t, i)
          /\ \A t : VariablesOf(t)' = VariablesOf(t) /\ DirOf(t)' = DirOf(t)
      BY <2>1, Same
    <3> QED
      BY <2>1, <3>1 DEF HandlerInv, ScriptSeesConfig, InOrder
  <2> QED
    BY <2>2, <2>3, <2>4, <2>5 DEF HandlerInv
<1> QED
  BY <1>1, <1>2, <1>3, <1>4, <1>5, <1>6, <1>7, <1>8, <1>9, <1>10 DEF Next

-----------------------------------------------------------------------------
(* The invariant of the child process (mod_ferite.c).                      *)
THEOREM HandlerInductive == Spec => []HandlerInv
  BY InitHandlerInv, NextHandlerInv, PTL DEF Spec

(* Directives and handler keep the variables in their types: a request is  *)
(* at a known point of the handler, and has two compilations at most.      *)
THEOREM TypeCorrect == Spec => []Typed
<1>1. HandlerInv => Typed
  BY DEF HandlerInv
<1> QED
  BY <1>1, HandlerInductive, PTL

(* Whatever directives the sections have, a script's global variables are  *)
(* those of its own section and then the outer one's, in order, and the    *)
(* nearest working directory (mod_ferite.c:302-305, 217-229).              *)
THEOREM ConfigCorrect == Spec => []ScriptSeesConfig
<1>1. HandlerInv => ScriptSeesConfig
  BY DEF HandlerInv
<1> QED
  BY <1>1, HandlerInductive, PTL

(* After any requests, a request is answered by what it asks for and the   *)
(* section it is in, by the section around that one only when nothing of   *)
(* ferite is in it, and its script is released on every path.              *)
THEOREM AnswersCorrect == Spec => []AnswersTell
<1>1. HandlerInv => AnswersTell
  BY DEF HandlerInv
<1> QED
  BY <1>1, HandlerInductive, PTL

(* After any number of requests, the cache switch and the lost pairs come  *)
(* from exactly the requests that the code says (mod_ferite.c:66, 128).    *)
THEOREM ProcessCorrect == Spec => []ProcessExplained
<1>1. HandlerInv => ProcessExplained
  BY Carried DEF HandlerInv
<1> QED
  BY <1>1, HandlerInductive, PTL

=============================================================================
