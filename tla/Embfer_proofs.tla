---------------------------- MODULE Embfer_proofs ----------------------------
(***************************************************************************)
(* Proofs about Embfer: for any objects, tags, documents and size of the   *)
(* list of closures, the scan of a document loses and repeats nothing,     *)
(* and while one object exists at a time the process's table, the list and *)
(* the output function are that object's own.                              *)
(***************************************************************************)
EXTENDS Embfer, SequenceFacts, TLAPS

Funs == Objs \cup {NoObj}

Texts ==
    [what : {"text"}, at : Nat, fn : Funs, by : {"text"},
     chars : Seq([c : Chars, esc : BOOLEAN])]

TagChunks ==
    [what : {"tag"}, at : Nat, type : Seq(Chars), blank : {<<>>, <<Blank>>},
     contents : Seq(Chars), closed : BOOLEAN, fn : Funs,
     by : {"none", "dropped", "builtin", "unknown", "closure"}]

Conversions ==
    [pc : {"text", "tag", "handler", "done"}, by : Objs, own : BOOLEAN, doc : Seq(Chars),
     loc : Nat, out : Seq(Texts \cup TagChunks), tag : TagChunks \cup {NoTag}]

Typed ==
    /\ objs \subseteq Objs /\ hasFn \subseteq objs
    /\ table = NoTable \/ table \subseteq Tags
    /\ slots \in Seq([tag : Tags, live : BOOLEAN])
    /\ outputFn \in Funs
    /\ conv \in Conversions \cup {Idle}
    /\ misuse \in BOOLEAN
    /\ fault \in {"none", "table", "freed", "twice", "script", "output"}

(* A tag starts at a place of the document.                                *)
StartsTag(d, i) == i \in 1 .. Len(d) - 1 /\ d[i] = "<" /\ d[i + 1] = "?"

(* Where the scan goes on behind a tag.                                    *)
Behind(t) ==
    t.at + 2 + Len(Inside(t)) + (IF t.closed THEN 2 ELSE 0)

(* What a tag read from the document has in common with it.                *)
TagRight(d, t) ==
    /\ t \in TagChunks
    /\ Behind(t) \in t.at + 1 .. Len(d) + 1
    /\ Source(t) = SubSeq(d, t.at, Behind(t) - 1)
    /\ ~Holds(Inside(t), "?", ">")
    /\ Blank \notin ToSet(t.type)
    /\ ~t.closed => Behind(t) = Len(d) + 1

(* Where the scan stands.                                                  *)
PlaceRight ==
    conv # Idle =>
      /\ conv.loc \in 1 .. Len(conv.doc) + 1
      /\ conv.pc = "text" => conv.loc <= Len(conv.doc)
      /\ conv.pc \in {"tag", "handler"} => StartsTag(conv.doc, conv.loc)
      /\ IF conv.pc = "handler"
         THEN conv.tag.at = conv.loc /\ TagRight(conv.doc, conv.tag)
         ELSE conv.tag = NoTag

(* The object that converts exists, and one that set its output function   *)
(* has one; while one object exists at a time it is the current one's.     *)
OwnerRight ==
    /\ hasFn # {} => outputFn # NoObj
    /\ conv # Idle => conv.by \in objs /\ (conv.own => outputFn # NoObj)
    /\ ~misuse =>
         /\ \A o, p \in objs : o = p
         /\ \A o \in hasFn : outputFn = o
         /\ conv # Idle /\ conv.own => outputFn = conv.by
         /\ conv # Idle /\ conv.own /\ conv.pc = "handler" => conv.tag.fn = conv.by

IInv ==
    Typed /\ PlaceRight /\ OwnerRight /\ LosslessScan /\ TableAgrees /\ FaultsExplained

-----------------------------------------------------------------------------
(* The first of several places                                             *)

(* Find: the first place from i on where the two characters stand.         *)
LEMMA FindRight ==
    ASSUME NEW S, NEW d \in Seq(S), NEW i \in Nat \ {0}, NEW c, NEW e
    PROVE  /\ \/ Find(d, i, c, e) = Len(d) + 1
              \/ /\ Find(d, i, c, e) \in i .. Len(d) - 1
                 /\ d[Find(d, i, c, e)] = c /\ d[Find(d, i, c, e) + 1] = e
           /\ \A k \in i .. Len(d) - 1 : d[k] = c /\ d[k + 1] = e => Find(d, i, c, e) <= k
<1> DEFINE at == { k \in i .. Len(d) - 1 : d[k] = c /\ d[k + 1] = e }
<1>1. Find(d, i, c, e) = IF at = {} THEN Len(d) + 1 ELSE Min(at)
  BY DEF Find
<1>2. at \subseteq Nat
  OBVIOUS
<1>3. at # {} => Min(at) \in at /\ \A y \in at : Min(at) <= y
  <2> HIDE DEF at
  <2> QED
    BY <1>2, MinIn
<1> QED
  BY <1>1, <1>3

(* A sequence holds the two characters only where they stand in it.        *)
LEMMA HoldsNot ==
    ASSUME NEW S, NEW d \in Seq(S), NEW c, NEW e,
           \A k \in 1 .. Len(d) - 1 : ~(d[k] = c /\ d[k + 1] = e)
    PROVE  ~Holds(d, c, e)
<1>1. Find(d, 1, c, e) = Len(d) + 1
  BY FindRight
<1> QED
  BY <1>1 DEF Holds

(* SlotOf: the first slot of a tag, or one before it that was freed.       *)
LEMMA SlotRight ==
    ASSUME Typed, NEW t
    PROVE  /\ SlotOf(t) \in 0 .. Len(slots)
           /\ SlotOf(t) # 0 => slots[SlotOf(t)].tag = t \/ ~slots[SlotOf(t)].live
           /\ SlotOf(t) = 0 => \A k \in 1 .. Len(slots) : slots[k].tag # t
<1> DEFINE I == { i \in 1 .. Len(slots) : slots[i].tag = t \/ ~slots[i].live }
<1>1. SlotOf(t) = IF I # {} THEN Min(I) ELSE 0
  BY DEF SlotOf, SelectInSeq, SelectInSubSeq
<1>2. I \subseteq Nat /\ Len(slots) \in Nat
  <2>1. slots \in Seq([tag : Tags, live : BOOLEAN])
    BY DEF Typed
  <2> QED
    BY <2>1
<1>3. I # {} => Min(I) \in I
  <2> HIDE DEF I
  <2> QED
    BY <1>2, MinIn
<1> QED
  BY <1>1, <1>2, <1>3

-----------------------------------------------------------------------------
(* Chunks                                                                  *)

(* What is escaped is still the same text.                                 *)
LEMMA EscapedRight ==
    ASSUME NEW s \in Seq(Chars)
    PROVE  /\ Escaped(s) \in Seq([c : Chars, esc : BOOLEAN])
           /\ DOMAIN Escaped(s) = DOMAIN s
           /\ [i \in DOMAIN Escaped(s) |-> Escaped(s)[i].c] = s
<1>1. DOMAIN s = 1 .. Len(s) /\ \A i \in 1 .. Len(s) : s[i] \in Chars
  OBVIOUS
<1>2. DOMAIN Escaped(s) = DOMAIN s
  BY DEF Escaped
<1>3. ASSUME NEW i \in 1 .. Len(s)
      PROVE  Escaped(s)[i] \in [c : Chars, esc : BOOLEAN] /\ Escaped(s)[i].c = s[i]
  <2> DEFINE b == s[i] \in Special
  <2>1. Escaped(s)[i] = [c |-> s[i], esc |-> b]
    BY <1>1 DEF Escaped
  <2>2. b \in BOOLEAN
    OBVIOUS
  <2> HIDE DEF b
  <2> QED
    BY <1>1, <2>1, <2>2
<1>4. Escaped(s) \in Seq([c : Chars, esc : BOOLEAN])
  <2>1. Escaped(s) = [i \in 1 .. Len(s) |-> Escaped(s)[i]]
    BY <1>1 DEF Escaped
  <2>2. Len(s) \in Nat
    OBVIOUS
  <2> QED
    BY <1>3, <2>1, <2>2
<1>5. [i \in DOMAIN Escaped(s) |-> Escaped(s)[i].c] = [i \in DOMAIN s |-> s[i]]
  BY <1>1, <1>2, <1>3
<1>6. [i \in DOMAIN s |-> s[i]] = s
  BY <1>1
<1> QED
  BY <1>2, <1>4, <1>5, <1>6

(* A text between places j and k of the document.                          *)
LEMMA TextRight ==
    ASSUME NEW d \in Seq(Chars), NEW j \in 1 .. Len(d) + 1, NEW k \in j .. Len(d) + 1,
           \A m \in j .. Len(d) - 1 : m < k => ~(d[m] = "<" /\ d[m + 1] = "?")
    PROVE  /\ SubSeq(d, j, k - 1) \in Seq(Chars)
           /\ Len(SubSeq(d, j, k - 1)) = k - j
           /\ ~Holds(SubSeq(d, j, k - 1), "<", "?")
<1> DEFINE s == SubSeq(d, j, k - 1)
<1>1. s \in Seq(Chars) /\ Len(s) = k - j /\ \A m \in 1 .. k - j : s[m] = d[j + m - 1]
  BY SubSeqProperties
<1>2. ASSUME NEW m \in 1 .. Len(s) - 1, s[m] = "<", s[m + 1] = "?" PROVE FALSE
  <2>1. s[m] = d[j + m - 1] /\ s[m + 1] = d[j + m]
    BY <1>1
  <2> QED
    BY <1>1, <1>2, <2>1
<1>3. ~Holds(s, "<", "?")
  <2> HIDE DEF s
  <2> QED
    BY <1>1, <1>2, HoldsNot
<1> QED
  BY <1>1, <1>3

(* Pieces of a sequence next to each other are one piece of it.            *)
LEMMA JoinSubSeq ==
    ASSUME NEW C, NEW s \in Seq(C), NEW i \in 1 .. Len(s) + 1, NEW j \in i - 1 .. Len(s),
           NEW k \in j .. Len(s)
    PROVE  SubSeq(s, i, j) \o SubSeq(s, j + 1, k) = SubSeq(s, i, k)
  OBVIOUS

LEMMA OneSubSeq ==
    ASSUME NEW C, NEW s \in Seq(C), NEW i \in 1 .. Len(s)
    PROVE  <<s[i]>> = SubSeq(s, i, i)
  OBVIOUS

LEMMA TwoSubSeq ==
    ASSUME NEW C, NEW s \in Seq(C), NEW i \in 1 .. Len(s) - 1
    PROVE  <<s[i], s[i + 1]>> = SubSeq(s, i, i + 1)
  OBVIOUS

LEMMA NoSubSeq ==
    ASSUME NEW C, NEW s \in Seq(C), NEW i \in 1 .. Len(s) + 1
    PROVE  <<>> = SubSeq(s, i, i - 1)
  OBVIOUS

LEMMA PieceOf ==
    ASSUME NEW C, NEW s \in Seq(C), NEW i \in 1 .. Len(s) + 1, NEW j \in i - 1 .. Len(s)
    PROVE  /\ SubSeq(s, i, j) \in Seq(C)
           /\ Len(SubSeq(s, i, j)) = j - i + 1
           /\ \A k \in 1 .. j - i + 1 : SubSeq(s, i, j)[k] = s[i + k - 1]
  OBVIOUS

(* A text split at a character, or not at all, is put together again.      *)
LEMMA SplitRight ==
    ASSUME NEW C, NEW s \in Seq(C), NEW a, NEW m,
           \/ a = Len(s) + 1 /\ m = <<>>
           \/ a \in 1 .. Len(s) /\ m = <<s[a]>>
    PROVE  /\ SubSeq(s, 1, a - 1) \in Seq(C)
           /\ SubSeq(s, a + 1, Len(s)) \in Seq(C)
           /\ SubSeq(s, 1, a - 1) \o m \o SubSeq(s, a + 1, Len(s)) = s
<1>1. Len(s) \in Nat /\ a \in 1 .. Len(s) + 1
  OBVIOUS
<1>2. SubSeq(s, 1, a - 1) \in Seq(C) /\ SubSeq(s, a + 1, Len(s)) \in Seq(C)
  BY <1>1
<1>3. CASE a = Len(s) + 1 /\ m = <<>>
  <2>1. SubSeq(s, 1, a - 1) = s /\ SubSeq(s, a + 1, Len(s)) = <<>>
    BY <1>1, <1>3
  <2>2. s \o <<>> = s
    OBVIOUS
  <2> QED
    BY <1>2, <1>3, <2>1, <2>2
<1>4. CASE a \in 1 .. Len(s) /\ m = <<s[a]>>
  <2>1. a \in 1 .. Len(s) /\ m = SubSeq(s, a, a)
    BY <1>1, <1>4, OneSubSeq
  <2>2. SubSeq(s, 1, a - 1) \o SubSeq(s, (a - 1) + 1, a) = SubSeq(s, 1, a)
    <3>1. 1 \in 1 .. Len(s) + 1 /\ a - 1 \in 1 - 1 .. Len(s) /\ a \in a - 1 .. Len(s)
      BY <1>1, <2>1
    <3> QED
      BY <3>1, JoinSubSeq
  <2>3. SubSeq(s, 1, a) \o SubSeq(s, a + 1, Len(s)) = SubSeq(s, 1, Len(s))
    <3>1. 1 \in 1 .. Len(s) + 1 /\ a \in 1 - 1 .. Len(s) /\ Len(s) \in a .. Len(s)
      BY <1>1, <2>1
    <3> QED
      BY <3>1, JoinSubSeq
  <2>4. SubSeq(s, 1, Len(s)) = s /\ (a - 1) + 1 = a
    BY <1>1
  <2> QED
    BY <1>2, <1>4, <2>1, <2>2, <2>3, <2>4
<1> QED
  BY <1>2, <1>3, <1>4

(* What WalkTag reads of a tag.                                            *)
LEMMA TagFits ==
    ASSUME Typed, conv # Idle, StartsTag(conv.doc, conv.loc)
    PROVE  /\ TagRight(conv.doc, Tag)
           /\ Tag.at = conv.loc /\ Tag.fn = outputFn /\ Tag.by = "none"
<1> DEFINE d == conv.doc
           start == conv.loc + 2
           end == Find(d, start, "?", ">")
           inside == SubSeq(d, start, end - 1)
           I == { i \in 1 .. Len(inside) : inside[i] = Blank }
           b == SelectInSeq(inside, LAMBDA c : c = Blank)
           a == IF b = 0 THEN Len(inside) + 1 ELSE b
           t == Tag
<1>1. conv \in Conversions /\ d \in Seq(Chars) /\ Len(d) \in Nat /\ outputFn \in Funs
  BY DEF Typed, Conversions
<1>2. conv.loc \in 1 .. Len(d) - 1 /\ d[conv.loc] = "<" /\ d[conv.loc + 1] = "?"
      /\ start \in Nat \ {0} /\ start <= Len(d) + 1
  BY <1>1 DEF StartsTag
<1>3. /\ \/ end = Len(d) + 1
         \/ end \in start .. Len(d) - 1 /\ d[end] = "?" /\ d[end + 1] = ">"
      /\ \A k \in start .. Len(d) - 1 : d[k] = "?" /\ d[k + 1] = ">" => end <= k
  <2>1. d \in Seq(Chars) /\ start \in Nat \ {0}
    BY <1>1, <1>2
  <2> HIDE DEF start, d
  <2>2. /\ \/ Find(d, start, "?", ">") = Len(d) + 1
           \/ /\ Find(d, start, "?", ">") \in start .. Len(d) - 1
              /\ d[Find(d, start, "?", ">")] = "?" /\ d[Find(d, start, "?", ">") + 1] = ">"
        /\ \A k \in start .. Len(d) - 1 :
              d[k] = "?" /\ d[k + 1] = ">" => Find(d, start, "?", ">") <= k
    BY <2>1, FindRight
  <2> QED
    BY <2>2
<1>4. /\ inside \in Seq(Chars) /\ Len(inside) = end - start
      /\ \A i \in 1 .. end - start : inside[i] = d[start + i - 1]
  <2>1. end \in start .. Len(d) + 1
    BY <1>1, <1>2, <1>3
  <2>3. start \in 1 .. Len(d) + 1 /\ end - 1 \in start - 1 .. Len(d) /\ end - 1 - start + 1 = end - start
    BY <1>1, <1>2, <2>1
  <2> HIDE DEF end, start, d
  <2> QED
    BY <1>1, <2>3, PieceOf
<1>5. b \in 0 .. Len(inside) /\ (b # 0 => inside[b] = Blank)
      /\ \A i \in 1 .. Len(inside) : inside[i] = Blank => b # 0 /\ b <= i
  <2>1. b = IF I # {} THEN Min(I) ELSE 0
    BY DEF SelectInSeq, SelectInSubSeq
  <2>2. I \subseteq Nat
    BY <1>4
  <2>3. I # {} => Min(I) \in I /\ \A y \in I : Min(I) <= y
    <3> HIDE DEF I
    <3> QED
      BY <2>2, MinIn
  <2>4. Len(inside) \in Nat
    BY <1>4
  <2> HIDE DEF b, inside
  <2>5. \A i \in 1 .. Len(inside) : inside[i] = Blank => i \in I
    OBVIOUS
  <2>6. I \subseteq 1 .. Len(inside) /\ \A i \in I : inside[i] = Blank /\ i # 0
    BY <2>4
  <2> HIDE DEF I
  <2>7. CASE I = {}
    BY <2>1, <2>4, <2>5, <2>7
  <2>8. CASE I # {}
    <3>1. b \in I /\ \A y \in I : b <= y
      BY <2>1, <2>3, <2>8
    <3> QED
      BY <2>4, <2>5, <2>6, <3>1
  <2> QED
    BY <2>7, <2>8
<1>6. t = [what |-> "tag", at |-> conv.loc, type |-> SubSeq(inside, 1, a - 1),
           blank |-> IF b = 0 THEN <<>> ELSE <<Blank>>,
           contents |-> SubSeq(inside, a + 1, Len(inside)), closed |-> end <= Len(d),
           fn |-> outputFn, by |-> "none"]
  BY DEF Tag, TagAt
<1> HIDE DEF t, b, inside, end, start, d
<1>7. /\ SubSeq(inside, 1, a - 1) \in Seq(Chars) /\ SubSeq(inside, a + 1, Len(inside)) \in Seq(Chars)
      /\ SubSeq(inside, 1, a - 1) \o (IF b = 0 THEN <<>> ELSE <<Blank>>)
            \o SubSeq(inside, a + 1, Len(inside)) = inside
  <2> DEFINE m == IF b = 0 THEN <<>> ELSE <<Blank>>
  <2>1. \/ a = Len(inside) + 1 /\ m = <<>>
        \/ a \in 1 .. Len(inside) /\ m = <<inside[a]>>
    BY <1>4, <1>5
  <2> HIDE DEF a, m
  <2>2. /\ SubSeq(inside, 1, a - 1) \in Seq(Chars) /\ SubSeq(inside, a + 1, Len(inside)) \in Seq(Chars)
        /\ SubSeq(inside, 1, a - 1) \o m \o SubSeq(inside, a + 1, Len(inside)) = inside
    BY <1>4, <2>1, SplitRight
  <2> QED
    BY <2>2 DEF m
<1>8. Inside(t) = inside
  BY <1>6, <1>7 DEF Inside
<1>9. t \in TagChunks
  <2>1. (end <= Len(d)) \in BOOLEAN /\ conv.loc \in Nat
    BY <1>1, <1>2
  <2>2. (IF b = 0 THEN <<>> ELSE <<Blank>>) \in {<<>>, <<Blank>>}
    OBVIOUS
  <2> QED
    BY <1>1, <1>6, <1>7, <2>1, <2>2 DEF TagChunks
<1>10. Blank \notin ToSet(t.type)
  <2>1. t.type = SubSeq(inside, 1, a - 1) /\ a \in 1 .. Len(inside) + 1
    BY <1>4, <1>5, <1>6
  <2>2. Len(t.type) = a - 1 /\ \A i \in 1 .. a - 1 : t.type[i] = inside[i]
    <3>1. 1 \in 1 .. Len(inside) + 1 /\ a - 1 \in 1 - 1 .. Len(inside)
          /\ a - 1 - 1 + 1 = a - 1 /\ \A i \in 1 .. a - 1 : 1 + i - 1 = i
      BY <1>4, <2>1
    <3> QED
      BY <1>4, <2>1, <3>1, PieceOf
  <2>3. \A i \in 1 .. a - 1 : t.type[i] # Blank
    BY <1>4, <1>5, <2>2
  <2>4. DOMAIN t.type = 1 .. a - 1
    BY <1>6, <1>7, <2>2
  <2> QED
    BY <2>3, <2>4 DEF ToSet
<1>11. ~Holds(Inside(t), "?", ">")
  <2>1. ASSUME NEW i \in 1 .. Len(inside) - 1, inside[i] = "?", inside[i + 1] = ">" PROVE FALSE
    <3>1. inside[i] = d[start + i - 1] /\ inside[i + 1] = d[start + i]
          /\ start + i - 1 \in start .. Len(d) - 1 /\ start + i - 1 < end
      BY <1>1, <1>2, <1>3, <1>4
    <3> QED
      BY <1>2, <1>3, <2>1, <3>1
  <2> QED
    BY <1>4, <1>8, <2>1, HoldsNot
<1>12. /\ (end <= Len(d) => t.closed) /\ (end > Len(d) => ~t.closed) /\ t.at = conv.loc
       /\ Behind(t) = end + (IF end <= Len(d) THEN 2 ELSE 0)
       /\ t.at \in 1 .. Len(d) - 1 /\ start = t.at + 2 /\ end \in start .. Len(d) + 1
       /\ end <= Len(d) => end + 1 <= Len(d)
  <2>1. (end <= Len(d) => t.closed) /\ (end > Len(d) => ~t.closed) /\ t.at = conv.loc
    <3>1. t.at = conv.loc
      BY <1>6
    <3>2. t.closed <=> end <= Len(d)
      <4> DEFINE c == end <= Len(d)
      <4>1. t.closed = c
        BY <1>6
      <4> HIDE DEF c
      <4>2. t.closed <=> c
        BY <4>1, Zenon
      <4> QED
        BY <4>2 DEF c
    <3>3. end \in Int /\ Len(d) \in Int
      BY <1>1, <1>2, <1>3
    <3> QED
      BY <3>1, <3>2, <3>3
  <2>2. conv.loc \in Nat /\ start = conv.loc + 2 /\ end \in Nat
    BY <1>1, <1>2, <1>3 DEF start
  <2>3. Behind(t) = conv.loc + 2 + (end - start) + (IF end <= Len(d) THEN 2 ELSE 0)
    <3>1. Len(Inside(t)) = end - start
      BY <1>4, <1>8
    <3>2. CASE end <= Len(d)
      BY <2>1, <3>1, <3>2 DEF Behind
    <3>3. CASE ~(end <= Len(d))
      <4>1. ~t.closed
        BY <1>1, <2>1, <2>2, <3>3
      <4> QED
        BY <2>1, <3>1, <3>3, <4>1 DEF Behind
    <3> QED
      BY <3>2, <3>3
  <2>4. end \in start .. Len(d) + 1 /\ (end <= Len(d) => end + 1 <= Len(d))
    BY <1>1, <1>2, <1>3
  <2> QED
    BY <1>1, <1>2, <2>1, <2>2, <2>3, <2>4
<1>13. Source(t) = SubSeq(d, t.at, Behind(t) - 1)
  <2> DEFINE x == IF t.closed THEN <<"?", ">">> ELSE <<>>
             last == Behind(t) - 1
  <2>1. Source(t) = <<"<", "?">> \o inside \o x
    BY <1>6, <1>8 DEF Source
  <2>2. /\ t.at \in 1 .. Len(d) + 1 /\ t.at + 1 \in t.at - 1 .. Len(d)
        /\ (t.at + 1) + 1 = start /\ end - 1 \in t.at + 1 .. Len(d)
        /\ t.at \in 1 .. Len(d) - 1 /\ end - 1 \in t.at - 1 .. Len(d)
        /\ last \in end - 1 .. Len(d) /\ (end - 1) + 1 = end
    BY <1>1, <1>12
  <2>3. <<"<", "?">> = SubSeq(d, t.at, t.at + 1)
    <3>1. <<d[t.at], d[t.at + 1]>> = SubSeq(d, t.at, t.at + 1)
      BY <1>1, <2>2, TwoSubSeq
    <3> QED
      BY <1>2, <1>12, <3>1 DEF d
  <2>4. x = SubSeq(d, end, last)
    <3>1. CASE end <= Len(d)
      <4>1. /\ end \in 1 .. Len(d) - 1 /\ d[end] = "?" /\ d[end + 1] = ">" /\ last = end + 1
            /\ t.closed
        BY <1>1, <1>3, <1>12, <3>1
      <4>2. <<d[end], d[end + 1]>> = SubSeq(d, end, end + 1)
        BY <1>1, <4>1, TwoSubSeq
      <4> QED
        BY <4>1, <4>2
    <3>2. CASE end = Len(d) + 1
      <4>1. end \in 1 .. Len(d) + 1 /\ last = end - 1 /\ ~t.closed
        BY <1>1, <1>12, <3>2
      <4>2. <<>> = SubSeq(d, end, end - 1)
        BY <1>1, <4>1, NoSubSeq
      <4> QED
        BY <4>1, <4>2
    <3> QED
      BY <1>1, <1>2, <1>3, <3>1, <3>2
  <2>5. SubSeq(d, t.at, t.at + 1) \o SubSeq(d, (t.at + 1) + 1, end - 1) = SubSeq(d, t.at, end - 1)
    BY <1>1, <2>2, JoinSubSeq
  <2>6. SubSeq(d, t.at, end - 1) \o SubSeq(d, (end - 1) + 1, last) = SubSeq(d, t.at, last)
    BY <1>1, <2>2, JoinSubSeq
  <2>7. inside = SubSeq(d, start, end - 1)
    BY DEF inside
  <2> HIDE DEF x, last
  <2>8. Source(t) = SubSeq(d, t.at, last)
    BY <2>1, <2>2, <2>3, <2>4, <2>5, <2>6, <2>7
  <2> QED
    BY <2>8 DEF last
<1>14. Behind(t) \in t.at + 1 .. Len(d) + 1 /\ (~t.closed => Behind(t) = Len(d) + 1)
  BY <1>1, <1>12
<1> QED
  BY <1>6, <1>9, <1>10, <1>11, <1>13, <1>14 DEF TagRight, t, d

(* A tag keeps what it shares with the document when its end is noted.     *)
LEMMA ByRight ==
    ASSUME NEW d, NEW t, TagRight(d, t),
           NEW b \in {"none", "dropped", "builtin", "unknown", "closure"},
           NEW u, u = [t EXCEPT !.by = b]
    PROVE  TagRight(d, u) /\ u.at = t.at /\ u.fn = t.fn /\ u.by = b
<1>1. t \in TagChunks
  BY DEF TagRight
<1>2. /\ u \in TagChunks /\ u.by = b /\ u.what = t.what /\ u.at = t.at /\ u.type = t.type
      /\ u.blank = t.blank /\ u.contents = t.contents /\ u.closed = t.closed /\ u.fn = t.fn
  BY <1>1 DEF TagChunks
<1>3. Inside(u) = Inside(t) /\ Source(u) = Source(t) /\ Behind(u) = Behind(t)
  <2>1. Inside(u) = Inside(t)
    BY <1>2 DEF Inside
  <2>2. t.what = "tag"
    BY <1>1 DEF TagChunks
  <2>3. Source(u) = Source(t)
    BY <1>2, <2>1, <2>2 DEF Source
  <2>4. Behind(u) = Behind(t)
    BY <1>2, <2>1 DEF Behind
  <2> QED
    BY <2>1, <2>3, <2>4
<1>4. TagRight(d, u)
  BY <1>2, <1>3 DEF TagRight
<1> QED
  BY <1>2, <1>4

(* The source of a text is the text.                                       *)
LEMMA TextSource ==
    ASSUME NEW c, NEW s \in Seq(Chars), c.what = "text", c.chars = Escaped(s)
    PROVE  Source(c) = s
  BY EscapedRight DEF Source

-----------------------------------------------------------------------------
(* What a step adds to the output                                          *)

(* The scan stays right when what follows what it emitted is appended.     *)
LEMMA AppendRight ==
    ASSUME Typed, PlaceRight, LosslessScan, conv # Idle, conv.loc <= Len(conv.doc),
           NEW c \in Texts \cup TagChunks, NEW n \in conv.loc .. Len(conv.doc) + 1,
           c.at = conv.loc, Source(c) = SubSeq(conv.doc, c.at, n - 1),
           c.what = "text" => ~Holds(Source(c), "<", "?"),
           c.what = "tag" => /\ ~Holds(Inside(c), "?", ">") /\ Blank \notin ToSet(c.type)
                             /\ ~c.closed => n = Len(conv.doc) + 1,
           conv' \in Conversions, conv'.doc = conv.doc, conv'.loc = n,
           conv'.out = Append(conv.out, c), conv'.pc = "done" => n = Len(conv.doc) + 1
    PROVE  LosslessScan'
<1> DEFINE o == conv.out
           p == conv'.out
           m == Len(conv.out)
<1>1. /\ conv \in Conversions /\ o \in Seq(Texts \cup TagChunks) /\ m \in Nat /\ conv.loc \in Nat
      /\ Len(conv.doc) \in Nat /\ n \in Nat
  BY DEF Typed, Conversions
<1>2. /\ Len(p) = m + 1 /\ DOMAIN p = 1 .. m + 1 /\ DOMAIN o = 1 .. m
      /\ p[m + 1] = c /\ \A i \in 1 .. m : p[i] = o[i]
  BY <1>1
<1>3. p # <<>> /\ (o = <<>> <=> m = 0)
  BY <1>1, <1>2
<1>4. c.what = "text" \/ c.what = "tag"
  BY DEF Texts, TagChunks
<1>5. p[1].at = 1
  <2>1. CASE m = 0
    BY <1>1, <1>2, <1>3, <2>1 DEF LosslessScan
  <2>2. CASE m # 0
    <3>1. o[1].at = 1 /\ p[1] = o[1]
      BY <1>1, <1>2, <1>3, <2>2 DEF LosslessScan
    <3> QED
      BY <3>1
  <2> QED
    BY <2>1, <2>2
<1>6. \A i \in 1 .. m : NextAt(i)' = NextAt(i)
  <2> SUFFICES ASSUME NEW i \in 1 .. m PROVE NextAt(i)' = NextAt(i)
    OBVIOUS
  <2>1. NextAt(i)' = p[i + 1].at
    BY <1>1, <1>2 DEF NextAt
  <2>2. CASE i = m
    BY <1>1, <1>2, <2>1, <2>2 DEF NextAt
  <2>3. CASE i # m
    <3>1. p[i + 1] = o[i + 1]
      BY <1>1, <1>2, <2>3
    <3> QED
      BY <1>1, <2>1, <2>3, <3>1 DEF NextAt
  <2> QED
    BY <2>2, <2>3
<1>7. \A i \in Nat : i = m + 1 => NextAt(i)' = n
  BY <1>1, <1>2 DEF NextAt
<1>8. ASSUME NEW i \in 1 .. m + 1
      PROVE  LET e == p[i]
             IN  /\ Source(e) = SubSeq(conv.doc, e.at, NextAt(i)' - 1)
                 /\ IF e.what = "text" THEN ~Holds(Source(e), "<", "?")
                    ELSE /\ ~Holds(Inside(e), "?", ">")
                         /\ Blank \notin ToSet(e.type)
                         /\ ~e.closed => i = m + 1 /\ n = Len(conv.doc) + 1
  <2>1. CASE i = m + 1
    <3>1. p[i] = c /\ NextAt(i)' = n
      BY <1>1, <1>2, <1>7, <2>1
    <3> QED
      BY <1>4, <2>1, <3>1
  <2>2. CASE i \in 1 .. m
    <3>1. p[i] = o[i] /\ NextAt(i)' = NextAt(i) /\ i \in DOMAIN o
      BY <1>2, <1>6, <2>2
    <3>2. /\ Source(o[i]) = SubSeq(conv.doc, o[i].at, NextAt(i) - 1)
          /\ IF o[i].what = "text" THEN ~Holds(Source(o[i]), "<", "?")
             ELSE /\ ~Holds(Inside(o[i]), "?", ">")
                  /\ Blank \notin ToSet(o[i].type)
                  /\ ~o[i].closed => conv.loc = Len(conv.doc) + 1
      BY <3>1 DEF LosslessScan
    <3>3. conv.loc # Len(conv.doc) + 1
      BY <1>1
    <3> QED
      BY <3>1, <3>2, <3>3
  <2> QED
    BY <1>1, <2>1, <2>2
<1> QED
  BY <1>2, <1>3, <1>5, <1>8 DEF LosslessScan

(* What follows a tag that was read right.                                 *)
LEMMA EmitRight ==
    ASSUME Typed, PlaceRight, LosslessScan, conv # Idle, conv.pc \in {"tag", "handler"},
           NEW t, TagRight(conv.doc, t), t.at = conv.loc, Emit(t)
    PROVE  /\ conv' \in Conversions /\ PlaceRight' /\ LosslessScan'
           /\ conv'.out = Append(conv.out, t) /\ conv'.by = conv.by /\ conv'.own = conv.own
           /\ conv'.pc \in {"done", "text"}
<1> DEFINE n == Behind(t)
           q == IF n > Len(conv.doc) THEN "done" ELSE "text"
<1>1. conv \in Conversions /\ t \in TagChunks /\ n \in conv.loc + 1 .. Len(conv.doc) + 1
  BY DEF Typed, TagRight
<1>2. /\ conv.loc \in 1 .. Len(conv.doc) - 1 /\ Len(conv.doc) \in Nat /\ n \in Nat
      /\ conv.doc \in Seq(Chars)
  BY <1>1 DEF PlaceRight, StartsTag, Conversions
<1>3. conv' = [conv EXCEPT !.loc = n, !.out = Append(@, t), !.tag = NoTag, !.pc = q]
  BY DEF Emit, Behind
<1> HIDE DEF n, q
<1>4. q \in {"done", "text"} /\ (q = "done" => n = Len(conv.doc) + 1) /\ (q = "text" => n <= Len(conv.doc))
  BY <1>1, <1>2 DEF q
<1>5. Append(conv.out, t) \in Seq(Texts \cup TagChunks)
  BY <1>1 DEF Conversions
<1>6. /\ conv' \in Conversions /\ conv'.doc = conv.doc /\ conv'.loc = n /\ conv'.pc = q
      /\ conv'.out = Append(conv.out, t) /\ conv'.by = conv.by /\ conv'.own = conv.own
      /\ conv'.tag = NoTag
  BY <1>1, <1>2, <1>3, <1>4, <1>5 DEF Conversions
<1>7. PlaceRight'
  BY <1>1, <1>2, <1>4, <1>6 DEF PlaceRight
<1>8. LosslessScan'
  <2>1. t \in Texts \cup TagChunks /\ n \in conv.loc .. Len(conv.doc) + 1 /\ t.what = "tag"
    BY <1>1, <1>2 DEF TagChunks
  <2>2. /\ Source(t) = SubSeq(conv.doc, t.at, n - 1) /\ ~Holds(Inside(t), "?", ">")
        /\ Blank \notin ToSet(t.type) /\ (~t.closed => n = Len(conv.doc) + 1)
    BY DEF TagRight, n
  <2>3. conv.loc <= Len(conv.doc) /\ (conv'.pc = "done" => n = Len(conv.doc) + 1)
    BY <1>2, <1>4, <1>6
  <2> QED
    BY <1>6, <2>1, <2>2, <2>3, AppendRight
<1> QED
  BY <1>4, <1>6, <1>7, <1>8

(* A step over text.                                                       *)
LEMMA TextStep ==
    ASSUME Typed, PlaceRight, LosslessScan, WalkText
    PROVE  /\ conv' \in Conversions /\ PlaceRight' /\ LosslessScan'
           /\ conv'.by = conv.by /\ conv'.own = conv.own /\ conv'.pc \in {"done", "tag"}
           /\ \/ conv'.out = conv.out
              \/ \E c : /\ conv'.out = Append(conv.out, c)
                        /\ c.by = "text" /\ c.fn = outputFn
<1> DEFINE d == conv.doc
           i == conv.loc
           j == Find(d, i, "<", "?")
           s == SubSeq(d, i, j - 1)
           q == IF j > Len(d) THEN "done" ELSE "tag"
           c == [what |-> "text", at |-> i, fn |-> outputFn, by |-> "text", chars |-> Escaped(s)]
<1>1. conv \in Conversions /\ conv # Idle /\ outputFn \in Funs
  BY DEF Typed, WalkText, Idle
<1>2. d \in Seq(Chars) /\ Len(d) \in Nat /\ i \in 1 .. Len(d) /\ conv.tag = NoTag
      /\ conv.out \in Seq(Texts \cup TagChunks)
  BY <1>1 DEF PlaceRight, WalkText, Conversions
<1>3. /\ \/ j = Len(d) + 1
         \/ j \in i .. Len(d) - 1 /\ d[j] = "<" /\ d[j + 1] = "?"
      /\ \A k \in i .. Len(d) - 1 : d[k] = "<" /\ d[k + 1] = "?" => j <= k
  <2> HIDE DEF d, i
  <2>1. i \in Nat \ {0}
    BY <1>2
  <2> QED
    BY <1>2, <2>1, FindRight
<1>4. conv' = [conv EXCEPT !.loc = j, !.pc = q, !.out = IF s = <<>> THEN @ ELSE Append(@, c)]
  BY DEF WalkText
<1> HIDE DEF j, q
<1>5. j \in i .. Len(d) + 1 /\ j \in Nat
  BY <1>2, <1>3
<1>6. s \in Seq(Chars) /\ Len(s) = j - i /\ ~Holds(s, "<", "?")
  <2>1. \A m \in i .. Len(d) - 1 : m < j => ~(d[m] = "<" /\ d[m + 1] = "?")
    BY <1>2, <1>3, <1>5
  <2>2. i \in 1 .. Len(d) + 1
    BY <1>2
  <2> HIDE DEF d, i
  <2> QED
    BY <1>2, <1>5, <2>1, <2>2, TextRight
<1> HIDE DEF s
<1>7. c \in Texts
  <2>1. Escaped(s) \in Seq([c : Chars, esc : BOOLEAN])
    BY <1>6, EscapedRight
  <2>2. i \in Nat
    BY <1>2
  <2> HIDE DEF i
  <2> QED
    BY <1>1, <2>1, <2>2 DEF Texts
<1>8. Source(c) = s
  BY <1>6, TextSource
<1>9. c.at = i /\ c.what = "text" /\ c.by = "text" /\ c.fn = outputFn
  OBVIOUS
<1> HIDE DEF c
<1>10. /\ q \in {"done", "tag"} /\ (q = "done" => j = Len(d) + 1)
       /\ q = "tag" => j \in i .. Len(d) - 1 /\ StartsTag(d, j)
  BY <1>2, <1>3, <1>5 DEF q, StartsTag
<1>11. Append(conv.out, c) \in Seq(Texts \cup TagChunks)
  BY <1>2, <1>7
<1>12. /\ conv' \in Conversions /\ conv'.loc = j /\ conv'.pc = q /\ conv'.doc = d
       /\ conv'.by = conv.by /\ conv'.own = conv.own /\ conv'.tag = NoTag
       /\ conv'.out = IF s = <<>> THEN conv.out ELSE Append(conv.out, c)
  BY <1>1, <1>2, <1>4, <1>5, <1>10, <1>11 DEF Conversions
<1>13. PlaceRight'
  BY <1>2, <1>5, <1>10, <1>12 DEF PlaceRight
<1>14. LosslessScan'
  <2>1. CASE s = <<>>
    <3>1. j = i
      BY <1>2, <1>5, <1>6, <2>1
    <3>2. q = "tag" /\ conv'.out = conv.out /\ conv'.loc = conv.loc /\ conv'.doc = conv.doc
      BY <1>2, <1>10, <1>12, <2>1, <3>1
    <3>3. \A k : NextAt(k)' = NextAt(k)
      BY <3>2 DEF NextAt
    <3> QED
      BY <1>1, <1>10, <1>12, <3>2, <3>3 DEF LosslessScan
  <2>2. CASE s # <<>>
    <3>1. /\ conv.loc <= Len(conv.doc) /\ c \in Texts \cup TagChunks /\ c.at = conv.loc
          /\ j \in conv.loc .. Len(conv.doc) + 1 /\ Source(c) = SubSeq(conv.doc, c.at, j - 1)
          /\ c.what = "text" /\ ~Holds(Source(c), "<", "?")
      BY <1>2, <1>5, <1>6, <1>7, <1>8, <1>9 DEF s
    <3>2. /\ conv'.out = Append(conv.out, c) /\ conv'.loc = j /\ conv'.doc = conv.doc
          /\ (conv'.pc = "done" => j = Len(conv.doc) + 1)
      BY <1>10, <1>12, <2>2
    <3> QED
      BY <1>1, <1>12, <3>1, <3>2, AppendRight
  <2> QED
    BY <2>1, <2>2
<1> QED
  BY <1>9, <1>10, <1>12, <1>13, <1>14

(* A step at a tag: it ends with a fault, or emits the tag, or hands it to *)
(* its closure.                                                            *)
LEMMA TagStep ==
    ASSUME Typed, PlaceRight, LosslessScan, WalkTag
    PROVE  /\ conv' \in Conversions /\ PlaceRight' /\ LosslessScan'
           /\ conv'.by = conv.by /\ conv'.own = conv.own
           /\ fault' \in {"none", "table", "freed", "script", "output"}
           /\ fault' = "table" => table = NoTable
           /\ fault' = "output" => outputFn = NoObj
           /\ fault' = "freed" => \E i \in 1 .. Len(slots) : ~slots[i].live
           /\ \/ conv'.out = conv.out /\ conv'.pc = "tag"
              \/ conv'.out = conv.out /\ conv'.pc = "handler" /\ conv'.tag.fn = outputFn
              \/ \E c : /\ conv'.out = Append(conv.out, c) /\ conv'.pc \in {"text", "done"}
                        /\ c.by \in {"dropped", "builtin", "unknown"} /\ c.fn = outputFn
                        /\ c.by = "dropped" =>
                             /\ table # NoTable
                             /\ \E t \in table : \A i \in 1 .. Len(slots) : slots[i].tag # t
<1> DEFINE d == conv.doc
<1>1. conv \in Conversions /\ conv # Idle /\ conv.pc = "tag" /\ fault = "none"
  BY DEF Typed, WalkTag, Idle
<1>2. StartsTag(d, conv.loc)
  BY <1>1 DEF PlaceRight
<1>3. TagRight(d, Tag) /\ Tag.at = conv.loc /\ Tag.fn = outputFn /\ Tag.by = "none"
  BY <1>1, <1>2, TagFits
<1>4. ASSUME NEW b \in {"dropped", "builtin", "unknown"}, Emit([Tag EXCEPT !.by = b])
      PROVE  /\ conv' \in Conversions /\ PlaceRight' /\ LosslessScan'
             /\ conv'.by = conv.by /\ conv'.own = conv.own
             /\ conv'.pc \in {"text", "done"}
             /\ \E c : conv'.out = Append(conv.out, c) /\ c.by = b /\ c.fn = outputFn
  <2> DEFINE u == [Tag EXCEPT !.by = b]
  <2>1. Emit(u) /\ u = [Tag EXCEPT !.by = b]
    BY <1>4
  <2> HIDE DEF u
  <2>2. TagRight(d, u) /\ u.at = conv.loc /\ u.fn = outputFn /\ u.by = b
    BY <1>3, <2>1, ByRight
  <2> HIDE DEF u
  <2>3. /\ conv' \in Conversions /\ PlaceRight' /\ LosslessScan'
        /\ conv'.by = conv.by /\ conv'.own = conv.own
        /\ conv'.pc \in {"text", "done"} /\ conv'.out = Append(conv.out, u)
    BY <1>1, <2>1, <2>2, EmitRight
  <2> QED
    BY <2>2, <2>3
<1>5. CASE table = NoTable /\ fault' = "table" /\ UNCHANGED conv
  <2>1. \A k : NextAt(k)' = NextAt(k)
    BY <1>5 DEF NextAt
  <2> QED
    BY <1>1, <1>5, <2>1 DEF PlaceRight, LosslessScan
<1>6. CASE /\ table # NoTable /\ Emit([Tag EXCEPT !.by = "builtin"])
           /\ fault' = IF Tag.type = <<"=">> /\ outputFn = NoObj THEN "output" ELSE fault
  BY <1>1, <1>4, <1>6
<1>7. CASE table # NoTable /\ Tag.type \in table /\ CallClosure(Tag)
  <2> DEFINE i == SlotOf(Tag.type)
  <2>1. /\ i \in 0 .. Len(slots) /\ Len(slots) \in Nat
        /\ i = 0 => \A k \in 1 .. Len(slots) : slots[k].tag # Tag.type
    BY SlotRight DEF Typed
  <2> HIDE DEF i
  <2>2. CASE i = 0 /\ Emit([Tag EXCEPT !.by = "dropped"]) /\ UNCHANGED fault
    <3>1. \E c : conv'.out = Append(conv.out, c) /\ c.by = "dropped" /\ c.fn = outputFn
      BY <1>4, <2>2
    <3>2. \E t \in table : \A k \in 1 .. Len(slots) : slots[k].tag # t
      BY <1>7, <2>1, <2>2
    <3> QED
      BY <1>1, <1>4, <1>7, <2>2, <3>1, <3>2
  <2>3. CASE conv' = [conv EXCEPT !.pc = "handler", !.tag = Tag] /\ UNCHANGED fault
    <3>1. Tag \in TagChunks
      BY <1>3 DEF TagRight
    <3>2. /\ conv' \in Conversions /\ conv'.pc = "handler" /\ conv'.tag = Tag
          /\ conv'.doc = conv.doc /\ conv'.loc = conv.loc /\ conv'.out = conv.out
          /\ conv'.by = conv.by /\ conv'.own = conv.own
      BY <1>1, <2>3, <3>1 DEF Conversions
    <3>3. \A k : NextAt(k)' = NextAt(k)
      BY <3>2 DEF NextAt
    <3>4. LosslessScan'
      BY <1>1, <3>2, <3>3 DEF LosslessScan
    <3>5. PlaceRight'
      BY <1>1, <1>2, <1>3, <3>2 DEF PlaceRight
    <3> QED
      BY <1>1, <1>3, <2>3, <3>2, <3>4, <3>5
  <2>4. CASE i # 0 /\ fault' = (IF slots[i].live THEN "script" ELSE "freed") /\ UNCHANGED conv
    <3>1. \A k : NextAt(k)' = NextAt(k)
      BY <2>4 DEF NextAt
    <3>2. PlaceRight' /\ LosslessScan'
      BY <2>4, <3>1 DEF PlaceRight, LosslessScan
    <3>3. i \in 1 .. Len(slots)
      BY <2>1, <2>4
    <3> QED
      BY <1>1, <2>4, <3>2, <3>3
  <2> QED
    BY <1>7, <2>2, <2>3, <2>4 DEF CallClosure, i
<1>8. CASE /\ table # NoTable /\ Emit([Tag EXCEPT !.by = "unknown"])
           /\ fault' = IF outputFn = NoObj THEN "output" ELSE fault
  BY <1>1, <1>4, <1>8
<1> QED
  BY <1>5, <1>6, <1>7, <1>8 DEF WalkTag

(* A closure's return.                                                     *)
LEMMA ReturnStep ==
    ASSUME Typed, PlaceRight, LosslessScan, HandlerReturns
    PROVE  /\ conv' \in Conversions /\ PlaceRight' /\ LosslessScan'
           /\ conv'.by = conv.by /\ conv'.own = conv.own /\ conv'.pc \in {"text", "done"}
           /\ \E c : /\ conv'.out = Append(conv.out, c)
                     /\ c.by = "closure" /\ c.fn = conv.tag.fn
<1> DEFINE u == [conv.tag EXCEPT !.by = "closure"]
<1>1. conv # Idle /\ conv.pc = "handler" /\ Emit(u)
  BY DEF HandlerReturns, Idle
<1>2. TagRight(conv.doc, conv.tag) /\ conv.tag.at = conv.loc
  BY <1>1 DEF PlaceRight
<1>3. u = [conv.tag EXCEPT !.by = "closure"]
  OBVIOUS
<1> HIDE DEF u
<1>4. TagRight(conv.doc, u) /\ u.at = conv.loc /\ u.fn = conv.tag.fn /\ u.by = "closure"
  BY <1>2, <1>3, ByRight
<1> QED
  BY <1>1, <1>4, EmitRight

(* A conversion starts at the first character.                             *)
LEMMA StartStep ==
    ASSUME NEW o \in Objs, NEW e \in Docs, FromString(o, e)
    PROVE  /\ conv' \in Conversions /\ PlaceRight' /\ LosslessScan'
           /\ conv'.by = o /\ conv'.own = (o \in hasFn) /\ conv'.out = <<>>
           /\ conv'.pc \in {"text", "done"} /\ conv'.own \in BOOLEAN
<1> DEFINE q == IF e = <<>> THEN "done" ELSE "text"
           w == o \in hasFn
<1>1. e \in Seq(Chars) /\ Len(e) \in Nat /\ (e = <<>> <=> Len(e) = 0)
  BY DocsAssumption
<1>2. w \in BOOLEAN
  OBVIOUS
<1>3. conv' = [pc |-> q, by |-> o, own |-> w, doc |-> e, loc |-> 1, out |-> <<>>, tag |-> NoTag]
  BY DEF FromString
<1>4. q \in {"done", "text"} /\ (q = "done" <=> Len(e) = 0)
  BY <1>1
<1> HIDE DEF q, w
<1>5. /\ conv'.pc = q /\ conv'.by = o /\ conv'.own = w /\ conv'.doc = e /\ conv'.loc = 1
      /\ conv'.out = <<>> /\ conv'.tag = NoTag
  BY <1>3
<1>6. conv' \in Conversions
  <2>1. <<>> \in Seq(Texts \cup TagChunks)
    OBVIOUS
  <2> QED
    BY <1>1, <1>2, <1>3, <1>4, <2>1 DEF Conversions
<1>7. PlaceRight'
  BY <1>1, <1>4, <1>5 DEF PlaceRight
<1>8. LosslessScan'
  BY <1>1, <1>4, <1>5 DEF LosslessScan
<1> QED
  BY <1>2, <1>4, <1>5, <1>6, <1>7, <1>8 DEF w

LEMMA SameScan ==
    ASSUME PlaceRight, LosslessScan, conv' = conv
    PROVE  PlaceRight' /\ LosslessScan'
<1>1. \A k : NextAt(k)' = NextAt(k)
  BY DEF NextAt
<1> QED
  BY <1>1 DEF PlaceRight, LosslessScan

-----------------------------------------------------------------------------
(* The steps                                                               *)

(* What the type of the state says of its parts.                           *)
LEMMA TypedParts ==
    ASSUME Typed
    PROVE  /\ objs \subseteq Objs /\ hasFn \subseteq objs /\ outputFn \in Objs \cup {NoObj}
           /\ NoObj \notin Objs
           /\ Len(slots) \in Nat /\ DOMAIN slots = 1 .. Len(slots)
           /\ \A i \in 1 .. Len(slots) : slots[i] \in [tag : Tags, live : BOOLEAN]
           /\ table # NoTable => table \subseteq Tags
           /\ \A T \in SUBSET Tags : T # NoTable
           /\ conv = Idle <=> conv.pc = "idle"
           /\ conv # Idle => conv \in Conversions
<1>1. slots \in Seq([tag : Tags, live : BOOLEAN])
  BY DEF Typed
<1>2. \A T \in SUBSET Tags : T # NoTable
  <2>1. <<"none">> \in NoTable /\ <<"none">> \notin Tags
    BY TagsAssumption DEF NoTable
  <2> QED
    BY <2>1
<1>3. (conv = Idle <=> conv.pc = "idle") /\ (conv # Idle => conv \in Conversions)
  BY DEF Typed, Conversions, Idle
<1>4. /\ Len(slots) \in Nat /\ DOMAIN slots = 1 .. Len(slots)
      /\ \A i \in 1 .. Len(slots) : slots[i] \in [tag : Tags, live : BOOLEAN]
  <2> DEFINE S == [tag : Tags, live : BOOLEAN]
  <2>1. slots \in Seq(S)
    BY <1>1
  <2> HIDE DEF S
  <2>2. /\ Len(slots) \in Nat /\ DOMAIN slots = 1 .. Len(slots)
        /\ \A i \in 1 .. Len(slots) : slots[i] \in S
    BY <2>1
  <2> QED
    BY <2>2 DEF S
<1>5. /\ objs \subseteq Objs /\ hasFn \subseteq objs /\ outputFn \in Objs \cup {NoObj}
      /\ table # NoTable => table \subseteq Tags
  BY DEF Typed, Funs
<1> QED
  BY <1>2, <1>3, <1>4, <1>5, ObjsAssumption

LEMMA NewStep ==
    ASSUME IInv, NEW o \in Objs, New(o)
    PROVE  IInv'
<1>1. Typed'
  <2>1. {} \in SUBSET Tags /\ <<>> \in Seq([tag : Tags, live : BOOLEAN])
    OBVIOUS
  <2> QED
    BY <2>1 DEF IInv, Typed, New, ScriptRuns
<1>2. PlaceRight' /\ LosslessScan'
  BY SameScan DEF IInv, New
<1>3. OwnerRight'
  <2>1. hasFn' = hasFn /\ outputFn' = outputFn /\ conv' = conv /\ objs' = objs \cup {o}
    BY DEF New
  <2>2. ASSUME ~misuse'
        PROVE  ~misuse /\ objs = {} /\ hasFn = {} /\ conv = Idle
    BY <2>2, TypedParts DEF IInv, OwnerRight, New
  <2> QED
    BY <2>1, <2>2 DEF IInv, OwnerRight
<1>4. TableAgrees'
  <2>1. table' # NoTable /\ objs' # {} /\ slots' = <<>>
    BY TypedParts DEF IInv, New
  <2>2. ASSUME ~misuse' PROVE table' = {}
    <3>1. ~misuse /\ objs = {} /\ table = NoTable
      BY <2>2 DEF IInv, TableAgrees, New
    <3> QED
      BY <3>1 DEF New
  <2>3. Len(<<>>) < MaxClosures /\ DOMAIN <<>> = {}
    BY ClosuresAssumption
  <2> QED
    BY <2>1, <2>2, <2>3 DEF TableAgrees
<1>5. FaultsExplained'
  <2>1. fault' = "none" /\ fault' = fault /\ conv' = conv /\ (misuse => misuse')
    BY DEF New, ScriptRuns
  <2> QED
    BY <2>1 DEF IInv, FaultsExplained
<1> QED
  BY <1>1, <1>2, <1>3, <1>4, <1>5 DEF IInv

LEMMA DropStep ==
    ASSUME IInv, NEW o \in Objs, Drop(o)
    PROVE  IInv'
<1>1. /\ Len(slots) \in Nat /\ Len(slots') = Len(slots) /\ DOMAIN slots = 1 .. Len(slots)
      /\ DOMAIN slots' = 1 .. Len(slots)
      /\ slots' \in Seq([tag : Tags, live : BOOLEAN])
  <2>1. \A i \in 1 .. Len(slots) : [slots[i] EXCEPT !.live = FALSE] \in [tag : Tags, live : BOOLEAN]
    BY TypedParts DEF IInv
  <2>2. slots' = [i \in 1 .. Len(slots) |-> [slots[i] EXCEPT !.live = FALSE]]
    BY TypedParts DEF IInv, Drop
  <2>3. Len(slots) \in Nat /\ DOMAIN slots = 1 .. Len(slots)
    BY TypedParts DEF IInv
  <2> QED
    BY <2>1, <2>2, <2>3
<1>2. Typed'
  BY <1>1 DEF IInv, Typed, Drop
<1>3. PlaceRight' /\ LosslessScan'
  BY SameScan DEF IInv, Drop
<1>4. OwnerRight'
  <2>1. /\ hasFn' \subseteq hasFn /\ outputFn' = outputFn /\ conv' = conv /\ objs' = objs \ {o}
        /\ misuse' = misuse
    BY DEF Drop
  <2>2. conv # Idle => conv.by # o
    BY TypedParts DEF IInv, Drop, ScriptRuns
  <2> QED
    BY <2>1, <2>2 DEF IInv, OwnerRight
<1>5. ASSUME ~misuse PROVE objs = {o} /\ \A i \in DOMAIN slots : slots[i].live
  <2>1. o \in objs
    BY DEF Drop
  <2> QED
    BY <1>5, <2>1 DEF IInv, OwnerRight, TableAgrees
<1>6. TableAgrees'
  <2>1. misuse' = misuse /\ table' = NoTable /\ objs' = objs \ {o}
    BY DEF Drop
  <2> QED
    BY <1>1, <1>5, <2>1 DEF IInv, TableAgrees
<1>7. FaultsExplained'
  <2>1. /\ conv' = conv /\ misuse' = misuse /\ fault = "none"
        /\ fault' = IF \E i \in DOMAIN slots : ~slots[i].live THEN "twice" ELSE fault
    BY DEF Drop, ScriptRuns
  <2> QED
    BY <1>5, <2>1 DEF IInv, FaultsExplained
<1> QED
  BY <1>2, <1>3, <1>4, <1>6, <1>7 DEF IInv

LEMMA SetStep ==
    ASSUME IInv, NEW o \in Objs, SetOutputFunction(o)
    PROVE  IInv'
<1>1. /\ o \in objs /\ outputFn' = o /\ hasFn' = hasFn \cup {o} /\ conv' = conv /\ misuse' = misuse
      /\ objs' = objs /\ table' = table /\ slots' = slots /\ fault' = fault
  BY DEF SetOutputFunction
<1>2. Typed'
  BY <1>1 DEF IInv, Typed, Funs
<1>3. PlaceRight' /\ LosslessScan'
  BY <1>1, SameScan DEF IInv
<1>4. OwnerRight'
  <2>1. o # NoObj
    BY ObjsAssumption
  <2>2. ASSUME ~misuse PROVE \A p \in objs : p = o
    BY <1>1, <2>2 DEF IInv, OwnerRight
  <2>3. hasFn \subseteq objs
    BY TypedParts DEF IInv
  <2> QED
    BY <1>1, <2>1, <2>2, <2>3 DEF IInv, OwnerRight
<1>5. TableAgrees' /\ FaultsExplained'
  <2>1. fault' # "script"
    BY DEF SetOutputFunction, ScriptRuns
  <2> QED
    BY <1>1, <2>1 DEF IInv, TableAgrees, FaultsExplained
<1> QED
  BY <1>2, <1>3, <1>4, <1>5 DEF IInv

LEMMA RegisterStep ==
    ASSUME IInv, NEW t \in Tags, RegisterTagHandler(t)
    PROVE  IInv'
<1> DEFINE s == [tag |-> t, live |-> TRUE]
           m == Len(slots)
<1>1. /\ objs' = objs /\ outputFn' = outputFn /\ hasFn' = hasFn /\ conv' = conv
      /\ fault = "none" /\ misuse' = (misuse \/ objs = {})
  BY DEF RegisterTagHandler, ScriptRuns
<1>2. /\ slots \in Seq([tag : Tags, live : BOOLEAN]) /\ m \in Nat /\ DOMAIN slots = 1 .. m
      /\ s \in [tag : Tags, live : BOOLEAN]
  BY DEF IInv, Typed
<1>3. CASE UNCHANGED <<slots, table, fault>>
  <2>1. Typed'
    BY <1>1, <1>3 DEF IInv, Typed
  <2>2. PlaceRight' /\ LosslessScan'
    BY <1>1, SameScan DEF IInv
  <2>3. OwnerRight' /\ TableAgrees' /\ FaultsExplained'
    BY <1>1, <1>3 DEF IInv, OwnerRight, TableAgrees, FaultsExplained
  <2> QED
    BY <2>1, <2>2, <2>3 DEF IInv
<1>4. CASE /\ m < MaxClosures - 1
           /\ slots' = Append(slots, s)
           /\ table' = IF table = NoTable THEN table ELSE table \cup {t}
           /\ fault' = IF table = NoTable THEN "table" ELSE fault
  <2>1. /\ slots' \in Seq([tag : Tags, live : BOOLEAN]) /\ Len(slots') = m + 1
        /\ DOMAIN slots' = 1 .. m + 1 /\ slots'[m + 1] = s /\ \A i \in 1 .. m : slots'[i] = slots[i]
    BY <1>2, <1>4
  <2>2. Typed'
    BY <1>1, <1>4, <2>1 DEF IInv, Typed
  <2>3. PlaceRight' /\ LosslessScan'
    BY <1>1, SameScan DEF IInv
  <2>4. OwnerRight'
    BY <1>1 DEF IInv, OwnerRight
  <2>5. TableAgrees'
    <3>1. ASSUME ~misuse'
          PROVE  /\ ~misuse /\ objs # {} /\ table # NoTable
                 /\ table = { slots[i].tag : i \in DOMAIN slots }
                 /\ \A i \in DOMAIN slots : slots[i].live
      BY <1>1, <3>1 DEF IInv, TableAgrees
    <3>2. table # NoTable => table' = table \cup {t} /\ table' # NoTable
      BY <1>4, TypedParts DEF IInv
    <3>3. s.tag = t /\ s.live
      OBVIOUS
    <3>4. { slots'[i].tag : i \in DOMAIN slots' } = { slots[i].tag : i \in DOMAIN slots } \cup {t}
      <4> HIDE DEF s, m
      <4>1. \A i \in 1 .. m + 1 : i \in 1 .. m \/ i = m + 1
        BY <1>2 DEF m
      <4>2. m + 1 \in 1 .. m + 1 /\ \A i \in 1 .. m : i \in 1 .. m + 1
        BY <1>2 DEF m
      <4> QED
        BY <1>2, <2>1, <3>3, <4>1, <4>2
    <3>5. \A i \in DOMAIN slots' : slots'[i] = s \/ (i \in DOMAIN slots /\ slots'[i] = slots[i])
      BY <1>2, <2>1
    <3>6. Len(slots') < MaxClosures
      BY <1>2, <1>4, <2>1, ClosuresAssumption
    <3> HIDE DEF s, m
    <3> QED
      BY <1>1, <3>1, <3>2, <3>3, <3>4, <3>5, <3>6 DEF TableAgrees
  <2>6. FaultsExplained'
    <3>1. fault' = "none" \/ (fault' = "table" /\ table = NoTable)
      BY <1>1, <1>4
    <3>2. fault' = "table" => misuse'
      BY <1>1, <3>1 DEF IInv, TableAgrees
    <3> QED
      BY <1>1, <3>1, <3>2 DEF IInv, FaultsExplained
  <2> QED
    BY <2>2, <2>3, <2>4, <2>5, <2>6 DEF IInv
<1> QED
  BY <1>3, <1>4 DEF RegisterTagHandler

LEMMA HasStep ==
    ASSUME IInv, NEW t \in Tags, HasTagHandler(t)
    PROVE  IInv'
<1>1. /\ objs' = objs /\ outputFn' = outputFn /\ hasFn' = hasFn /\ conv' = conv
      /\ table' = table /\ slots' = slots
      /\ fault = "none" /\ misuse' = (misuse \/ objs = {})
      /\ fault' = "none" \/ (fault' = "freed" /\ SlotOf(t) # 0 /\ ~slots[SlotOf(t)].live)
  BY DEF HasTagHandler, ScriptRuns
<1>2. Typed'
  BY <1>1 DEF IInv, Typed
<1>3. PlaceRight' /\ LosslessScan'
  BY <1>1, SameScan DEF IInv
<1>4. OwnerRight' /\ TableAgrees'
  BY <1>1 DEF IInv, OwnerRight, TableAgrees
<1>5. fault' = "freed" => misuse'
  <2>1. SlotOf(t) # 0 => SlotOf(t) \in DOMAIN slots
    BY SlotRight, TypedParts DEF IInv
  <2> QED
    BY <1>1, <2>1 DEF IInv, TableAgrees
<1>6. FaultsExplained'
  BY <1>1, <1>5 DEF IInv, FaultsExplained
<1> QED
  BY <1>2, <1>3, <1>4, <1>6 DEF IInv

LEMMA FromStep ==
    ASSUME IInv, NEW o \in Objs, NEW e \in Docs, FromString(o, e)
    PROVE  IInv'
<1>1. /\ objs' = objs /\ outputFn' = outputFn /\ hasFn' = hasFn /\ misuse' = misuse
      /\ table' = table /\ slots' = slots /\ fault' = fault
      /\ o \in objs /\ conv = Idle /\ fault = "none"
  BY DEF FromString
<1>2. /\ conv' \in Conversions /\ PlaceRight' /\ LosslessScan' /\ conv'.by = o
      /\ conv'.own = (o \in hasFn) /\ conv'.out = <<>> /\ conv'.pc \in {"text", "done"}
  BY StartStep
<1>3. Typed'
  BY <1>1, <1>2 DEF IInv, Typed
<1>4. conv'.own => o \in hasFn
  BY <1>2
<1>5. OwnerRight'
  BY <1>1, <1>2, <1>4 DEF IInv, OwnerRight
<1>6. TableAgrees' /\ FaultsExplained'
  BY <1>1, <1>2 DEF IInv, TableAgrees, FaultsExplained
<1> QED
  BY <1>2, <1>3, <1>5, <1>6 DEF IInv

(* What a conversion's step appends was printed with its own object's      *)
(* function, if it set one and no other object exists.                     *)
LEMMA AppendExplained ==
    ASSUME Typed, FaultsExplained, conv # Idle, conv' \in Conversions,
           misuse' = misuse, conv'.by = conv.by, conv'.own = conv.own,
           NEW c, conv'.out = Append(conv.out, c),
           ~misuse => c.by # "dropped" /\ (conv.own => c.fn = conv.by),
           fault' = "output" => ~conv.own, fault' \in {"table", "freed", "twice"} => misuse,
           fault' # "script"
    PROVE  FaultsExplained'
<1>1. conv.out \in Seq(Texts \cup TagChunks)
  BY TypedParts DEF Conversions
<1>2. /\ Len(conv.out) \in Nat /\ DOMAIN conv.out = 1 .. Len(conv.out)
      /\ DOMAIN conv'.out = 1 .. Len(conv.out) + 1
      /\ conv'.out[Len(conv.out) + 1] = c
      /\ \A i \in 1 .. Len(conv.out) : conv'.out[i] = conv.out[i]
  BY <1>1
<1>3. \A i \in DOMAIN conv'.out :
        conv'.out[i] = c \/ (i \in DOMAIN conv.out /\ conv'.out[i] = conv.out[i])
  BY <1>2
<1> QED
  BY <1>3 DEF FaultsExplained

LEMMA TextPreserves ==
    ASSUME IInv, WalkText
    PROVE  IInv'
<1>1. /\ objs' = objs /\ outputFn' = outputFn /\ hasFn' = hasFn /\ misuse' = misuse
      /\ table' = table /\ slots' = slots /\ fault = "none" /\ conv # Idle
      /\ fault' = "none" \/ (fault' = "output" /\ outputFn = NoObj)
  BY DEF WalkText, Idle
<1>2. /\ conv' \in Conversions /\ PlaceRight' /\ LosslessScan'
      /\ conv'.by = conv.by /\ conv'.own = conv.own /\ conv'.pc \in {"done", "tag"}
      /\ \/ conv'.out = conv.out
         \/ \E c : conv'.out = Append(conv.out, c) /\ c.by = "text" /\ c.fn = outputFn
  BY TextStep DEF IInv
<1>3. Typed'
  BY <1>1, <1>2 DEF IInv, Typed
<1>4. OwnerRight'
  BY <1>1, <1>2 DEF IInv, OwnerRight
<1>5. TableAgrees'
  BY <1>1 DEF IInv, TableAgrees
<1>6. FaultsExplained'
  <2>1. fault' = "output" => ~conv.own
    BY <1>1 DEF IInv, OwnerRight
  <2>2. CASE conv'.out = conv.out
    BY <1>1, <1>2, <2>1, <2>2 DEF IInv, FaultsExplained
  <2>3. ASSUME NEW c, conv'.out = Append(conv.out, c), c.by = "text", c.fn = outputFn
        PROVE  FaultsExplained'
    <3>1. ~misuse => c.by # "dropped" /\ (conv.own => c.fn = conv.by)
      BY <1>1, <2>3 DEF IInv, OwnerRight
    <3>2. fault' \in {"table", "freed", "twice"} => misuse
      BY <1>1
    <3> QED
      BY <1>1, <1>2, <2>1, <2>3, <3>1, <3>2, AppendExplained DEF IInv
  <2> QED
    BY <1>2, <2>2, <2>3
<1> QED
  BY <1>2, <1>3, <1>4, <1>5, <1>6 DEF IInv

(* The unset interpreter is met at a tag of a closure that is there.       *)
LEMMA UnsetRight ==
    ASSUME Typed, WalkTag, fault' = "script"
    PROVE  /\ conv' = conv
           /\ \E i \in DOMAIN slots' : slots'[i].live /\ slots'[i].tag = Tag'.type
<1> DEFINE k == SlotOf(Tag.type)
<1>1. slots' = slots /\ outputFn' = outputFn /\ fault = "none" /\ table # NoTable
  BY DEF WalkTag
<1>2. CallClosure(Tag)
  BY <1>1 DEF WalkTag
<1>3. conv' = conv /\ k # 0 /\ slots[k].live
  BY <1>1, <1>2 DEF CallClosure
<1>4. k \in 0 .. Len(slots) /\ (slots[k].tag = Tag.type \/ ~slots[k].live)
  BY <1>3, SlotRight
<1>5. DOMAIN slots = 1 .. Len(slots) /\ Len(slots) \in Nat
  BY TypedParts
<1>6. k \in DOMAIN slots /\ slots[k].tag = Tag.type
  BY <1>3, <1>4, <1>5
<1>7. Tag' = Tag
  BY <1>1, <1>3 DEF Tag
<1> QED
  BY <1>1, <1>3, <1>6, <1>7

LEMMA TagPreserves ==
    ASSUME IInv, WalkTag
    PROVE  IInv'
<1>1. /\ objs' = objs /\ outputFn' = outputFn /\ hasFn' = hasFn /\ misuse' = misuse
      /\ table' = table /\ slots' = slots /\ conv # Idle
  BY DEF WalkTag, Idle
<1>2. /\ conv' \in Conversions /\ PlaceRight' /\ LosslessScan'
      /\ conv'.by = conv.by /\ conv'.own = conv.own
      /\ fault' \in {"none", "table", "freed", "script", "output"}
      /\ fault' = "table" => table = NoTable
      /\ fault' = "output" => outputFn = NoObj
      /\ fault' = "freed" => \E i \in 1 .. Len(slots) : ~slots[i].live
      /\ \/ conv'.out = conv.out /\ conv'.pc = "tag"
         \/ conv'.out = conv.out /\ conv'.pc = "handler" /\ conv'.tag.fn = outputFn
         \/ \E c : /\ conv'.out = Append(conv.out, c) /\ conv'.pc \in {"text", "done"}
                   /\ c.by \in {"dropped", "builtin", "unknown"} /\ c.fn = outputFn
                   /\ c.by = "dropped" =>
                        /\ table # NoTable
                        /\ \E t \in table : \A i \in 1 .. Len(slots) : slots[i].tag # t
  BY TagStep DEF IInv
<1>3. Typed'
  BY <1>1, <1>2 DEF IInv, Typed
<1>4. OwnerRight'
  BY <1>1, <1>2 DEF IInv, OwnerRight
<1>5. TableAgrees'
  BY <1>1 DEF IInv, TableAgrees
<1>6. ASSUME ~misuse
      PROVE  /\ table # NoTable /\ table = { slots[i].tag : i \in DOMAIN slots }
             /\ \A i \in DOMAIN slots : slots[i].live
  <2>1. objs # {}
    BY <1>1 DEF IInv, OwnerRight
  <2> QED
    BY <1>6, <2>1 DEF IInv, TableAgrees
<1>7. DOMAIN slots = 1 .. Len(slots)
  BY TypedParts DEF IInv
<1>8. FaultsExplained'
  <2>1. fault' = "output" => ~conv.own
    BY <1>1, <1>2 DEF IInv, OwnerRight
  <2>2. fault' \in {"table", "freed", "twice"} => misuse
    BY <1>2, <1>6, <1>7
  <2>5. fault' = "script" =>
          /\ conv' = conv
          /\ \E i \in DOMAIN slots' : slots'[i].live /\ slots'[i].tag = Tag'.type
    BY <1>1, UnsetRight DEF IInv
  <2>3. CASE conv'.out = conv.out
    BY <1>1, <1>2, <2>1, <2>2, <2>3, <2>5 DEF IInv, FaultsExplained
  <2>4. ASSUME NEW c, conv'.out = Append(conv.out, c), c.fn = outputFn,
               c.by = "dropped" =>
                 \E t \in table : \A i \in 1 .. Len(slots) : slots[i].tag # t
        PROVE  FaultsExplained'
    <3>1. ~misuse => c.by # "dropped"
      BY <1>6, <1>7, <2>4
    <3>2. ~misuse => (conv.own => c.fn = conv.by)
      BY <1>1, <2>4 DEF IInv, OwnerRight
    <3> QED
      <4>1. conv.out \in Seq(Texts \cup TagChunks)
        BY <1>1, TypedParts DEF IInv, Conversions
      <4>2. Len(Append(conv.out, c)) # Len(conv.out)
        BY <4>1
      <4>3. fault' # "script"
        BY <2>4, <2>5, <4>2
      <4> QED
        BY <1>1, <1>2, <2>1, <2>2, <2>4, <3>1, <3>2, <4>3, AppendExplained DEF IInv
  <2> QED
    BY <1>2, <2>3, <2>4
<1> QED
  BY <1>2, <1>3, <1>4, <1>5, <1>8 DEF IInv

LEMMA ReturnPreserves ==
    ASSUME IInv, HandlerReturns
    PROVE  IInv'
<1>1. /\ objs' = objs /\ outputFn' = outputFn /\ hasFn' = hasFn /\ misuse' = misuse
      /\ table' = table /\ slots' = slots /\ fault' = fault /\ fault = "none" /\ conv # Idle
      /\ conv.pc = "handler"
  BY DEF HandlerReturns, Idle
<1>2. /\ conv' \in Conversions /\ PlaceRight' /\ LosslessScan'
      /\ conv'.by = conv.by /\ conv'.own = conv.own /\ conv'.pc \in {"text", "done"}
      /\ \E c : conv'.out = Append(conv.out, c) /\ c.by = "closure" /\ c.fn = conv.tag.fn
  BY ReturnStep DEF IInv
<1>3. Typed'
  BY <1>1, <1>2 DEF IInv, Typed
<1>4. OwnerRight'
  BY <1>1, <1>2 DEF IInv, OwnerRight
<1>5. TableAgrees'
  BY <1>1 DEF IInv, TableAgrees
<1>6. FaultsExplained'
  <2>1. PICK c : conv'.out = Append(conv.out, c) /\ c.by = "closure" /\ c.fn = conv.tag.fn
    BY <1>2
  <2>2. ~misuse => c.by # "dropped" /\ (conv.own => c.fn = conv.by)
    BY <1>1, <2>1 DEF IInv, OwnerRight
  <2>3. (fault' = "output" => ~conv.own) /\ (fault' \in {"table", "freed", "twice"} => misuse)
    BY <1>1
  <2> QED
    BY <1>1, <1>2, <2>1, <2>2, <2>3, AppendExplained DEF IInv
<1> QED
  BY <1>2, <1>3, <1>4, <1>5, <1>6 DEF IInv

LEMMA ReturnedStep ==
    ASSUME IInv, Returned
    PROVE  IInv'
<1>1. /\ objs' = objs /\ outputFn' = outputFn /\ hasFn' = hasFn /\ misuse' = misuse
      /\ table' = table /\ slots' = slots /\ fault' = fault /\ fault = "none" /\ conv' = Idle
  BY DEF Returned
<1> QED
  BY <1>1 DEF IInv, Typed, PlaceRight, OwnerRight, LosslessScan, TableAgrees, FaultsExplained

-----------------------------------------------------------------------------
(* The invariants                                                          *)

(* The scan, the table, the list of closures, the output function and the  *)
(* conversion stay in step through every operation of the script and every *)
(* step of a conversion.                                                   *)
THEOREM Inductive == Spec => []IInv
<1>1. Init => IInv
  <2> SUFFICES ASSUME Init PROVE IInv
    OBVIOUS
  <2>1. <<>> \in Seq([tag : Tags, live : BOOLEAN]) /\ Len(<<>>) < MaxClosures
    BY ClosuresAssumption
  <2>2. Typed /\ PlaceRight /\ OwnerRight /\ LosslessScan /\ FaultsExplained
    BY <2>1 DEF Init, Typed, Funs, PlaceRight, OwnerRight, LosslessScan, FaultsExplained
  <2>3. TableAgrees
    BY <2>1 DEF Init, TableAgrees
  <2> QED
    BY <2>2, <2>3 DEF IInv
<1>2. IInv /\ [Next]_vars => IInv'
  <2> SUFFICES ASSUME IInv, [Next]_vars PROVE IInv'
    OBVIOUS
  <2>1. ASSUME NEW o \in Objs, New(o) \/ Drop(o) \/ SetOutputFunction(o) PROVE IInv'
    BY <2>1, NewStep, DropStep, SetStep
  <2>2. ASSUME NEW t \in Tags, RegisterTagHandler(t) \/ HasTagHandler(t) PROVE IInv'
    BY <2>2, RegisterStep, HasStep
  <2>3. ASSUME NEW o \in Objs, NEW e \in Docs, FromString(o, e) PROVE IInv'
    BY <2>3, FromStep
  <2>4. CASE WalkText
    BY <2>4, TextPreserves
  <2>5. CASE WalkTag
    BY <2>5, TagPreserves
  <2>6. CASE HandlerReturns
    BY <2>6, ReturnPreserves
  <2>7. CASE Returned
    BY <2>7, ReturnedStep
  <2>8. CASE UNCHANGED vars
    <3>1. /\ objs' = objs /\ outputFn' = outputFn /\ hasFn' = hasFn /\ misuse' = misuse
          /\ table' = table /\ slots' = slots /\ fault' = fault /\ conv' = conv
      BY <2>8 DEF vars
    <3>2. PlaceRight' /\ LosslessScan'
      BY <3>1, SameScan DEF IInv
    <3>3. Tag' = Tag
      BY <3>1 DEF Tag
    <3> QED
      BY <3>1, <3>2, <3>3 DEF IInv, Typed, OwnerRight, TableAgrees, FaultsExplained
  <2> QED
    BY <2>1, <2>2, <2>3, <2>4, <2>5, <2>6, <2>7, <2>8 DEF Next
<1> QED
  BY <1>1, <1>2, PTL DEF Spec

(* The state always has the shape the code gives it.                       *)
THEOREM TypeCorrect == Spec => []Typed
<1>1. IInv => Typed
  BY DEF IInv
<1> QED
  BY <1>1, Inductive, PTL

(* For every document, the chunks of a conversion put together are the     *)
(* document up to where the scan stands, and each tag ends at its first    *)
(* "?>".                                                                   *)
THEOREM ScanCorrect == Spec => []LosslessScan
<1>1. IInv => LosslessScan
  BY DEF IInv
<1> QED
  BY <1>1, Inductive, PTL

(* While one object exists at a time, the process's table and list of      *)
(* closures are that object's, whatever its handlers do.                   *)
THEOREM TableCorrect == Spec => []TableAgrees
<1>1. IInv => TableAgrees
  BY DEF IInv
<1> QED
  BY <1>1, Inductive, PTL

(* Every fault but a missing output function and a missing script needs a  *)
(* second object, or a tag handler used without one.                       *)
THEOREM FaultsCorrect == Spec => []FaultsExplained
<1>1. IInv => FaultsExplained
  BY DEF IInv
<1> QED
  BY <1>1, Inductive, PTL

=============================================================================
