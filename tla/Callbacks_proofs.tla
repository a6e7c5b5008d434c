-------------------------- MODULE Callbacks_proofs --------------------------
(***************************************************************************)
(* Proofs about the two modules whose state a C library reaches through    *)
(* its callbacks while a script changes it: CurlTransfer and               *)
(* GlutCallbacks.                                                          *)
(*                                                                         *)
(* The properties of a Curl object hold for any options, contents, chunks  *)
(* and bounds.  The inductive invariant adds to them that an object not    *)
(* yet constructed has nothing, and that a transfer has an object.         *)
(*                                                                         *)
(* For any closures, ids, parameters and number of calls, GLUT's events    *)
(* run the closures they should, a menu without submenus keeps its         *)
(* entries beside GLUT's items, and the references to closures are         *)
(* counted exactly.  Those three need what they do not say: that a table   *)
(* holds what GLUT was given for a window, that only the last timer set    *)
(* knows its closure, that an allocated pair is only ever named by one     *)
(* menu, and that a menu nothing was removed from has nothing freed in its *)
(* slots.                                                                  *)
(***************************************************************************)
EXTENDS CurlTransfer, GlutCallbacks, FiniteSetTheorems, SequenceTheorems, TLAPS

Fresh ==
    object \in {"none", "failed"} =>
        /\ allocated = {} /\ strings = {} /\ lists = {} /\ dropped = {}
        /\ pointers = [o \in AllOptions |-> Null]
        /\ content.at = Null /\ header.at = Null
        /\ ~returns /\ readsFrom = "stdin"

(* The handle points to what the stacks keep, never to a buffer.           *)
Kept == \A o \in AllOptions : pointers[o] # Null => pointers[o] \in strings \cup lists

Running == transfer # "idle" => object = "live"

(* Once the upload is read to its end only a body fills the buffer.        *)
ReadToEnd ==
    transfer = "read" /\ reads = "callback" /\ (returns => served = <<>>) => content.data = <<>>

(* content_buffer is a queue for both directions: what setContent() and,   *)
(* once RETURNTRANSFER is on, the server put in comes out in that order,   *)
(* to the server or to getContent(), nothing lost or twice; header_buffer  *)
(* is filled only.                                                         *)
BuffersInOrder ==
    /\ sent \o GetContent = IF returns THEN handed \o served ELSE handed
    /\ GetHeaders = IF returns THEN titles ELSE <<>>

CurlInv ==
    /\ TypeOK /\ Fresh /\ Running /\ Kept
    /\ HandleSafe /\ Accounted /\ BuffersInOrder /\ ReadToEnd /\ FaultsExplained

-----------------------------------------------------------------------------
(* The bytes of a block are bytes.                                         *)
LEMMA BytesType ==
    ASSUME NEW source \in Sources, NEW i \in Nat, NEW k \in Nat, NEW n \in Nat
    PROVE  Bytes(source, i, k, n) \in ByteSeq
BY DEF Bytes, ByteSeq, Byte

(* Taking r bytes off the front of d and adding them to s keeps s \o d.    *)
LEMMA Moved ==
    ASSUME NEW S, NEW s \in Seq(S), NEW d \in Seq(S), NEW r \in 0..Len(d)
    PROVE  /\ s \o SubSeq(d, 1, r) \in Seq(S) /\ SubSeq(d, r + 1, Len(d)) \in Seq(S)
           /\ (s \o SubSeq(d, 1, r)) \o SubSeq(d, r + 1, Len(d)) = s \o d
<1>1. SubSeq(d, 1, r) \in Seq(S) /\ SubSeq(d, r + 1, Len(d)) \in Seq(S)
  OBVIOUS
<1>2. SubSeq(d, 1, r) \o SubSeq(d, r + 1, Len(d)) = d
  <2>1. SubSeq(d, 1, r) \o SubSeq(d, r + 1, Len(d)) = SubSeq(d, 1, Len(d))
    <3>1. 1 \in 1..Len(d) + 1 /\ r \in 1 - 1..Len(d) /\ Len(d) \in r..Len(d)
      OBVIOUS
    <3> QED BY <3>1, ConcatAdjacentSubSeq
  <2> QED BY <2>1, SubSeqFull
<1>3. \A t, u \in Seq(S) : (s \o t) \o u = s \o (t \o u)
  BY ConcatAssociative
<1>4. s \o SubSeq(d, 1, r) \in Seq(S)
  BY <1>1
<1>5. (s \o SubSeq(d, 1, r)) \o SubSeq(d, r + 1, Len(d)) = s \o d
  <2> DEFINE t == SubSeq(d, 1, r)
             u == SubSeq(d, r + 1, Len(d))
  <2>1. t \in Seq(S) /\ u \in Seq(S) /\ t \o u = d
    BY <1>1, <1>2
  <2> HIDE DEF t, u
  <2>2. (s \o t) \o u = s \o (t \o u)
    BY <2>1, <1>3
  <2>3. (s \o t) \o u = s \o d
    BY <2>1, <2>2
  <2> QED BY <2>3 DEF t, u
<1> QED BY <1>1, <1>4, <1>5

(* What is added at the end of d is added at the end of s \o d.            *)
LEMMA Added ==
    ASSUME NEW S, NEW s \in Seq(S), NEW d \in Seq(S), NEW p \in Seq(S)
    PROVE  d \o p \in Seq(S) /\ s \o (d \o p) = (s \o d) \o p
<1>1. (s \o d) \o p = s \o (d \o p)
  BY ConcatAssociative
<1> QED BY <1>1

(* The same for bytes, as a fact to instantiate.                           *)
LEMMA AddedBytes ==
    \A x, y, z \in Seq(Byte) : x \o (y \o z) = (x \o y) \o z
BY ConcatAssociative

(* The empty sequence is a sequence, and adds nothing.                     *)
LEMMA EmptyBytes ==
    ASSUME NEW S
    PROVE  <<>> \in Seq(S) /\ \A s \in Seq(S) : s \o <<>> = s /\ <<>> \o s = s
BY ConcatEmptySeq

(* What the constants and the counters are.                                *)
LEMMA Numbers ==
    /\ <<>> \in ByteSeq
    /\ \A n \in Contents : n \in Nat
    /\ \A n \in Chunks : n \in Nat /\ n > 0
<1>1. <<>> \in ByteSeq
  BY EmptyBytes DEF ByteSeq
<1> QED BY <1>1, CurlAssumption

-----------------------------------------------------------------------------
LEMMA Grown ==
    ASSUME NEW b, NEW x, NEW y, NEW n \in Nat, NEW m \in Nat, n <= m,
           b \in [served : x, titles : y, sent : 0..n]
    PROVE  b \in [served : x, titles : y, sent : 0..m]
  OBVIOUS

(* A script starts without an object.                                      *)
LEMMA InitTypeOK == CurlInit => TypeOK
<1> SUFFICES ASSUME CurlInit PROVE TypeOK
  OBVIOUS
<1>1. <<>> \in ByteSeq
  BY EmptyBytes DEF ByteSeq
<1>2. NoBuffer \in Buffer /\ NoBuffer.at = 0
  <2> HIDE DEF ByteSeq
  <2> QED BY <1>1 DEF NoBuffer, Buffer, Null
<1>3. pointers \in [AllOptions -> 0..made]
  BY DEF CurlInit, Null
<1>4. /\ object \in {"none", "failed", "live", "gone"}
      /\ reads \in {"fread", "callback"} /\ readsFrom \in {"stdin", "object"}
      /\ transfer \in {"idle", "running", "read"}
      /\ fault \in {"none", "doubleFree", "stringAsList", "stdinAsObject", "objectAsFile", "noBuffer"}
  BY DEF CurlInit
<1>5. /\ made \in Nat /\ allocated \subseteq 1..made /\ execs \in Nat
      /\ strings \subseteq 1..made /\ lists \subseteq 1..made /\ dropped \subseteq 1..made
      /\ returns \in BOOLEAN /\ uploads \in BOOLEAN
  BY DEF CurlInit
<1>6. content = NoBuffer /\ header = NoBuffer /\ content.at \in 0..made /\ header.at \in 0..made
  BY <1>2 DEF CurlInit
<1>7. handed \in ByteSeq /\ served \in ByteSeq /\ titles \in ByteSeq /\ sent \in ByteSeq
  BY <1>1 DEF CurlInit
<1>8. begun \in [served : 0..Len(served), titles : 0..Len(titles), sent : 0..Len(sent)]
  <2>1. /\ Len(served) = 0 /\ Len(titles) = 0 /\ Len(sent) = 0
        /\ begun = [served |-> 0, titles |-> 0, sent |-> 0]
    BY DEF CurlInit
  <2> QED BY <2>1
<1> QED BY <1>2, <1>3, <1>4, <1>5, <1>6, <1>7, <1>8 DEF TypeOK

(* Without an object there is nothing to account for.                      *)
THEOREM InitInv == CurlInit => CurlInv
<1> SUFFICES ASSUME CurlInit PROVE CurlInv
  OBVIOUS
<1>1. TypeOK
  BY InitTypeOK
<1>2. Fresh /\ Running /\ Kept /\ HandleSafe /\ Accounted
  BY DEF CurlInit, Fresh, Running, Kept, HandleSafe, Accounted, NoBuffer, Null
<1>3. BuffersInOrder
  <2>1. content.data = <<>> /\ header.data = <<>> /\ <<>> \o <<>> = <<>>
    BY EmptyBytes DEF CurlInit, NoBuffer
  <2> QED BY <2>1 DEF CurlInit, BuffersInOrder, GetContent, GetHeaders
<1>4. ReadToEnd /\ FaultsExplained
  BY DEF CurlInit, ReadToEnd, FaultsExplained
<1> QED BY <1>1, <1>2, <1>3, <1>4 DEF CurlInv

(* The constructor makes a handle without options and no buffers           *)
(* (utility.c:56-107).                                                     *)
LEMMA ConstructInv == ASSUME CurlInv, Construct PROVE CurlInv'
<1> USE DEF CurlInv, Construct, Callable, handle, owned, buffers, history, since, Null, NoBuffer
<1>1. TypeOK'
  BY DEF TypeOK
<1>2. Fresh' /\ Running' /\ Kept'
  BY DEF TypeOK, Fresh, Running, Kept, AllOptions
<1>3. HandleSafe'
  BY DEF TypeOK, Fresh, HandleSafe, AllOptions
<1>4. Accounted'
  BY DEF TypeOK, Fresh, Accounted
<1>5. BuffersInOrder'
  BY DEF TypeOK, BuffersInOrder, GetContent, GetHeaders
<1>6. ReadToEnd'
  BY DEF TypeOK, ReadToEnd
<1>7. FaultsExplained'
  BY DEF TypeOK, FaultsExplained, HandleSafe, Accounted, Running
<1> QED BY <1>1, <1>2, <1>3, <1>4, <1>5, <1>6, <1>7

(* A constructor that fails leaves no object (utility.c:109-112).          *)
LEMMA ConstructFailsInv == ASSUME CurlInv, ConstructFails PROVE CurlInv'
<1> USE DEF CurlInv, ConstructFails, Callable, handle, owned, buffers, history, since, Null, NoBuffer
<1>1. TypeOK'
  BY DEF TypeOK
<1>2. Fresh' /\ Running' /\ Kept'
  BY DEF TypeOK, Fresh, Running, Kept, AllOptions
<1>3. HandleSafe'
  BY DEF TypeOK, Fresh, HandleSafe, AllOptions
<1>4. Accounted'
  BY DEF TypeOK, Fresh, Accounted
<1>5. BuffersInOrder'
  BY DEF TypeOK, BuffersInOrder, GetContent, GetHeaders
<1>6. ReadToEnd'
  BY DEF TypeOK, ReadToEnd
<1>7. FaultsExplained'
  BY DEF TypeOK, FaultsExplained, HandleSafe, Accounted, Running
<1> QED BY <1>1, <1>2, <1>3, <1>4, <1>5, <1>6, <1>7

(* The destructor frees what is on the stacks, once each, and leaves the   *)
(* buffers (curl.fec:713-736).                                             *)
LEMMA DestroyInv == ASSUME CurlInv, Destroy PROVE CurlInv'
<1> USE DEF CurlInv, Destroy, Callable, handle, owned, buffers, history, since, Null, NoBuffer
<1>1. TypeOK'
  BY DEF TypeOK
<1>2. Fresh' /\ Running' /\ Kept'
  BY DEF TypeOK, Fresh, Running, Kept, AllOptions
<1>3. HandleSafe'
  BY DEF TypeOK, Fresh, HandleSafe, AllOptions
<1>4. Accounted'
  BY DEF TypeOK, Fresh, Accounted
<1>5. BuffersInOrder'
  BY DEF TypeOK, BuffersInOrder, GetContent, GetHeaders
<1>6. ReadToEnd'
  BY DEF TypeOK, ReadToEnd
<1>7. FaultsExplained'
  BY DEF TypeOK, FaultsExplained, HandleSafe, Accounted, Running
<1> QED BY <1>1, <1>2, <1>3, <1>4, <1>5, <1>6, <1>7

(* A string is copied, and the copy is on the stack before libcurl sees    *)
(* it (curl.fec:838-867).                                                  *)
LEMMA SetStringInv == ASSUME CurlInv, NEW o \in AllOptions, SetString(o) PROVE CurlInv'
<1> USE DEF CurlInv, SetString, Callable, handle, owned, buffers, history, since, Null, NoBuffer
<1>1. TypeOK'
  BY DEF TypeOK
<1>2. Fresh' /\ Running' /\ Kept'
  BY DEF TypeOK, Fresh, Running, Kept, AllOptions
<1>3. HandleSafe'
  BY DEF TypeOK, Fresh, HandleSafe, AllOptions
<1>4. Accounted'
  BY DEF TypeOK, Fresh, Accounted
<1>5. BuffersInOrder'
  BY DEF TypeOK, BuffersInOrder, GetContent, GetHeaders
<1>6. ReadToEnd'
  BY DEF TypeOK, ReadToEnd
<1>7. FaultsExplained'
  BY DEF TypeOK, FaultsExplained, HandleSafe, Accounted, Running
<1> QED BY <1>1, <1>2, <1>3, <1>4, <1>5, <1>6, <1>7

(* A header starts a list of its own, and earlier lists stay on their      *)
(* stack (curl.fec:849-855).                                               *)
LEMMA SetHeaderInv == ASSUME CurlInv, SetHeader PROVE CurlInv'
<1> USE DEF CurlInv, SetHeader, Callable, handle, owned, buffers, history, since, Null, NoBuffer
<1>1. TypeOK'
  <2>1. made' = made + 2 /\ made' \in Nat /\ made \in Nat
    BY DEF TypeOK
  <2>2. allocated' \subseteq 1..made' /\ strings' \subseteq 1..made' /\ lists' \subseteq 1..made' /\ dropped' \subseteq 1..made'
    BY <2>1 DEF TypeOK
  <2>3. pointers' \in [AllOptions -> 0..made']
    BY <2>1 DEF TypeOK, AllOptions
  <2>4. content'.at \in 0..made' /\ header'.at \in 0..made'
    BY <2>1 DEF TypeOK
  <2> QED BY <2>1, <2>2, <2>3, <2>4 DEF TypeOK
<1>2. Fresh' /\ Running' /\ Kept'
  BY DEF TypeOK, Fresh, Running, Kept, AllOptions
<1>3. HandleSafe'
  BY DEF TypeOK, Fresh, HandleSafe, AllOptions
<1>4. Accounted'
  BY DEF TypeOK, Fresh, Accounted
<1>5. BuffersInOrder'
  BY DEF TypeOK, BuffersInOrder, GetContent, GetHeaders
<1>6. ReadToEnd'
  BY DEF TypeOK, ReadToEnd
<1>7. FaultsExplained'
  BY DEF TypeOK, FaultsExplained, HandleSafe, Accounted, Running
<1> QED BY <1>1, <1>2, <1>3, <1>4, <1>5, <1>6, <1>7

(* A number option touches no pointer.                                     *)
LEMMA SetNumberInv == ASSUME CurlInv, SetNumber PROVE CurlInv'
<1> USE DEF CurlInv, SetNumber, Callable, handle, owned, buffers, history, since, Null, NoBuffer
<1>1. TypeOK'
  BY DEF TypeOK
<1>2. Fresh' /\ Running' /\ Kept'
  BY DEF TypeOK, Fresh, Running, Kept, AllOptions
<1>3. HandleSafe'
  BY DEF TypeOK, Fresh, HandleSafe, AllOptions
<1>4. Accounted'
  BY DEF TypeOK, Fresh, Accounted
<1>5. BuffersInOrder'
  BY DEF TypeOK, BuffersInOrder, GetContent, GetHeaders
<1>6. ReadToEnd'
  BY DEF TypeOK, ReadToEnd
<1>7. FaultsExplained'
  BY DEF TypeOK, FaultsExplained, HandleSafe, Accounted, Running
<1> QED BY <1>1, <1>2, <1>3, <1>4, <1>5, <1>6, <1>7

(* New buffers replace the old ones, which are lost and not freed          *)
(* (curl.fec:888-902).                                                     *)
LEMMA ReturnTransferInv == ASSUME CurlInv, ReturnTransfer PROVE CurlInv'
<1> USE DEF CurlInv, ReturnTransfer, Callable, handle, owned, buffers, history, since, Null, NoBuffer
<1>1. TypeOK'
  <2>1. made' = made + 2 /\ made' \in Nat /\ made \in Nat
    BY DEF TypeOK
  <2>2. allocated' \subseteq 1..made' /\ strings' \subseteq 1..made' /\ lists' \subseteq 1..made' /\ dropped' \subseteq 1..made'
    <3>1. {content.at, header.at} \ {Null} \subseteq 1..made
      BY DEF TypeOK
    <3>2. /\ allocated \subseteq 1..made /\ strings \subseteq 1..made /\ lists \subseteq 1..made
          /\ strings' = strings /\ lists' = lists /\ allocated' = allocated \cup {made + 1, made'}
          /\ dropped' \subseteq 1..made
      BY <3>1 DEF TypeOK
    <3>3. 1..made \subseteq 1..made' /\ made + 1 \in 1..made' /\ made' \in 1..made'
      BY <2>1
    <3> QED BY <3>2, <3>3
  <2>3. pointers' \in [AllOptions -> 0..made']
    BY <2>1 DEF TypeOK
  <2>4. <<>> \in ByteSeq
    BY EmptyBytes DEF ByteSeq
  <2>5. content' \in Buffer /\ header' \in Buffer /\ content'.at \in 0..made' /\ header'.at \in 0..made'
    BY <2>1, <2>4 DEF TypeOK, Buffer
  <2> QED BY <2>1, <2>2, <2>3, <2>4, <2>5 DEF TypeOK
<1>2. Fresh' /\ Running' /\ Kept'
  BY DEF TypeOK, Fresh, Running, Kept, AllOptions
<1>3. HandleSafe'
  BY DEF TypeOK, Fresh, HandleSafe, AllOptions
<1>4. Accounted'
  BY DEF TypeOK, Fresh, Accounted
<1>5. BuffersInOrder'
  BY DEF TypeOK, BuffersInOrder, GetContent, GetHeaders
<1>6. ReadToEnd'
  BY DEF TypeOK, ReadToEnd
<1>7. FaultsExplained'
  BY DEF TypeOK, FaultsExplained, HandleSafe, Accounted, Running
<1> QED BY <1>1, <1>2, <1>3, <1>4, <1>5, <1>6, <1>7

(* INFILE changes the read function only (curl.fec:903-908).               *)
LEMMA InFileInv == ASSUME CurlInv, NEW value \in BOOLEAN, InFile(value) PROVE CurlInv'
<1> USE DEF CurlInv, InFile, Callable, handle, owned, buffers, history, since, Null, NoBuffer
<1>1. TypeOK'
  BY DEF TypeOK
<1>2. Fresh' /\ Running' /\ Kept'
  BY DEF TypeOK, Fresh, Running, Kept, AllOptions
<1>3. HandleSafe'
  BY DEF TypeOK, Fresh, HandleSafe, AllOptions
<1>4. Accounted'
  BY DEF TypeOK, Fresh, Accounted
<1>5. BuffersInOrder'
  BY DEF TypeOK, BuffersInOrder, GetContent, GetHeaders
<1>6. ReadToEnd'
  BY DEF TypeOK, ReadToEnd
<1>7. FaultsExplained'
  BY DEF TypeOK, FaultsExplained, HandleSafe, Accounted, Running
<1> QED BY <1>1, <1>2, <1>3, <1>4, <1>5, <1>6, <1>7

(* setContent() replaces the bytes of the buffer and starts its history    *)
(* (curl.fec:785-793).                                                     *)
LEMMA SetContentInv == ASSUME CurlInv, NEW n \in Contents, SetContent(n) PROVE CurlInv'
<1> DEFINE d == Bytes("script", made', 0, n)
<1>0. /\ TypeOK /\ Kept /\ HandleSafe /\ Accounted /\ BuffersInOrder /\ FaultsExplained
      /\ object = "live" /\ transfer = "idle" /\ fault = "none"
  BY DEF CurlInv, SetContent, Callable
<1>1. /\ made' = made + 1 /\ allocated' = (allocated \ {content.at}) \cup {made'}
      /\ content' = [at |-> made', data |-> d] /\ handed' = d /\ served' = <<>> /\ sent' = <<>>
      /\ readsFrom' = "object"
      /\ fault' = IF content.at \in allocated \cup {Null} THEN fault ELSE "doubleFree"
  BY DEF SetContent
<1>2. /\ object' = object /\ pointers' = pointers /\ returns' = returns /\ reads' = reads /\ uploads' = uploads
      /\ strings' = strings /\ lists' = lists /\ header' = header /\ transfer' = transfer /\ execs' = execs
      /\ titles' = titles /\ dropped' = dropped
  BY DEF SetContent, owned
<1>3. made \in Nat /\ made' \in Nat /\ d \in ByteSeq /\ <<>> \in ByteSeq
  <2>1. made \in Nat /\ made' \in Nat /\ n \in Nat /\ <<>> \in ByteSeq
    BY <1>0, <1>1, Numbers DEF TypeOK
  <2> QED BY <2>1, BytesType DEF Sources
<1> HIDE DEF d
<1>4. made' # Null /\ made' \notin allocated \cup strings \cup lists \cup dropped \cup {header.at}
  BY <1>0, <1>1 DEF TypeOK, Null
<1>5. content'.at = made' /\ content'.data = d
  BY <1>1
<1>6. fault' = fault
  BY <1>0, <1>1 DEF Accounted
<1>7. TypeOK'
  <2>1. allocated' \subseteq 1..made' /\ strings' \subseteq 1..made' /\ lists' \subseteq 1..made' /\ dropped' \subseteq 1..made'
    <3>1. allocated \subseteq 1..made /\ strings \subseteq 1..made /\ lists \subseteq 1..made /\ dropped \subseteq 1..made
      BY <1>0 DEF TypeOK
    <3>2. 1..made \subseteq 1..made' /\ made' \in 1..made'
      BY <1>1, <1>3
    <3> QED BY <1>1, <1>2, <3>1, <3>2
  <2>2. pointers' \in [AllOptions -> 0..made']
    BY <1>0, <1>1, <1>2, <1>3 DEF TypeOK
  <2>3. content' \in Buffer /\ header' \in Buffer /\ content'.at \in 0..made' /\ header'.at \in 0..made'
    BY <1>0, <1>1, <1>2, <1>3 DEF TypeOK, Buffer
  <2>4. begun' \in [served : 0..Len(served'), titles : 0..Len(titles'), sent : 0..Len(sent')]
    <3>1. begun \in [served : 0..Len(served), titles : 0..Len(titles), sent : 0..Len(sent)]
      BY <1>0 DEF TypeOK
    <3>2. /\ begun' = [begun EXCEPT !.served = 0, !.sent = 0] /\ titles' = titles
          /\ Len(served') = 0 /\ Len(sent') = 0
      BY <1>1 DEF SetContent
    <3>3. begun' = [served |-> 0, titles |-> begun.titles, sent |-> 0]
      BY <3>1, <3>2
    <3> QED BY <3>1, <3>2, <3>3
  <2> QED BY <1>0, <1>1, <1>2, <1>3, <1>6, <2>1, <2>2, <2>3, <2>4 DEF TypeOK
<1>8. Fresh' /\ Running' /\ Kept'
  BY <1>0, <1>2 DEF Fresh, Running, Kept
<1>9. HandleSafe'
  <2>1. returns => header.at \in allocated /\ header.at # content.at
    BY <1>0 DEF TypeOK, HandleSafe, Accounted, Null
  <2>2. \A o \in AllOptions : pointers[o] # Null => pointers[o] \in allocated'
    BY <1>0, <1>1 DEF Kept, Accounted, TypeOK
  <2> QED BY <1>0, <1>1, <1>2, <1>5, <2>1, <2>2 DEF HandleSafe
<1>10. Accounted'
  <2> DEFINE h == {header.at} \ {Null}
             kept == strings \cup lists
  <2>1. /\ strings \cap lists = {} /\ kept \cap (h \cup dropped) = {} /\ h \cap dropped = {}
        /\ allocated \ {content.at} = (h \cup dropped \cup kept) \ {content.at}
        /\ content.at \notin kept \cup dropped \/ content.at = Null
        /\ content.at \notin h
        /\ Null \notin kept \cup dropped \cup h
    BY <1>0 DEF Accounted, TypeOK, Null
  <2>2. allocated' = h \cup dropped \cup kept \cup {made'}
    BY <1>1, <2>1
  <2>3. {made', header.at} \ {Null} = h \cup {made'} /\ made' \notin kept \cup dropped \cup h
    BY <1>4
  <2>4. made' # header.at
    BY <1>4
  <2> QED BY <1>0, <1>2, <1>5, <2>1, <2>2, <2>3, <2>4 DEF Accounted
<1>11. BuffersInOrder'
  <2>1. <<>> \o d = d /\ d \o <<>> = d
    BY <1>3, EmptyBytes DEF ByteSeq
  <2> QED BY <1>0, <1>1, <1>2, <1>5, <2>1 DEF BuffersInOrder, GetContent, GetHeaders
<1>12. ReadToEnd' /\ FaultsExplained'
  BY <1>0, <1>2, <1>6 DEF ReadToEnd, FaultsExplained
<1> QED BY <1>7, <1>8, <1>9, <1>10, <1>11, <1>12 DEF CurlInv

(* exec() leaves the buffers as they are (curl.fec:744-762).               *)
LEMMA ExecInv == ASSUME CurlInv, Exec PROVE CurlInv'
<1> USE DEF CurlInv, Exec, Callable, handle, owned, buffers, history, since, Null, NoBuffer
<1>1. TypeOK'
  BY DEF TypeOK
<1>2. Fresh' /\ Running' /\ Kept'
  BY DEF TypeOK, Fresh, Running, Kept, AllOptions
<1>3. HandleSafe'
  BY DEF TypeOK, Fresh, HandleSafe, AllOptions
<1>4. Accounted'
  BY DEF TypeOK, Fresh, Accounted
<1>5. BuffersInOrder'
  BY DEF TypeOK, BuffersInOrder, GetContent, GetHeaders
<1>6. ReadToEnd'
  BY DEF TypeOK, ReadToEnd
<1>7. FaultsExplained'
  BY DEF TypeOK, FaultsExplained, HandleSafe, Accounted, Running
<1> QED BY <1>1, <1>2, <1>3, <1>4, <1>5, <1>6, <1>7

(* libcurl follows a list option: a fault only if it was set by a string.  *)
LEMMA UseListInv == ASSUME CurlInv, NEW o \in ListOptions \cup {"HTTPHEADER"}, UseList(o) PROVE CurlInv'
<1> USE DEF CurlInv, UseList, Callable, handle, owned, buffers, history, since, Null, NoBuffer
<1>1. TypeOK'
  BY DEF TypeOK
<1>2. Fresh' /\ Running' /\ Kept'
  BY DEF TypeOK, Fresh, Running, Kept, AllOptions
<1>3. HandleSafe'
  BY DEF TypeOK, Fresh, HandleSafe, AllOptions
<1>4. Accounted'
  BY DEF TypeOK, Fresh, Accounted
<1>5. BuffersInOrder'
  BY DEF TypeOK, BuffersInOrder, GetContent, GetHeaders
<1>6. ReadToEnd'
  BY DEF TypeOK, ReadToEnd
<1>7. FaultsExplained'
  BY DEF TypeOK, FaultsExplained, HandleSafe, Accounted, Running
<1> QED BY <1>1, <1>2, <1>3, <1>4, <1>5, <1>6, <1>7

(* A block goes from the front of the buffer to the end of what was sent   *)
(* (utility.c:18-33).                                                      *)
LEMMA ReadInv == ASSUME CurlInv, NEW w \in Chunks, Read(w) PROVE CurlInv'
<1> USE DEF CurlInv, Read, Callable, handle, owned, buffers, history, since, Null, NoBuffer
<1> DEFINE r == IF Len(content.data) > w THEN w ELSE Len(content.data)
<1>0. /\ sent \in Seq(Byte) /\ content.data \in Seq(Byte) /\ r \in 0..Len(content.data)
      /\ r = 0 => Len(content.data) = 0
      /\ sent' = sent \o SubSeq(content.data, 1, r)
      /\ content'.data = SubSeq(content.data, r + 1, Len(content.data))
      /\ content' = [at |-> content.at, data |-> content'.data]
      /\ transfer' = IF r = 0 THEN "read" ELSE transfer
  <2>1. content \in Buffer /\ sent \in ByteSeq /\ w \in Nat \ {0}
    BY CurlAssumption DEF TypeOK
  <2>2. sent \in Seq(Byte) /\ content.data \in Seq(Byte) /\ Len(content.data) \in Nat
    BY <2>1 DEF Buffer, ByteSeq
  <2>3. /\ sent' = sent \o SubSeq(content.data, 1, r)
        /\ content' = [content EXCEPT !.data = SubSeq(content.data, r + 1, Len(content.data))]
        /\ transfer' = IF r = 0 THEN "read" ELSE transfer
    OBVIOUS
  <2>4. r \in 0..Len(content.data) /\ (r = 0 => Len(content.data) = 0)
    BY <2>1, <2>2
  <2> HIDE DEF r
  <2>5. /\ content'.data = SubSeq(content.data, r + 1, Len(content.data))
        /\ content' = [at |-> content.at, data |-> content'.data]
    BY <2>1, <2>3 DEF Buffer
  <2> QED BY <2>2, <2>3, <2>4, <2>5
<1> HIDE DEF r
<1>m. /\ sent' \in Seq(Byte) /\ content'.data \in Seq(Byte)
      /\ sent' \o content'.data = sent \o content.data
  <2> DEFINE d == content.data
  <2>1. sent \in Seq(Byte) /\ d \in Seq(Byte) /\ r \in 0..Len(d)
    BY <1>0
  <2>2. sent' = sent \o SubSeq(d, 1, r) /\ content'.data = SubSeq(d, r + 1, Len(d))
    BY <1>0
  <2> HIDE DEF d
  <2>3. /\ sent \o SubSeq(d, 1, r) \in Seq(Byte) /\ SubSeq(d, r + 1, Len(d)) \in Seq(Byte)
        /\ (sent \o SubSeq(d, 1, r)) \o SubSeq(d, r + 1, Len(d)) = sent \o d
    BY <2>1, Moved
  <2> QED BY <2>2, <2>3 DEF d
<1>1. TypeOK'
  <2>1. content' \in Buffer /\ content'.at = content.at
    BY <1>0, <1>m DEF TypeOK, Buffer, ByteSeq
  <2>2. sent' \in ByteSeq /\ transfer' \in {"idle", "running", "read"}
    BY <1>0, <1>m DEF TypeOK, ByteSeq
  <2>3. begun' \in [served : 0..Len(served'), titles : 0..Len(titles'), sent : 0..Len(sent')]
    <3>1. begun \in [served : 0..Len(served), titles : 0..Len(titles), sent : 0..Len(sent)]
      BY DEF TypeOK
    <3>2. UNCHANGED <<begun, served, titles>>
      OBVIOUS
    <3>3. Len(sent') \in Nat /\ Len(sent) \in Nat /\ Len(sent) <= Len(sent')
      <4> DEFINE c == content.data
                 d == SubSeq(c, 1, r)
      <4>1. c \in Seq(Byte) /\ r \in 0..Len(c) /\ sent \in Seq(Byte) /\ sent' = sent \o d
        BY <1>0
      <4> HIDE DEF c
      <4>2. d \in Seq(Byte) /\ Len(d) \in Nat
        BY <4>1
      <4> HIDE DEF d
      <4>3. Len(sent \o d) = Len(sent) + Len(d) /\ Len(sent) \in Nat
        BY <4>1, <4>2
      <4>4. Len(sent') = Len(sent \o d)
        BY ONLY <4>1
      <4> QED BY ONLY <4>2, <4>3, <4>4
    <3> QED BY <3>1, <3>2, <3>3, Grown
  <2> QED BY <2>1, <2>2, <2>3 DEF TypeOK
<1>2. Fresh' /\ Running' /\ Kept'
  BY DEF TypeOK, Fresh, Running, Kept, AllOptions
<1>3. HandleSafe'
  BY DEF TypeOK, Fresh, HandleSafe, AllOptions
<1>4. Accounted'
  BY DEF TypeOK, Fresh, Accounted
<1>5. BuffersInOrder'
  BY <1>m DEF BuffersInOrder, GetContent, GetHeaders
<1>6. ReadToEnd'
  <2>1. transfer' = "read" => Len(content.data) = 0 /\ r = 0
    BY <1>0
  <2>2. Len(content.data) = 0 /\ r = 0 => content'.data = <<>>
    BY <1>0
  <2> QED BY <2>1, <2>2 DEF ReadToEnd
<1>7. FaultsExplained'
  BY DEF TypeOK, FaultsExplained, HandleSafe, Accounted, Running
<1> QED BY <1>1, <1>2, <1>3, <1>4, <1>5, <1>6, <1>7

(* The default read function touches nothing of the object.                *)
LEMMA ReadStdinInv == ASSUME CurlInv, ReadStdin PROVE CurlInv'
<1> USE DEF CurlInv, ReadStdin, Callable, handle, owned, buffers, history, since, Null, NoBuffer
<1>1. TypeOK'
  BY DEF TypeOK
<1>2. Fresh' /\ Running' /\ Kept'
  BY DEF TypeOK, Fresh, Running, Kept, AllOptions
<1>3. HandleSafe'
  BY DEF TypeOK, Fresh, HandleSafe, AllOptions
<1>4. Accounted'
  BY DEF TypeOK, Fresh, Accounted
<1>5. BuffersInOrder'
  BY DEF TypeOK, BuffersInOrder, GetContent, GetHeaders
<1>6. ReadToEnd'
  BY DEF TypeOK, ReadToEnd
<1>7. FaultsExplained'
  BY DEF TypeOK, FaultsExplained, HandleSafe, Accounted, Running
<1> QED BY <1>1, <1>2, <1>3, <1>4, <1>5, <1>6, <1>7

(* A read with only one of READFUNCTION and READDATA in place: a fault.    *)
LEMMA ReadFailsInv == ASSUME CurlInv, ReadFails PROVE CurlInv'
<1> USE DEF CurlInv, ReadFails, Callable, handle, owned, buffers, history, since, Null, NoBuffer
<1>1. TypeOK'
  BY DEF TypeOK
<1>2. Fresh' /\ Running' /\ Kept'
  BY DEF TypeOK, Fresh, Running, Kept, AllOptions
<1>3. HandleSafe'
  BY DEF TypeOK, Fresh, HandleSafe, AllOptions
<1>4. Accounted'
  BY DEF TypeOK, Fresh, Accounted
<1>5. BuffersInOrder'
  BY DEF TypeOK, BuffersInOrder, GetContent, GetHeaders
<1>6. ReadToEnd'
  BY DEF TypeOK, ReadToEnd
<1>7. FaultsExplained'
  BY DEF TypeOK, FaultsExplained, HandleSafe, Accounted, Running
<1> QED BY <1>1, <1>2, <1>3, <1>4, <1>5, <1>6, <1>7

(* A block that is served goes to the end of the buffer                    *)
(* (utility.c:35-54).                                                      *)
LEMMA WriteBodyInv == ASSUME CurlInv, NEW n \in Chunks, WriteBody(n) PROVE CurlInv'
<1> USE DEF CurlInv, WriteBody, Callable, handle, owned, buffers, history, since, Null, NoBuffer
<1> DEFINE ptr == Bytes("server", execs, Len(served), n)
<1>0. /\ ptr \in Seq(Byte) /\ served \in Seq(Byte) /\ handed \in Seq(Byte) /\ sent \in Seq(Byte)
      /\ content.data \in Seq(Byte) /\ content = [at |-> content.at, data |-> content.data]
  <2>1. served \in Seq(Byte) /\ handed \in Seq(Byte) /\ sent \in Seq(Byte) /\ content \in Buffer
    BY DEF TypeOK, ByteSeq
  <2>2. n \in Nat /\ execs \in Nat /\ Len(served) \in Nat
    BY <2>1, CurlAssumption DEF TypeOK
  <2>3. ptr \in Seq(Byte)
    BY <2>2, BytesType DEF Sources, ByteSeq
  <2> QED BY <2>1, <2>3 DEF Buffer, ByteSeq
<1>s. /\ served' = served \o ptr
      /\ content' = IF returns THEN [content EXCEPT !.data = content.data \o ptr] ELSE content
  OBVIOUS
<1>d. /\ returns => content'.data = content.data \o ptr
      /\ content'.at = content.at /\ content'.data \in Seq(Byte)
      /\ content' = [at |-> content'.at, data |-> content'.data]
  <2> HIDE DEF ptr
  <2>1. content.data \o ptr \in Seq(Byte)
    BY <1>0, Added
  <2>2. CASE returns
    <3>1. content' = [at |-> content.at, data |-> content.data \o ptr]
      BY <1>0, <1>s, <2>2
    <3> QED BY <1>s, <2>1, <2>2, <3>1
  <2>3. CASE ~returns
    <3>1. content' = content
      BY <1>s, <2>3
    <3> QED BY <1>0, <1>s, <2>3, <3>1
  <2> QED BY <2>2, <2>3
<1>x. returns => sent \o content'.data = handed \o served'
  <2> HIDE DEF ptr
  <2> SUFFICES ASSUME returns PROVE sent \o content'.data = handed \o served'
    OBVIOUS
  <2>1. sent \o content.data = handed \o served
    BY DEF BuffersInOrder, GetContent
  <2>2. sent \o (content.data \o ptr) = handed \o (served \o ptr)
    <3>1. sent \o (content.data \o ptr) = (sent \o content.data) \o ptr
      BY <1>0, AddedBytes, Zenon
    <3>2. handed \o (served \o ptr) = (handed \o served) \o ptr
      BY <1>0, AddedBytes, Zenon
    <3> QED BY <2>1, <3>1, <3>2, Zenon
  <2> QED BY <1>s, <1>d, <2>2
<1>y. served' \in Seq(Byte) /\ served' # <<>>
  <2>1. ptr # <<>>
    BY CurlAssumption DEF Bytes
  <2> HIDE DEF ptr
  <2>2. served \o ptr \in Seq(Byte)
    BY <1>0, Added
  <2>3. served \o ptr # <<>>
    BY <1>0, <2>1, ConcatEqualIffEmpty
  <2> QED BY <1>s, <2>2, <2>3
<1> HIDE DEF ptr
<1>f. fault' = "none"
  BY DEF Running, HandleSafe
<1>1. TypeOK'
  <2>1. content' \in Buffer /\ content'.at = content.at
    BY <1>d DEF TypeOK, Buffer, ByteSeq
  <2> QED BY <1>y, <1>f, <2>1 DEF TypeOK, ByteSeq
<1>2. Fresh' /\ Running' /\ Kept'
  BY DEF TypeOK, Fresh, Running, Kept, AllOptions
<1>3. HandleSafe'
  BY <1>d DEF HandleSafe
<1>4. Accounted'
  BY <1>d DEF Accounted
<1>5. BuffersInOrder'
  BY <1>x DEF BuffersInOrder, GetContent, GetHeaders
<1>6. ReadToEnd'
  BY <1>y DEF ReadToEnd
<1>7. FaultsExplained'
  BY DEF TypeOK, FaultsExplained, HandleSafe, Accounted, Running
<1> QED BY <1>1, <1>2, <1>3, <1>4, <1>5, <1>6, <1>7

(* A header goes to the end of the header buffer (utility.c:35-54).        *)
LEMMA WriteHeaderInv == ASSUME CurlInv, NEW n \in Chunks, WriteHeader(n) PROVE CurlInv'
<1> USE DEF CurlInv, WriteHeader, Callable, handle, owned, buffers, history, since, Null, NoBuffer
<1> DEFINE ptr == Bytes("title", execs, Len(titles), n)
<1>0. /\ ptr \in Seq(Byte) /\ titles \in Seq(Byte)
      /\ header.data \in Seq(Byte) /\ header = [at |-> header.at, data |-> header.data]
  <2>1. titles \in Seq(Byte) /\ header \in Buffer
    BY DEF TypeOK, ByteSeq
  <2>2. n \in Nat /\ execs \in Nat /\ Len(titles) \in Nat
    BY <2>1, CurlAssumption DEF TypeOK
  <2>3. ptr \in Seq(Byte)
    BY <2>2, BytesType DEF Sources, ByteSeq
  <2> QED BY <2>1, <2>3 DEF Buffer, ByteSeq
<1>s. /\ titles' = titles \o ptr
      /\ header' = IF returns THEN [header EXCEPT !.data = header.data \o ptr] ELSE header
  OBVIOUS
<1> HIDE DEF ptr
<1>d. /\ returns => header'.data = header.data \o ptr
      /\ header'.at = header.at /\ header'.data \in Seq(Byte)
      /\ header' = [at |-> header'.at, data |-> header'.data]
      /\ titles' \in Seq(Byte)
  <2>1. header.data \o ptr \in Seq(Byte) /\ titles \o ptr \in Seq(Byte)
    BY <1>0, Added
  <2>2. CASE returns
    <3>1. header' = [at |-> header.at, data |-> header.data \o ptr]
      BY <1>0, <1>s, <2>2
    <3> QED BY <1>s, <2>1, <2>2, <3>1
  <2>3. CASE ~returns
    <3>1. header' = header
      BY <1>s, <2>3
    <3> QED BY <1>0, <1>s, <2>1, <2>3, <3>1
  <2> QED BY <2>2, <2>3
<1>f. fault' = "none"
  BY DEF Running, HandleSafe
<1>1. TypeOK'
  <2>1. header' \in Buffer /\ header'.at = header.at
    BY <1>d DEF TypeOK, Buffer, ByteSeq
  <2> QED BY <1>d, <1>f, <2>1 DEF TypeOK, ByteSeq
<1>2. Fresh' /\ Running' /\ Kept'
  <2>1. Running' /\ object' = "live"
    BY DEF Running
  <2>2. Fresh'
    BY <2>1 DEF Fresh
  <2>3. Kept'
    BY DEF Kept
  <2> QED BY <2>1, <2>2, <2>3
<1>3. HandleSafe'
  BY <1>d DEF HandleSafe
<1>4. Accounted'
  BY <1>d DEF Accounted
<1>5. BuffersInOrder'
  BY <1>s, <1>d DEF BuffersInOrder, GetContent, GetHeaders
<1>6. ReadToEnd'
  BY DEF TypeOK, ReadToEnd
<1>7. FaultsExplained'
  BY DEF TypeOK, FaultsExplained, HandleSafe, Accounted, Running
<1> QED BY <1>1, <1>2, <1>3, <1>4, <1>5, <1>6, <1>7

(* The end of a transfer changes nothing else.                             *)
LEMMA FinishInv == ASSUME CurlInv, Finish PROVE CurlInv'
<1> USE DEF CurlInv, Finish, Callable, handle, owned, buffers, history, since, Null, NoBuffer
<1>1. TypeOK'
  BY DEF TypeOK
<1>2. Fresh' /\ Running' /\ Kept'
  BY DEF TypeOK, Fresh, Running, Kept, AllOptions
<1>3. HandleSafe'
  BY DEF TypeOK, Fresh, HandleSafe, AllOptions
<1>4. Accounted'
  BY DEF TypeOK, Fresh, Accounted
<1>5. BuffersInOrder'
  BY DEF TypeOK, BuffersInOrder, GetContent, GetHeaders
<1>6. ReadToEnd'
  BY DEF TypeOK, ReadToEnd
<1>7. FaultsExplained'
  BY DEF TypeOK, FaultsExplained, HandleSafe, Accounted, Running
<1> QED BY <1>1, <1>2, <1>3, <1>4, <1>5, <1>6, <1>7
-----------------------------------------------------------------------------
(* CurlInv is an invariant of the object.                                  *)
THEOREM CurlInductive == CurlSpec => []CurlInv
<1>1. CurlInv /\ [CurlNext]_curlVars => CurlInv'
  <2> SUFFICES ASSUME CurlInv, [CurlNext]_curlVars PROVE CurlInv'
    OBVIOUS
  <2>1. CASE Construct
    BY <2>1, ConstructInv
  <2>2. CASE ConstructFails
    BY <2>2, ConstructFailsInv
  <2>3. CASE Destroy
    BY <2>3, DestroyInv
  <2>4. CASE \E o \in AllOptions : SetString(o)
    BY <2>4, SetStringInv
  <2>5. CASE SetHeader
    BY <2>5, SetHeaderInv
  <2>6. CASE SetNumber
    BY <2>6, SetNumberInv
  <2>7. CASE ReturnTransfer
    BY <2>7, ReturnTransferInv
  <2>8. CASE \E value \in BOOLEAN : InFile(value)
    BY <2>8, InFileInv
  <2>9. CASE \E n \in Contents : SetContent(n)
    BY <2>9, SetContentInv
  <2>10. CASE Exec
    BY <2>10, ExecInv
  <2>11. CASE \E o \in ListOptions \cup {"HTTPHEADER"} : UseList(o)
    BY <2>11, UseListInv
  <2>12. CASE \E w \in Chunks : Read(w)
    BY <2>12, ReadInv
  <2>13. CASE ReadStdin
    BY <2>13, ReadStdinInv
  <2>14. CASE ReadFails
    BY <2>14, ReadFailsInv
  <2>15. CASE \E n \in Chunks : WriteBody(n)
    BY <2>15, WriteBodyInv
  <2>16. CASE \E n \in Chunks : WriteHeader(n)
    BY <2>16, WriteHeaderInv
  <2>17. CASE Finish
    BY <2>17, FinishInv
  <2>18. CASE UNCHANGED curlVars
    <3>1. /\ UNCHANGED <<object, allocated, made, pointers, returns, reads, readsFrom, uploads, strings, lists>>
          /\ UNCHANGED <<content, header, transfer, execs, fault, handed, served, titles, sent, begun, dropped>>
      BY <2>18 DEF curlVars, handle, owned, buffers, history, since
    <3>2. TypeOK'
      BY <3>1 DEF CurlInv, TypeOK
    <3>3. Fresh' /\ Running' /\ Kept' /\ HandleSafe' /\ Accounted'
      BY <3>1 DEF CurlInv, Fresh, Running, Kept, HandleSafe, Accounted
    <3>4. BuffersInOrder' /\ ReadToEnd' /\ FaultsExplained'
      BY <3>1 DEF CurlInv, BuffersInOrder, ReadToEnd, FaultsExplained, GetContent, GetHeaders
    <3> QED BY <3>2, <3>3, <3>4 DEF CurlInv
  <2> QED BY <2>1, <2>2, <2>3, <2>4, <2>5, <2>6, <2>7, <2>8, <2>9, <2>10, <2>11, <2>12, <2>13, <2>14, <2>15, <2>16,
        <2>17, <2>18 DEF CurlNext
<1> QED BY InitInv, <1>1, PTL DEF CurlSpec

(* Every function of the class keeps the variables in their types.         *)
THEOREM TypeCorrect == CurlSpec => []TypeOK
<1>1. CurlInv => TypeOK
  BY DEF CurlInv
<1> QED BY CurlInductive, <1>1, PTL

(* The handle's pointers are good and everything allocated has one owner   *)
(* (curl.fec:713-736, 848-856, 785-793, 888-896).                          *)
THEOREM MemoryCorrect == CurlSpec => []MemoryRight
<1>1. CurlInv => MemoryRight
  BY DEF CurlInv, MemoryRight
<1> QED BY CurlInductive, <1>1, PTL

LEMMA LastPart ==
    ASSUME NEW X, NEW s \in Seq(X), NEW t \in Seq(X), NEW k \in 0..Len(t)
    PROVE  /\ Len(s) + k \in 0..Len(s \o t)
           /\ SubSeq(s \o t, (Len(s) + k) + 1, Len(s \o t)) = SubSeq(t, k + 1, Len(t))
<1> DEFINE q == s \o t
           a == SubSeq(q, (Len(s) + k) + 1, Len(q))
           b == SubSeq(t, k + 1, Len(t))
<1>1. /\ q \in Seq(X) /\ Len(q) = Len(s) + Len(t)
      /\ \A j \in 1..Len(t) : q[Len(s) + j] = t[j]
  OBVIOUS
<1>2. Len(s) \in Nat /\ Len(t) \in Nat /\ k \in Nat /\ k <= Len(t)
  OBVIOUS
<1> HIDE DEF q
<1>3. /\ a \in Seq(X) /\ Len(a) = Len(t) - k
      /\ \A j \in 1..Len(t) - k : a[j] = q[(Len(s) + k) + j]
  BY <1>1, <1>2
<1>4. b \in Seq(X) /\ Len(b) = Len(t) - k /\ \A j \in 1..Len(t) - k : b[j] = t[k + j]
  BY <1>2
<1>5. \A j \in 1..Len(t) - k : q[(Len(s) + k) + j] = t[k + j]
  <2> TAKE j \in 1..Len(t) - k
  <2>1. k + j \in 1..Len(t) /\ (Len(s) + k) + j = Len(s) + (k + j)
    BY <1>2
  <2> QED
    BY <1>1, <2>1
<1> HIDE DEF a, b
<1>6. a = b
  <2>1. Len(a) = Len(b) /\ \A j \in 1..Len(a) : a[j] = b[j]
    BY <1>3, <1>4, <1>5
  <2> QED
    BY <1>3, <1>4, <2>1, SeqEqual
<1>7. Len(s) + k \in 0..Len(q)
  BY <1>1, <1>2
<1> QED
  BY <1>6, <1>7 DEF a, b, q

(* getContent() and getHeaders() end with what the last execution received *)
(* and are exactly this if no other has (utility.c:18-54, curl.fec:770-    *)
(* 808).                                                                   *)
THEOREM LatestCorrect == CurlSpec => []LatestKept
<1>1. CurlInv => LatestKept
  <2> SUFFICES ASSUME CurlInv, returns PROVE LatestKept
    BY DEF LatestKept
  <2> DEFINE X == Byte
             h == begun.titles
             k == begun.served
  <2>1. /\ titles \in Seq(X) /\ handed \in Seq(X) /\ served \in Seq(X)
        /\ h \in 0..Len(titles) /\ k \in 0..Len(served)
    BY DEF CurlInv, TypeOK, ByteSeq
  <2>2. GetHeaders = titles /\ sent \o GetContent = handed \o served
    BY DEF CurlInv, BuffersInOrder
  <2> HIDE DEF X
  <2>3. EndsIn(GetHeaders, Latest(titles, h), h = 0)
    BY <2>1, <2>2 DEF EndsIn, Latest
  <2>4. EndsIn(handed \o served, Latest(served, k), handed = <<>> /\ k = 0)
    <3> DEFINE q == handed \o served
               j == Len(handed) + k
    <3>1. j \in 0..Len(q) /\ SubSeq(q, j + 1, Len(q)) = SubSeq(served, k + 1, Len(served))
      BY <2>1, LastPart
    <3>2. handed = <<>> /\ k = 0 => j = 0
      OBVIOUS
    <3> HIDE DEF q, j
    <3>3. \E i \in 0..Len(q) :
             /\ SubSeq(q, i + 1, Len(q)) = SubSeq(served, k + 1, Len(served))
             /\ handed = <<>> /\ k = 0 => i = 0
      BY <3>1, <3>2
    <3> QED
      BY <3>3 DEF EndsIn, Latest, q
  <2> QED
    BY <2>2, <2>3, <2>4 DEF LatestKept
<1> QED BY CurlInductive, <1>1, PTL

(* An execution that has read the upload to its end has sent the content   *)
(* from where the one before it stopped, the whole of it if none had read  *)
(* any, unless a body came in since (utility.c:25-32).                     *)
THEOREM UploadCorrect == CurlSpec => []UploadWhole
<1>1. CurlInv => UploadWhole
  <2> SUFFICES ASSUME CurlInv, transfer = "read", reads = "callback", returns => served = <<>> PROVE sent = handed
    BY DEF UploadWhole, Latest
  <2>1. content.data = <<>> /\ sent \in Seq(Byte) /\ handed \in Seq(Byte)
    BY DEF CurlInv, ReadToEnd, TypeOK, ByteSeq
  <2>2. sent \o <<>> = sent /\ handed \o <<>> = handed
    BY <2>1, EmptyBytes
  <2> QED BY <2>1, <2>2 DEF CurlInv, BuffersInOrder, GetContent
<1> QED BY CurlInductive, <1>1, PTL

(* No callback finds its buffer missing and nothing is freed twice; the    *)
(* other faults need a list option set by a string, or one of INFILE and   *)
(* setContent() without the other.                                         *)
THEOREM FaultsCorrect == CurlSpec => []FaultsExplained
<1>1. CurlInv => FaultsExplained
  BY DEF CurlInv
<1> QED BY CurlInductive, <1>1, PTL

-----------------------------------------------------------------------------
(* GLUT                                                                    *)

Given == Closures \cup {NULL}
Pairs == [menu : Nat, parameter : Parameters, live : BOOLEAN]
Items == [what : {"entry"}, value : Nat, parameter : Parameters] \cup {SubMenu}
Timers == [closure : Given, parameter : Parameters, last : BOOLEAN]
Stacks == [ptr : Int, at : [Slots -> Nat]]

(* Windows                                                                 *)
WindowsTyped ==
    /\ DOMAIN windows \subseteq Ids
    /\ windows \in [DOMAIN windows -> [Kinds -> Given \cup {Unset}]]
    /\ window \in DOMAIN windows \cup {0}
    /\ hash \in [Kinds -> [Ids -> Given]]

(* The tables hold what GLUT was given for each window that is there.      *)
WindowsRight ==
    \A w \in DOMAIN windows, k \in Kinds :
        windows[w][k] # Unset => hash[k][w] = windows[w][k]

(* Timers                                                                  *)
TimersTyped ==
    /\ single \in [Singles -> Given]
    /\ timers \in Seq(Timers)

TimersRight ==
    \A i \in DOMAIN timers : timers[i].last => timers[i].closure = single["timer"]

(* Menus                                                                   *)
MenusTyped ==
    /\ DOMAIN menus \subseteq Ids
    /\ menus \in [DOMAIN menus -> Seq(Items)]
    /\ menu \in DOMAIN menus \cup {0}
    /\ callback \in [DOMAIN menus -> Closures]
    /\ stack \in [DOMAIN menus -> Stacks]
    /\ heap \in Seq(Pairs)
    /\ mixed \subseteq Ids /\ removed \subseteq Ids
    /\ calls \in 0..MaxCalls

(* The slots and items of a menu name pairs that were allocated for it.    *)
Own(m) ==
    /\ \A i \in Slots : stack[m].at[i] # 0 =>
          stack[m].at[i] \in DOMAIN heap /\ heap[stack[m].at[i]].menu = m
    /\ \A i \in DOMAIN menus[m] : menus[m][i].what = "entry" =>
          menus[m][i].value \in DOMAIN heap /\ heap[menus[m][i].value].menu = m

(* Without a submenu the slots follow GLUT's list.                         *)
Beside(m) ==
    /\ stack[m].ptr = Len(menus[m])
    /\ \A i \in DOMAIN menus[m] :
         LET g == stack[m].at[i]
         IN  /\ g # 0 /\ heap[g].live
             /\ menus[m][i].what = "entry" =>
                  menus[m][i].value = g /\ heap[g].parameter = menus[m][i].parameter
             /\ \A j \in DOMAIN menus[m] : j # i => stack[m].at[j] # g

(* Where nothing was removed nothing is freed, and no pair is named twice. *)
Whole(m) ==
    /\ \A i \in Slots : stack[m].at[i] # 0 =>
         /\ heap[stack[m].at[i]].live
         /\ \A j \in Slots : j # i => stack[m].at[j] # stack[m].at[i]
    /\ \A i \in DOMAIN menus[m] : menus[m][i].what = "entry" => heap[menus[m][i].value].live

Bounded(m) == stack[m].ptr \in 0..calls /\ Len(menus[m]) <= calls

MenuRight(m) ==
    /\ Own(m) /\ Bounded(m)
    /\ m \notin mixed => Beside(m)
    /\ m \notin removed => Whole(m)

Going == state \in {"runs", "exit"}

MenusRight == Going => \A m \in DOMAIN menus : MenuRight(m)

(* What the undefined accesses need.                                       *)
FaultsRight ==
    /\ state = "freed-twice" => removed # {}
    /\ state = "used-after-free" => removed \cap mixed # {}
    /\ state = "moved-beyond" => mixed # {}

RefsTyped == refs \in [Closures -> Int] /\ given \in [Closures -> Nat]

IInv ==
    /\ WindowsTyped /\ WindowsRight
    /\ TimersTyped /\ TimersRight
    /\ MenusTyped /\ MenusRight /\ FaultsRight
    /\ RefsTyped /\ RefsExact
    /\ CallsOwn

-----------------------------------------------------------------------------
(* What the actions leave alone                                            *)

WindowCall ==
    \/ CreateWindow
    \/ \E w \in Ids : DestroyWindow(w) \/ SetWindow(w)
    \/ \E k \in Kinds, c \in Given : Register(k, c)

WindowDispatch == \E w \in Ids, k \in Kinds, error \in BOOLEAN : Dispatch(w, k, error)

SingleCall == \E c \in Given : IdleFunc(c) \/ MenuStateFunc(c)

SingleDispatch == \E s \in {"idle", "menustate"}, error \in BOOLEAN : SingleEvent(s, error)

TimerCall == \E c \in Given, p \in Parameters : TimerFunc(c, p)

TimerDispatch == \E i \in Slots, error \in BOOLEAN : TimerExpires(i, error)

MenuCall ==
    \/ \E c \in Closures : CreateMenu(c)
    \/ \E m \in Ids, behind \in {0, 1} : DestroyMenu(m, behind)
    \/ \E m \in Ids : SetMenu(m)
    \/ AddSubMenu
    \/ \E p \in Parameters : AddMenuEntry(p)
    \/ \E i \in Slots, p \in Parameters : ChangeToMenuEntry(i, p)
    \/ \E i \in Slots : ChangeToSubMenu(i)
    \/ \E i \in Slots, clears \in BOOLEAN : RemoveMenuItem(i, clears)

MenuDispatch == \E m \in Ids, i \in Slots : Select(m, i)

LEMMA Steps ==
    ASSUME Next
    PROVE  \/ WindowCall \/ WindowDispatch \/ SingleCall \/ SingleDispatch
           \/ TimerCall \/ TimerDispatch \/ MenuCall \/ MenuDispatch
  BY DEF Next, WindowCall, WindowDispatch, SingleCall, SingleDispatch, TimerCall, TimerDispatch,
         MenuCall, MenuDispatch, Given, Kinds, WindowEvent, DeviceEvent, IdleEvent, MenuStateEvent

(* Every step of one kind leaves the state of the others alone.            *)
LEMMA WindowSteps ==
    ASSUME WindowCall \/ WindowDispatch
    PROVE  /\ UNCHANGED <<menuVars, single, timers, given>>
           /\ WindowCall => Call /\ UNCHANGED state
           /\ WindowDispatch =>
                 state = "runs" /\ state' \in {"runs", "exit", "null-closure"} /\ calls' = calls
  BY DEF WindowCall, WindowDispatch, CreateWindow, DestroyWindow, SetWindow, Register, Dispatch

LEMMA SingleSteps ==
    ASSUME SingleCall \/ SingleDispatch
    PROVE  /\ UNCHANGED <<winVars, menuVars, timers>>
           /\ SingleCall => Call /\ UNCHANGED state
           /\ SingleDispatch => state = "runs" /\ state' \in {"runs", "exit"} /\ calls' = calls
  BY DEF SingleCall, SingleDispatch, IdleFunc, MenuStateFunc, SingleEvent

LEMMA TimerSteps ==
    ASSUME TimerCall \/ TimerDispatch
    PROVE  /\ UNCHANGED <<winVars, menuVars>>
           /\ TimerCall => Call /\ UNCHANGED state
           /\ TimerDispatch => state = "runs" /\ state' \in {"runs", "exit"} /\ calls' = calls
  BY DEF TimerCall, TimerDispatch, TimerFunc, TimerExpires

LEMMA MenuSteps ==
    ASSUME MenuCall \/ MenuDispatch
    PROVE  /\ UNCHANGED <<winVars, single, timers, given>>
           /\ MenuCall => Call
           /\ MenuDispatch => state = "runs" /\ calls' = calls
           /\ state = "runs" => state' # "null-closure"
  BY DEF MenuCall, MenuDispatch, CreateMenu, DestroyMenu, SetMenu, AddSubMenu, AddMenuEntry,
         ChangeToMenuEntry, ChangeToSubMenu, RemoveMenuItem, Select, FreeEntries

-----------------------------------------------------------------------------
(* Windows                                                                 *)

LEMMA WindowsKeep ==
    ASSUME WindowsTyped, WindowsRight, WindowCall \/ WindowDispatch
    PROVE  WindowsTyped' /\ WindowsRight'
<1>1. CASE CreateWindow
  <2>1. PICK w \in Ids \ DOMAIN windows :
          windows' = Put(windows, w, [k \in Kinds |-> Unset]) /\ window' = w
    BY <1>1 DEF CreateWindow, Free
  <2>2. hash' = hash
    BY <1>1 DEF CreateWindow
  <2>3. DOMAIN windows' = DOMAIN windows \cup {w}
    BY <2>1 DEF Put
  <2>4. \A y \in DOMAIN windows' :
          windows'[y] = IF y = w THEN [k \in Kinds |-> Unset] ELSE windows[y]
    BY <2>1 DEF Put
  <2>5. windows' \in [DOMAIN windows' -> [Kinds -> Given \cup {Unset}]]
    <3>1. windows' = [y \in DOMAIN windows' |-> windows'[y]]
      BY <2>1 DEF Put
    <3>2. \A y \in DOMAIN windows' : windows'[y] \in [Kinds -> Given \cup {Unset}]
      BY <2>3, <2>4 DEF WindowsTyped
    <3> QED
      BY <3>1, <3>2
  <2> QED
    BY <2>1, <2>2, <2>3, <2>4, <2>5 DEF WindowsTyped, WindowsRight
<1>2. ASSUME NEW w \in Ids, DestroyWindow(w) PROVE WindowsTyped' /\ WindowsRight'
  <2>1. /\ windows' = [y \in DOMAIN windows \ {w} |-> windows[y]]
        /\ window' = IF window = w THEN 0 ELSE window
        /\ hash' = hash
    BY <1>2 DEF DestroyWindow, Without
  <2> QED
    BY <2>1 DEF WindowsTyped, WindowsRight
<1>3. ASSUME NEW w \in Ids, SetWindow(w) PROVE WindowsTyped' /\ WindowsRight'
  BY <1>3 DEF SetWindow, WindowsTyped, WindowsRight
<1>4. ASSUME NEW k \in Kinds, NEW c \in Given, Register(k, c)
      PROVE  WindowsTyped' /\ WindowsRight'
  <2>1. /\ window \in DOMAIN windows /\ window' = window
        /\ hash' = [hash EXCEPT ![k][window] = c]
        /\ windows' = [windows EXCEPT ![window][k] = c]
    BY <1>4 DEF Register, WindowsTyped
  <2>2. WindowsTyped'
    BY <2>1 DEF WindowsTyped
  <2>3. WindowsRight'
    BY <2>1 DEF WindowsTyped, WindowsRight
  <2> QED
    BY <2>2, <2>3
<1>5. CASE WindowDispatch
  BY <1>5 DEF WindowDispatch, Dispatch, WindowsTyped, WindowsRight
<1> QED
  BY <1>1, <1>2, <1>3, <1>4, <1>5 DEF WindowCall

-----------------------------------------------------------------------------
(* Timers                                                                  *)

LEMMA SinglesKeep ==
    ASSUME TimersTyped, TimersRight, SingleCall \/ SingleDispatch
    PROVE  TimersTyped' /\ TimersRight'
<1>1. timers' = timers
  BY SingleSteps
<1>2. single' \in [Singles -> Given] /\ single'["timer"] = single["timer"]
  BY DEF SingleCall, SingleDispatch, IdleFunc, MenuStateFunc, SetSingle, SingleEvent,
         TimersTyped, Singles
<1> QED
  BY <1>1, <1>2 DEF TimersTyped, TimersRight

(* An element is taken out of a sequence.                                  *)
LEMMA RemoveAtFacts ==
    ASSUME NEW S, NEW s \in Seq(S), NEW i \in DOMAIN s
    PROVE  /\ RemoveAt(s, i) \in Seq(S)
           /\ Len(RemoveAt(s, i)) = Len(s) - 1
           /\ \A j \in 1..Len(s) - 1 : RemoveAt(s, i)[j] = IF j < i THEN s[j] ELSE s[j + 1]
<1> DEFINE a == SubSeq(s, 1, i - 1)
           b == SubSeq(s, i + 1, Len(s))
<1>1. a \in Seq(S) /\ Len(a) = i - 1 /\ \A j \in 1..i - 1 : a[j] = s[j]
  OBVIOUS
<1>2. b \in Seq(S) /\ Len(b) = Len(s) - i /\ \A j \in 1..Len(s) - i : b[j] = s[i + j]
  OBVIOUS
<1>3. RemoveAt(s, i) = a \o b
  BY DEF RemoveAt
<1> HIDE DEF a, b
<1>4. a \o b \in Seq(S) /\ Len(a \o b) = Len(s) - 1
  BY <1>1, <1>2
<1>5. \A j \in 1..Len(s) - 1 : (a \o b)[j] = IF j < i THEN s[j] ELSE s[j + 1]
  BY <1>1, <1>2
<1> QED
  BY <1>3, <1>4, <1>5

LEMMA TimersKeep ==
    ASSUME TimersTyped, TimersRight, TimerCall \/ TimerDispatch
    PROVE  TimersTyped' /\ TimersRight'
<1>1. ASSUME NEW c \in Given, NEW p \in Parameters, TimerFunc(c, p)
      PROVE  TimersTyped' /\ TimersRight'
  <2> DEFINE old == [i \in DOMAIN timers |-> [timers[i] EXCEPT !.last = FALSE]]
             new == [closure |-> c, parameter |-> p, last |-> TRUE]
  <2>1. timers' = Append(old, new) /\ single' = [single EXCEPT !["timer"] = c]
    BY <1>1 DEF TimerFunc, SetSingle
  <2>2. \A i \in DOMAIN timers : old[i] \in Timers /\ ~old[i].last
    <3> SUFFICES ASSUME NEW i \in DOMAIN timers PROVE old[i] \in Timers /\ ~old[i].last
      OBVIOUS
    <3>1. timers[i] \in Timers /\ FALSE \in BOOLEAN
      BY DEF TimersTyped
    <3>2. [timers[i] EXCEPT !.last = FALSE] \in Timers
      BY <3>1, Zenon DEF Timers
    <3>3. ~[timers[i] EXCEPT !.last = FALSE].last
      BY <3>1 DEF Timers
    <3> QED
      BY <3>2, <3>3
  <2>3. old \in Seq(Timers) /\ Len(old) = Len(timers)
    BY <2>2 DEF TimersTyped
  <2>4. new \in Timers /\ new.closure = c
    BY DEF Timers
  <2> HIDE DEF old, new
  <2>5. timers' \in Seq(Timers)
    BY <2>1, <2>3, <2>4
  <2>6. single' \in [Singles -> Given] /\ single'["timer"] = c
    BY <2>1 DEF TimersTyped, Singles
  <2>7. \A i \in DOMAIN timers' : timers'[i].last => timers'[i].closure = c
    BY <2>1, <2>2, <2>3, <2>4
  <2> QED
    BY <2>5, <2>6, <2>7 DEF TimersTyped, TimersRight
<1>2. ASSUME NEW i \in Slots, NEW error \in BOOLEAN, TimerExpires(i, error)
      PROVE  TimersTyped' /\ TimersRight'
  <2>1. i \in DOMAIN timers /\ timers' = RemoveAt(timers, i) /\ single' = single
    BY <1>2 DEF TimerExpires
  <2>2. timers' \in Seq(Timers) /\ Len(timers') = Len(timers) - 1
        /\ \A j \in 1..Len(timers) - 1 :
             timers'[j] = IF j < i THEN timers[j] ELSE timers[j + 1]
    BY <2>1, RemoveAtFacts DEF TimersTyped
  <2>3. \A j \in DOMAIN timers' : \E k \in DOMAIN timers : timers'[j] = timers[k]
    BY <2>1, <2>2 DEF TimersTyped
  <2> QED
    BY <2>1, <2>2, <2>3 DEF TimersTyped, TimersRight
<1> QED
  BY <1>1, <1>2 DEF TimerCall, TimerDispatch

-----------------------------------------------------------------------------
(* References                                                              *)

(* What changes in one element changes its size by at most one.            *)
LEMMA OneElement ==
    ASSUME NEW A, NEW B, NEW x, IsFiniteSet(A), \A y : y # x => (y \in A <=> y \in B)
    PROVE  /\ IsFiniteSet(B)
           /\ Cardinality(A) \in Nat
           /\ Cardinality(B) = Cardinality(A) - (IF x \in A THEN 1 ELSE 0)
                                              + (IF x \in B THEN 1 ELSE 0)
<1>1. Cardinality(A) \in Nat
  BY FS_CardinalityType
<1>2. CASE x \in A <=> x \in B
  BY <1>1, <1>2, A = B
<1>3. CASE x \in A /\ x \notin B
  <2>1. B = A \ {x}
    BY <1>3
  <2> QED
    BY <1>1, <1>3, <2>1, FS_RemoveElement
<1>4. CASE x \notin A /\ x \in B
  <2>1. B = A \cup {x}
    BY <1>4
  <2> QED
    BY <1>1, <1>4, <2>1, FS_AddElement
<1> QED
  BY <1>2, <1>3, <1>4

(* The windows and kinds, and the menus, a closure is registered for.      *)
Registered(c) == { kw \in Kinds \X Ids : hash[kw[1]][kw[2]] = c }
Answers(c) == { m \in DOMAIN callback : callback[m] = c }

LEMMA PlacesFinite ==
    ASSUME MenusTyped, NEW c
    PROVE  IsFiniteSet(Registered(c)) /\ IsFiniteSet(Answers(c))
<1>1. IsFiniteSet(Kinds)
  <2>1. Kinds = {"display"} \cup {"special"}
    BY DEF Kinds
  <2> QED
    BY <2>1, FS_Singleton, FS_AddElement
<1>2. IsFiniteSet(Kinds \X Ids)
  BY <1>1, IdsAssumption, FS_Product
<1>3. Registered(c) \subseteq Kinds \X Ids /\ Answers(c) \subseteq Ids
  BY DEF Registered, Answers, MenusTyped
<1> QED
  BY <1>2, <1>3, IdsAssumption, FS_Subset

LEMMA RefsStay ==
    ASSUME RefsTyped, RefsExact, UNCHANGED <<hash, callback>>,
           \A c \in Closures : /\ refs'[c] - refs[c] = given'[c] - given[c]
                               /\ Cardinality(Registered(c)) \in Nat
                               /\ Cardinality(Answers(c)) \in Nat,
           RefsTyped'
    PROVE  RefsExact'
<1>1. \A c \in Closures : Registered(c)' = Registered(c) /\ Answers(c)' = Answers(c)
  BY DEF Registered, Answers
<1>2. \A c \in Closures :
        refs[c] = Cardinality(Registered(c)) + Cardinality(Answers(c)) + given[c]
  BY DEF RefsExact, Registered, Answers
<1>3. ASSUME NEW c \in Closures
      PROVE  refs'[c] = Cardinality(Registered(c)) + Cardinality(Answers(c)) + given'[c]
  <2> DEFINE n == Cardinality(Registered(c))
             m == Cardinality(Answers(c))
  <2>1. n \in Nat /\ m \in Nat /\ refs[c] = n + m + given[c]
    BY <1>2
  <2> HIDE DEF n, m
  <2>2. /\ refs[c] \in Int /\ refs'[c] \in Int /\ given[c] \in Nat /\ given'[c] \in Nat
        /\ refs'[c] - refs[c] = given'[c] - given[c]
    BY DEF RefsTyped
  <2>3. refs'[c] = n + m + given'[c]
    BY <2>1, <2>2
  <2> QED
    BY <2>3 DEF n, m
<1> QED
  BY <1>1, <1>3 DEF RefsExact, Registered, Answers

LEMMA RefsKeep ==
    ASSUME RefsTyped, RefsExact, WindowsTyped, TimersTyped, MenusTyped, Next
    PROVE  RefsTyped' /\ RefsExact'
<1> DEFINE n(c) == Cardinality(Registered(c))
           m(c) == Cardinality(Answers(c))
<1>1. \A c \in Closures : /\ refs[c] = n(c) + m(c) + given[c]
                          /\ n(c) \in Nat /\ m(c) \in Nat
                          /\ refs[c] \in Int /\ given[c] \in Nat
  BY PlacesFinite, FS_CardinalityType DEF RefsExact, RefsTyped, Registered, Answers
<1>2. ASSUME NEW k \in Kinds, NEW c \in Given, Register(k, c)
      PROVE  RefsTyped' /\ RefsExact'
  <2>1. /\ window \in Ids
        /\ hash' = [hash EXCEPT ![k][window] = c]
        /\ refs' = [d \in Closures |-> refs[d] - (IF d = hash[k][window] THEN 1 ELSE 0)
                                               + (IF d = c THEN 1 ELSE 0)]
        /\ UNCHANGED <<callback, given>>
    BY <1>2 DEF Register, WindowsTyped, menuVars
  <2>2. RefsTyped'
    BY <1>1, <2>1 DEF RefsTyped
  <2>3. ASSUME NEW d \in Closures
        PROVE  refs'[d] = n(d)' + m(d)' + given'[d]
    <3>1. m(d)' = m(d) /\ given' = given
      BY <2>1 DEF Answers
    <3>2. \A kw \in Kinds \X Ids :
            hash'[kw[1]][kw[2]] = IF kw = <<k, window>> THEN c ELSE hash[kw[1]][kw[2]]
      BY <2>1 DEF WindowsTyped
    <3>3. /\ \A y : y # <<k, window>> => (y \in Registered(d) <=> y \in Registered(d)')
          /\ <<k, window>> \in Registered(d) <=> hash[k][window] = d
          /\ <<k, window>> \in Registered(d)' <=> c = d
      BY <2>1, <3>2 DEF Registered
    <3>4. IsFiniteSet(Registered(d))
      BY PlacesFinite
    <3>5. n(d)' = n(d) - (IF d = hash[k][window] THEN 1 ELSE 0) + (IF d = c THEN 1 ELSE 0)
      <4> DEFINE A == Registered(d)
                 B == Registered(d)'
      <4> HIDE DEF A, B
      <4>1. Cardinality(B) = Cardinality(A) - (IF <<k, window>> \in A THEN 1 ELSE 0)
                                            + (IF <<k, window>> \in B THEN 1 ELSE 0)
        BY <3>3, <3>4, OneElement DEF A, B
      <4> QED
        BY <3>3, <4>1 DEF A, B
    <3>6. refs'[d] = refs[d] - (IF d = hash[k][window] THEN 1 ELSE 0) + (IF d = c THEN 1 ELSE 0)
      BY <2>1
    <3> QED
      BY <1>1, <3>1, <3>5, <3>6
  <2> QED
    BY <2>2, <2>3 DEF RefsExact, Registered, Answers
<1>3. ASSUME NEW s \in Singles, NEW c \in Given, SetSingle(s, c), UNCHANGED <<hash, callback>>
      PROVE  RefsTyped' /\ RefsExact'
  <2>1. RefsTyped'
    BY <1>1, <1>3 DEF SetSingle, RefsTyped
  <2>2. \A d \in Closures : refs'[d] - refs[d] = given'[d] - given[d]
    BY <1>1, <1>3 DEF SetSingle
  <2> QED
    BY <1>1, <1>3, <2>1, <2>2, RefsStay
<1>4. ASSUME NEW c \in Closures, CreateMenu(c) PROVE RefsTyped' /\ RefsExact'
  <2>1. PICK x \in Ids \ DOMAIN menus : callback' = Put(callback, x, c)
    BY <1>4 DEF CreateMenu, Free
  <2>2. UNCHANGED <<hash, given>> /\ refs' = [refs EXCEPT ![c] = @ + 1]
    BY <1>4 DEF CreateMenu, winVars
  <2>3. RefsTyped'
    BY <1>1, <2>2 DEF RefsTyped
  <2>4. ASSUME NEW d \in Closures
        PROVE  refs'[d] = n(d)' + m(d)' + given'[d]
    <3>1. n(d)' = n(d) /\ given' = given
      BY <2>2 DEF Registered
    <3>2. /\ x \notin DOMAIN callback /\ DOMAIN callback' = DOMAIN callback \cup {x}
          /\ \A y \in DOMAIN callback' : callback'[y] = IF y = x THEN c ELSE callback[y]
      BY <2>1 DEF Put, MenusTyped
    <3>3. /\ \A y : y # x => (y \in Answers(d) <=> y \in Answers(d)')
          /\ x \notin Answers(d)
          /\ x \in Answers(d)' <=> c = d
      BY <3>2 DEF Answers
    <3>4. IsFiniteSet(Answers(d))
      BY PlacesFinite
    <3>5. m(d)' = m(d) + (IF d = c THEN 1 ELSE 0)
      <4> DEFINE A == Answers(d)
                 B == Answers(d)'
      <4> HIDE DEF A, B
      <4>1. /\ Cardinality(A) \in Nat
            /\ Cardinality(B) = Cardinality(A) - (IF x \in A THEN 1 ELSE 0)
                                            + (IF x \in B THEN 1 ELSE 0)
        BY <3>3, <3>4, OneElement DEF A, B
      <4> QED
        BY <3>3, <4>1 DEF A, B
    <3>6. refs'[d] = refs[d] + (IF d = c THEN 1 ELSE 0)
      BY <1>1, <2>2 DEF RefsTyped
    <3> QED
      BY <1>1, <3>1, <3>5, <3>6
  <2> QED
    BY <2>3, <2>4 DEF RefsExact, Registered, Answers
<1>5. ASSUME NEW x \in Ids, NEW behind \in {0, 1}, DestroyMenu(x, behind) PROVE RefsTyped' /\ RefsExact'
  <2> DEFINE c == callback[x]
  <2>1. x \in DOMAIN callback /\ callback' = Without(callback, x) /\ c \in Closures
    BY <1>5 DEF DestroyMenu, Forget, MenusTyped
  <2>2. UNCHANGED <<hash, given>> /\ refs' = [refs EXCEPT ![c] = @ - 1]
    BY <1>5 DEF DestroyMenu, winVars
  <2>3. RefsTyped'
    BY <1>1, <2>1, <2>2 DEF RefsTyped
  <2>4. ASSUME NEW d \in Closures
        PROVE  refs'[d] = n(d)' + m(d)' + given'[d]
    <3>1. n(d)' = n(d) /\ given' = given
      BY <2>2 DEF Registered
    <3>2. /\ DOMAIN callback' = DOMAIN callback \ {x}
          /\ \A y \in DOMAIN callback' : callback'[y] = callback[y]
      BY <2>1 DEF Without
    <3>3. /\ \A y : y # x => (y \in Answers(d) <=> y \in Answers(d)')
          /\ x \in Answers(d) <=> c = d
          /\ x \notin Answers(d)'
      BY <2>1, <3>2 DEF Answers
    <3>4. IsFiniteSet(Answers(d))
      BY PlacesFinite
    <3>5. m(d)' = m(d) - (IF d = c THEN 1 ELSE 0)
      <4> DEFINE A == Answers(d)
                 B == Answers(d)'
      <4> HIDE DEF A, B
      <4>1. /\ Cardinality(A) \in Nat
            /\ Cardinality(B) = Cardinality(A) - (IF x \in A THEN 1 ELSE 0)
                                            + (IF x \in B THEN 1 ELSE 0)
        BY <3>3, <3>4, OneElement DEF A, B
      <4> QED
        BY <3>3, <4>1 DEF A, B
    <3>6. refs'[d] = refs[d] - (IF d = c THEN 1 ELSE 0)
      BY <1>1, <2>1, <2>2 DEF RefsTyped
    <3> QED
      BY <1>1, <3>1, <3>5, <3>6
  <2> QED
    BY <2>3, <2>4 DEF RefsExact, Registered, Answers
<1>6. \/ UNCHANGED <<hash, callback, refs, given>>
      \/ \E k \in Kinds, c \in Given : Register(k, c)
      \/ \E s \in Singles, c \in Given : SetSingle(s, c) /\ UNCHANGED <<hash, callback>>
      \/ \E c \in Closures : CreateMenu(c)
      \/ \E x \in Ids, behind \in {0, 1} : DestroyMenu(x, behind)
  <2>1. CASE WindowCall \/ WindowDispatch
    BY <2>1 DEF WindowCall, WindowDispatch, CreateWindow, DestroyWindow, SetWindow, Dispatch,
                menuVars
  <2>2. CASE SingleCall \/ SingleDispatch
    BY <2>2 DEF SingleCall, SingleDispatch, IdleFunc, MenuStateFunc, SingleEvent, Singles,
                winVars, menuVars
  <2>3. CASE TimerCall \/ TimerDispatch
    BY <2>3 DEF TimerCall, TimerDispatch, TimerFunc, TimerExpires, Singles, winVars, menuVars
  <2>4. CASE MenuCall \/ MenuDispatch
    BY <2>4 DEF MenuCall, MenuDispatch, SetMenu, AddSubMenu, AddMenuEntry, ChangeToMenuEntry,
                ChangeToSubMenu, RemoveMenuItem, Select, winVars
  <2> QED
    BY <2>1, <2>2, <2>3, <2>4, Steps
<1>7. CASE UNCHANGED <<hash, callback, refs, given>>
  BY <1>1, <1>7, RefsStay DEF RefsTyped
<1> QED
  BY <1>2, <1>3, <1>4, <1>5, <1>6, <1>7

-----------------------------------------------------------------------------
(* Menus                                                                   *)

LEMMA MenuOwn ==
    ASSUME MenusTyped, NEW n \in DOMAIN menus
    PROVE  /\ menus[n] \in Seq(Items) /\ DOMAIN menus[n] = 1..Len(menus[n])
           /\ Len(menus[n]) \in Nat
           /\ stack[n].ptr \in Int /\ stack[n].at \in [Slots -> Nat]
           /\ stack[n] = [ptr |-> stack[n].ptr, at |-> stack[n].at]
           /\ callback[n] \in Closures
           /\ \A i \in DOMAIN menus[n] :
                \/ menus[n][i] = SubMenu
                \/ menus[n][i] \in [what : {"entry"}, value : Nat, parameter : Parameters]
  BY DEF MenusTyped, Items, Stacks

LEMMA PairFacts ==
    ASSUME MenusTyped
    PROVE  /\ DOMAIN heap = 1..Len(heap) /\ Len(heap) \in Nat
           /\ \A g \in DOMAIN heap : heap[g] \in Pairs
  BY DEF MenusTyped

(* A menu nobody touches stays right if its pairs do.                      *)
LEMMA MenuStays ==
    ASSUME NEW n \in DOMAIN menus, MenuRight(n), MenusTyped, n \in DOMAIN menus',
           menus'[n] = menus[n], stack'[n] = stack[n],
           n \in mixed => n \in mixed', n \in removed => n \in removed',
           calls \in Nat, calls' \in Nat, calls <= calls',
           \A g \in DOMAIN heap : heap[g].menu = n => g \in DOMAIN heap' /\ heap'[g] = heap[g]
    PROVE  MenuRight(n)'
<1>1. Own(n)'
  BY DEF MenuRight, Own
<1>2. Bounded(n)'
  BY MenuOwn DEF MenuRight, Bounded
<1>3. ASSUME n \notin mixed' PROVE Beside(n)'
  <2>1. Beside(n)
    BY <1>3 DEF MenuRight
  <2>2. DOMAIN menus[n] \subseteq Slots
    BY MenuOwn, IdsAssumption DEF MenuRight, Bounded, MenusTyped, Slots
  <2>3. \A i \in DOMAIN menus[n] : heap'[stack[n].at[i]] = heap[stack[n].at[i]]
    BY <2>1, <2>2 DEF MenuRight, Own, Beside
  <2> QED
    BY <2>1, <2>3 DEF Beside
<1>4. ASSUME n \notin removed' PROVE Whole(n)'
  BY <1>4, MenuOwn DEF MenuRight, Own, Whole
<1> QED
  BY <1>1, <1>2, <1>3, <1>4 DEF MenuRight

IMenus == MenusTyped /\ MenusRight /\ FaultsRight

(* The calls of the script are counted.                                    *)
LEMMA CallFacts ==
    ASSUME Call, MenusTyped
    PROVE  /\ calls \in Nat /\ calls' = calls + 1 /\ calls' \in 0..MaxCalls
           /\ calls + 1 \in Slots
           /\ state = "runs" /\ Going
  BY IdsAssumption DEF Call, MenusTyped, Slots, Going

LEMMA OthersKeepMenus ==
    ASSUME IMenus, UNCHANGED menuVars, calls' \in Nat, calls <= calls', calls' <= MaxCalls,
           state' # state => state = "runs" /\ state' \in {"exit", "null-closure"}
    PROVE  IMenus'
<1>1. MenusTyped'
  BY DEF IMenus, MenusTyped, menuVars
<1>2. MenusRight'
  <2>1. calls \in Nat /\ UNCHANGED <<menus, callback, stack, heap, mixed, removed>>
    BY IdsAssumption DEF IMenus, MenusTyped, menuVars
  <2>2. \A m \in DOMAIN menus : MenuRight(m) => MenuRight(m)'
    BY <2>1, MenuStays DEF IMenus
  <2> QED
    BY <2>1, <2>2 DEF IMenus, MenusRight, Going
<1>3. FaultsRight'
  BY DEF IMenus, FaultsRight, menuVars
<1> QED
  BY <1>1, <1>2, <1>3 DEF IMenus

LEMMA CreateMenuKeeps ==
    ASSUME IMenus, NEW c \in Closures, CreateMenu(c)
    PROVE  IMenus'
<1> DEFINE fresh == [ptr |-> 0, at |-> [i \in Slots |-> 0]]
<1>1. PICK m \in Ids \ DOMAIN menus :
         /\ menus' = Put(menus, m, <<>>) /\ menu' = m
         /\ callback' = Put(callback, m, c)
         /\ stack' = Put(stack, m, fresh)
         /\ mixed' = mixed \ {m} /\ removed' = removed \ {m}
  BY DEF CreateMenu, Free
<1>2. /\ Call /\ MenusTyped /\ heap' = heap /\ state' = state
      /\ \A n \in DOMAIN menus : MenuRight(n)
  BY CallFacts DEF CreateMenu, IMenus, MenusRight
<1>3. fresh \in Stacks /\ fresh.ptr = 0 /\ \A i \in Slots : fresh.at[i] = 0
  BY DEF Stacks
<1> HIDE DEF fresh
<1>4. /\ DOMAIN menus' = DOMAIN menus \cup {m} /\ menus' \in [DOMAIN menus' -> Seq(Items)]
      /\ menus'[m] = <<>> /\ \A n \in DOMAIN menus : menus'[n] = menus[n]
  <2>1. menus \in [DOMAIN menus -> Seq(Items)] /\ <<>> \in Seq(Items)
    BY <1>2 DEF MenusTyped
  <2>2. /\ Put(menus, m, <<>>) \in [DOMAIN menus \cup {m} -> Seq(Items)]
        /\ Put(menus, m, <<>>)[m] = <<>>
        /\ \A n \in DOMAIN menus : n # m => Put(menus, m, <<>>)[n] = menus[n]
    BY <2>1 DEF Put
  <2> QED
    BY <1>1, <2>2
<1>5. stack' \in [DOMAIN menus' -> Stacks] /\ stack'[m] = fresh
      /\ \A n \in DOMAIN menus : stack'[n] = stack[n]
  <2>1. stack \in [DOMAIN menus -> Stacks]
    BY <1>2 DEF MenusTyped
  <2>2. /\ Put(stack, m, fresh) \in [DOMAIN menus \cup {m} -> Stacks]
        /\ Put(stack, m, fresh)[m] = fresh
        /\ \A n \in DOMAIN menus : n # m => Put(stack, m, fresh)[n] = stack[n]
    BY <1>3, <2>1 DEF Put
  <2> QED
    BY <1>1, <1>4, <2>2
<1>6. callback' \in [DOMAIN menus' -> Closures]
  <2>1. callback \in [DOMAIN menus -> Closures]
    BY <1>2 DEF MenusTyped
  <2>2. callback' \in [DOMAIN menus \cup {m} -> Closures]
    BY <1>1, <2>1 DEF Put
  <2> QED
    BY <1>4, <2>2
<1>7. MenusTyped'
  BY <1>1, <1>2, <1>4, <1>5, <1>6, CallFacts DEF MenusTyped
<1>8. MenuRight(m)'
  BY <1>2, <1>3, <1>4, <1>5, CallFacts DEF MenuRight, Own, Bounded, Beside, Whole
<1>9. ASSUME NEW n \in DOMAIN menus PROVE MenuRight(n)'
  BY <1>1, <1>2, <1>4, <1>5, CallFacts, MenuStays
<1> QED
  BY <1>2, <1>4, <1>7, <1>8, <1>9, CallFacts DEF IMenus, MenusRight, FaultsRight

LEMMA DestroyMenuKeeps ==
    ASSUME IMenus, NEW m \in Ids, NEW behind \in {0, 1}, DestroyMenu(m, behind)
    PROVE  IMenus'
<1> DEFINE held == { i \in Slots : stack[m].at[i] # 0 }
           freed == { stack[m].at[i] : i \in held }
<1>1. /\ Call /\ MenusTyped /\ m \in DOMAIN menus
      /\ UNCHANGED <<mixed, removed>>
      /\ menus' = Without(menus, m) /\ menu' = IF menu = m THEN 0 ELSE menu
      /\ callback' = Without(callback, m) /\ stack' = Without(stack, m)
      /\ \A n \in DOMAIN menus : MenuRight(n)
  BY CallFacts DEF DestroyMenu, Forget, IMenus, MenusRight
<1>2. /\ heap' = [g \in DOMAIN heap |-> IF g \in freed THEN [heap[g] EXCEPT !.live = FALSE]
                                        ELSE heap[g]]
      /\ state' = IF \/ \E g \in freed : ~heap[g].live
                     \/ \E i, j \in held : i # j /\ stack[m].at[i] = stack[m].at[j]
                  THEN "freed-twice"
                  ELSE IF behind = 0 THEN state ELSE "freed-behind"
  BY DEF DestroyMenu, FreeEntries
<1>3. heap' \in Seq(Pairs) /\ DOMAIN heap' = DOMAIN heap
  <2>1. ASSUME NEW g \in DOMAIN heap PROVE heap'[g] \in Pairs
    <3>1. heap[g] \in Pairs /\ FALSE \in BOOLEAN
      BY <1>1, PairFacts
    <3>2. [heap[g] EXCEPT !.live = FALSE] \in Pairs
      BY <3>1, Zenon DEF Pairs
    <3> QED
      BY <1>2, <3>1, <3>2
  <2> QED
    <3>1. DOMAIN heap = 1..Len(heap) /\ Len(heap) \in Nat
      BY <1>1, PairFacts
    <3>2. heap' \in [1..Len(heap) -> Pairs]
      BY <1>2, <2>1, <3>1
    <3> QED
      BY <3>1, <3>2
<1>4. /\ DOMAIN menus' = DOMAIN menus \ {m} /\ menus' \in [DOMAIN menus' -> Seq(Items)]
      /\ \A n \in DOMAIN menus' : menus'[n] = menus[n]
  <2>1. menus \in [DOMAIN menus -> Seq(Items)]
    BY <1>1 DEF MenusTyped
  <2>2. /\ Without(menus, m) \in [DOMAIN menus \ {m} -> Seq(Items)]
        /\ \A n \in DOMAIN menus \ {m} : Without(menus, m)[n] = menus[n]
    BY <2>1 DEF Without
  <2> QED
    BY <1>1, <2>2
<1>5. stack' \in [DOMAIN menus' -> Stacks] /\ \A n \in DOMAIN menus' : stack'[n] = stack[n]
  <2>1. stack \in [DOMAIN menus -> Stacks]
    BY <1>1 DEF MenusTyped
  <2>2. /\ Without(stack, m) \in [DOMAIN menus \ {m} -> Stacks]
        /\ \A n \in DOMAIN menus \ {m} : Without(stack, m)[n] = stack[n]
    BY <2>1 DEF Without
  <2> QED
    BY <1>1, <1>4, <2>2
<1>6. callback' \in [DOMAIN menus' -> Closures]
  <2>1. callback \in [DOMAIN menus -> Closures]
    BY <1>1 DEF MenusTyped
  <2>2. callback' \in [DOMAIN menus \ {m} -> Closures]
    BY <1>1, <2>1 DEF Without
  <2> QED
    BY <1>4, <2>2
<1>7. MenusTyped'
  BY <1>1, <1>3, <1>4, <1>5, <1>6, CallFacts DEF MenusTyped
<1>8. \A g \in freed : g \in DOMAIN heap /\ heap[g].menu = m
  BY <1>1 DEF MenuRight, Own
<1>9. ASSUME NEW n \in DOMAIN menus' PROVE MenuRight(n)'
  <2>1. \A g \in DOMAIN heap : heap[g].menu = n => g \in DOMAIN heap' /\ heap'[g] = heap[g]
    BY <1>2, <1>4, <1>8
  <2> QED
    BY <1>1, <1>4, <1>5, <2>1, CallFacts, MenuStays
<1>10. m \notin removed => state' # "freed-twice"
  BY <1>1, <1>2, CallFacts DEF MenuRight, Whole
<1>11. FaultsRight'
  BY <1>1, <1>2, <1>10, CallFacts DEF FaultsRight
<1> QED
  BY <1>7, <1>9, <1>11 DEF IMenus, MenusRight

LEMMA SetMenuKeeps ==
    ASSUME IMenus, NEW m \in Ids, SetMenu(m)
    PROVE  IMenus'
<1>1. /\ Call /\ MenusTyped /\ m \in DOMAIN menus /\ menu' = m
      /\ UNCHANGED <<menus, callback, stack, heap, mixed, removed, state>>
      /\ \A n \in DOMAIN menus : MenuRight(n)
  BY CallFacts DEF SetMenu, IMenus, MenusRight
<1>2. MenusTyped'
  BY <1>1, CallFacts DEF MenusTyped
<1>3. \A n \in DOMAIN menus : MenuRight(n)'
  BY <1>1, CallFacts, MenuStays
<1> QED
  BY <1>1, <1>2, <1>3, CallFacts DEF IMenus, MenusRight, FaultsRight

(* What the script does to the current menu.                               *)
LEMMA OneMenu ==
    ASSUME IMenus, Call, NEW m \in DOMAIN menus, menu = m,
           UNCHANGED <<menu, callback>>,
           mixed \subseteq mixed', mixed' \subseteq mixed \cup {m},
           removed \subseteq removed', removed' \subseteq removed \cup {m},
           NEW list \in Seq(Items), menus' = [menus EXCEPT ![m] = list],
           NEW slots \in Stacks, stack' = [stack EXCEPT ![m] = slots],
           heap' \in Seq(Pairs),
           \A g \in DOMAIN heap : heap[g].menu # m => g \in DOMAIN heap' /\ heap'[g] = heap[g],
           Going' => MenuRight(m)', FaultsRight'
    PROVE  IMenus'
<1>1. MenusTyped /\ \A n \in DOMAIN menus : MenuRight(n)
  BY CallFacts DEF IMenus, MenusRight
<1>2. MenusTyped'
  <2>1. DOMAIN menus' = DOMAIN menus /\ menus' \in [DOMAIN menus -> Seq(Items)]
    BY <1>1 DEF MenusTyped
  <2>2. stack' \in [DOMAIN menus -> Stacks]
    BY <1>1 DEF MenusTyped
  <2> QED
    BY <1>1, <2>1, <2>2, CallFacts DEF MenusTyped
<1>3. ASSUME NEW n \in DOMAIN menus, n # m PROVE MenuRight(n)'
  <2>1. menus'[n] = menus[n] /\ stack'[n] = stack[n] /\ n \in DOMAIN menus'
    BY <1>1, <1>3 DEF MenusTyped
  <2>2. \A g \in DOMAIN heap : heap[g].menu = n => g \in DOMAIN heap' /\ heap'[g] = heap[g]
    BY <1>3
  <2> QED
    BY <1>1, <1>3, <2>1, <2>2, CallFacts, MenuStays
<1>4. MenusRight'
  BY <1>1, <1>3 DEF MenusRight, MenusTyped
<1> QED
  BY <1>2, <1>4 DEF IMenus

(* The current menu, its stack and its list.                               *)
LEMMA CurrentMenu ==
    ASSUME IMenus, Call, menu # 0
    PROVE  \E m \in DOMAIN menus, ptr \in Nat, at \in [Slots -> Nat], items \in Seq(Items) :
             /\ menu = m /\ menus[m] = items
             /\ stack[m] = [ptr |-> ptr, at |-> at] /\ stack[m].ptr = ptr /\ stack[m].at = at
             /\ ptr <= calls /\ Len(items) <= calls
             /\ DOMAIN items = 1..Len(items) /\ Len(items) \in Nat
             /\ MenuRight(m)
<1>1. MenusTyped /\ menu \in DOMAIN menus /\ MenuRight(menu) /\ calls \in Nat
  BY CallFacts DEF IMenus, MenusRight, MenusTyped
<1>2. /\ stack[menu].ptr \in Nat /\ stack[menu].at \in [Slots -> Nat]
      /\ menus[menu] \in Seq(Items)
      /\ stack[menu] = [ptr |-> stack[menu].ptr, at |-> stack[menu].at]
      /\ stack[menu].ptr <= calls /\ Len(menus[menu]) <= calls
      /\ DOMAIN menus[menu] = 1..Len(menus[menu]) /\ Len(menus[menu]) \in Nat
  BY <1>1, MenuOwn DEF MenuRight, Bounded
<1> QED
  BY <1>1, <1>2, Zenon

LEMMA AppendItem ==
    ASSUME NEW s \in Seq(Items), NEW x \in Items
    PROVE  /\ Append(s, x) \in Seq(Items)
           /\ Len(Append(s, x)) = Len(s) + 1 /\ Len(s) \in Nat
           /\ DOMAIN Append(s, x) = 1..Len(s) + 1
           /\ Append(s, x)[Len(s) + 1] = x
           /\ \A i \in 1..Len(s) : Append(s, x)[i] = s[i]
  OBVIOUS

LEMMA AddSubMenuKeeps ==
    ASSUME IMenus, AddSubMenu
    PROVE  IMenus'
<1>1. PICK m \in DOMAIN menus, ptr \in Nat, at \in [Slots -> Nat], items \in Seq(Items) :
         /\ menu = m /\ menus[m] = items
         /\ stack[m] = [ptr |-> ptr, at |-> at] /\ stack[m].ptr = ptr /\ stack[m].at = at
         /\ ptr <= calls /\ Len(items) <= calls
         /\ DOMAIN items = 1..Len(items) /\ Len(items) \in Nat
         /\ MenuRight(m)
  BY CurrentMenu DEF AddSubMenu
<1> DEFINE list == Append(items, SubMenu)
<1>2. /\ Call /\ MenusTyped
      /\ UNCHANGED <<menu, callback, stack, heap, removed, state>>
      /\ menus' = [menus EXCEPT ![m] = list] /\ mixed' = mixed \cup {m}
  BY <1>1 DEF AddSubMenu, IMenus, MenusTyped
<1>3. /\ list \in Seq(Items) /\ Len(list) = Len(items) + 1
      /\ \A i \in DOMAIN list : \/ i \in DOMAIN items /\ list[i] = items[i]
                                \/ list[i].what = "submenu"
  <2>1. SubMenu \in Items /\ SubMenu.what = "submenu"
    BY DEF Items, SubMenu
  <2> QED
    BY <1>1, <2>1, AppendItem
<1> HIDE DEF list
<1>4. menus'[m] = list /\ stack' = [stack EXCEPT ![m] = stack[m]] /\ stack[m] \in Stacks
  BY <1>2 DEF MenusTyped
<1>5. MenuRight(m)'
  <2>1. Own(m)'
    BY <1>1, <1>2, <1>3, <1>4 DEF MenuRight, Own
  <2>2. Bounded(m)'
    BY <1>1, <1>2, <1>3, <1>4, CallFacts DEF MenuRight, Bounded
  <2>3. m \notin removed' => Whole(m)'
    BY <1>1, <1>2, <1>3, <1>4 DEF MenuRight, Whole
  <2> QED
    BY <1>2, <2>1, <2>2, <2>3 DEF MenuRight
<1>6. FaultsRight' /\ heap' \in Seq(Pairs)
  BY <1>2, CallFacts DEF FaultsRight, MenusTyped
<1> QED
  BY <1>1, <1>2, <1>3, <1>4, <1>5, <1>6, OneMenu

LEMMA ChangeToSubMenuKeeps ==
    ASSUME IMenus, NEW i \in Slots, ChangeToSubMenu(i)
    PROVE  IMenus'
<1>1. PICK m \in DOMAIN menus, ptr \in Nat, at \in [Slots -> Nat], items \in Seq(Items) :
         /\ menu = m /\ menus[m] = items
         /\ stack[m] = [ptr |-> ptr, at |-> at] /\ stack[m].ptr = ptr /\ stack[m].at = at
         /\ ptr <= calls /\ Len(items) <= calls
         /\ DOMAIN items = 1..Len(items) /\ Len(items) \in Nat
         /\ MenuRight(m)
  BY CurrentMenu DEF ChangeToSubMenu
<1> DEFINE list == [items EXCEPT ![i] = SubMenu]
<1>2. /\ Call /\ MenusTyped
      /\ UNCHANGED <<menu, callback, stack, heap, mixed, removed, state>>
      /\ i \in DOMAIN items
      /\ menus' = [menus EXCEPT ![m] = list]
  BY <1>1 DEF ChangeToSubMenu, IMenus, MenusTyped
<1>3. /\ list \in Seq(Items) /\ Len(list) = Len(items) /\ DOMAIN list = DOMAIN items
      /\ \A j \in DOMAIN list : list[j] = items[j] \/ list[j].what = "submenu"
  BY <1>2 DEF Items, SubMenu
<1> HIDE DEF list
<1>4. menus'[m] = list /\ stack' = [stack EXCEPT ![m] = stack[m]] /\ stack[m] \in Stacks
  BY <1>2 DEF MenusTyped
<1>5. MenuRight(m)'
  <2>1. Own(m)'
    BY <1>1, <1>2, <1>3, <1>4 DEF MenuRight, Own
  <2>2. Bounded(m)'
    BY <1>1, <1>2, <1>3, <1>4, CallFacts DEF MenuRight, Bounded
  <2>3. ASSUME m \notin mixed' PROVE Beside(m)'
    <3>1. /\ stack'[m] = stack[m] /\ heap' = heap /\ Beside(m)
          /\ DOMAIN menus'[m] = DOMAIN items /\ Len(menus'[m]) = Len(items)
      BY <1>1, <1>2, <1>3, <1>4, <2>3 DEF MenuRight
    <3> QED
      BY <1>1, <1>3, <1>4, <3>1 DEF Beside
  <2>4. m \notin removed' => Whole(m)'
    BY <1>1, <1>2, <1>3, <1>4 DEF MenuRight, Whole
  <2> QED
    BY <2>1, <2>2, <2>3, <2>4 DEF MenuRight
<1>6. FaultsRight' /\ heap' \in Seq(Pairs)
  BY <1>2, CallFacts DEF FaultsRight, MenusTyped
<1> QED
  BY <1>1, <1>2, <1>3, <1>4, <1>5, <1>6, OneMenu

LEMMA AddMenuEntryKeeps ==
    ASSUME IMenus, NEW p \in Parameters, AddMenuEntry(p)
    PROVE  IMenus'
<1>1. /\ Call /\ MenusTyped /\ menu \in DOMAIN menus \cup {0}
      /\ UNCHANGED <<menu, callback, mixed, removed, state>>
      /\ heap' = Append(heap, Pair(p))
      /\ \A n \in DOMAIN menus : MenuRight(n)
  BY CallFacts DEF AddMenuEntry, IMenus, MenusRight, MenusTyped
<1>2. PICK g \in Nat \ {0} : g = Len(heap) + 1
  BY <1>1 DEF MenusTyped
<1>3. /\ heap' \in Seq(Pairs) /\ DOMAIN heap \subseteq DOMAIN heap'
      /\ g \in DOMAIN heap' /\ g \notin DOMAIN heap
      /\ \A h \in DOMAIN heap : heap'[h] = heap[h]
      /\ heap'[g].menu = menu /\ heap'[g].parameter = p /\ heap'[g].live
  <2>1. Pair(p) \in Pairs
    BY <1>1, IdsAssumption DEF Pair, Pairs, MenusTyped
  <2>2. heap \in Seq(Pairs)
    BY <1>1 DEF MenusTyped
  <2>3. /\ heap' \in Seq(Pairs) /\ DOMAIN heap \subseteq DOMAIN heap'
        /\ g \in DOMAIN heap' /\ g \notin DOMAIN heap
        /\ \A h \in DOMAIN heap : heap'[h] = heap[h]
        /\ heap'[g] = Pair(p)
    BY <1>1, <1>2, <2>1, <2>2
  <2> QED
    BY <2>3 DEF Pair
<1>4. FaultsRight'
  BY <1>1, CallFacts DEF FaultsRight
<1>5. CASE menu = 0
  <2>1. UNCHANGED <<stack, menus>>
    BY <1>5 DEF AddMenuEntry
  <2>2. MenusTyped'
    BY <1>1, <1>3, <2>1, CallFacts DEF MenusTyped
  <2>3. \A n \in DOMAIN menus : MenuRight(n)'
    BY <1>1, <1>3, <2>1, CallFacts, MenuStays
  <2> QED
    BY <1>4, <2>1, <2>2, <2>3 DEF IMenus, MenusRight
<1>6. CASE menu # 0
  <2>1. PICK m \in DOMAIN menus, ptr \in Nat, at \in [Slots -> Nat], items \in Seq(Items) :
           /\ menu = m /\ menus[m] = items
           /\ stack[m] = [ptr |-> ptr, at |-> at] /\ stack[m].ptr = ptr /\ stack[m].at = at
           /\ ptr <= calls /\ Len(items) <= calls
           /\ DOMAIN items = 1..Len(items) /\ Len(items) \in Nat
           /\ MenuRight(m)
    BY <1>1, <1>6, CurrentMenu
  <2>2. PICK top \in Slots : top = ptr + 1
    BY <1>1, <2>1, CallFacts, IdsAssumption DEF Slots
  <2> DEFINE slots == [ptr |-> top, at |-> [at EXCEPT ![top] = g]]
             item == Item(g, p)
             list == Append(items, item)
  <2>3. item \in Items /\ item.value = g /\ item.parameter = p /\ item.what = "entry"
    BY DEF Items, Item
  <2>4. /\ list \in Seq(Items) /\ Len(list) = Len(items) + 1
        /\ DOMAIN list = 1..Len(items) + 1 /\ list[Len(items) + 1] = item
        /\ \A i \in 1..Len(items) : list[i] = items[i]
    BY <2>3, AppendItem
  <2>5. /\ slots \in Stacks /\ slots.ptr = top
        /\ slots.at[top] = g /\ \A i \in Slots \ {top} : slots.at[i] = at[i]
    BY <2>2 DEF Stacks, Slots
  <2>6. menus' = [menus EXCEPT ![m] = list]
    BY <1>2, <1>6, <2>1 DEF AddMenuEntry
  <2>7. stack' = [stack EXCEPT ![m] = slots]
    BY <1>2, <1>6, <2>1, <2>2 DEF AddMenuEntry
  <2> HIDE DEF slots, list, item
  <2>8. menus'[m] = list /\ stack'[m] = slots
    BY <1>1, <2>6, <2>7 DEF MenusTyped
  <2>9. Own(m)'
    <3>1. Own(m)
      BY <2>1 DEF MenuRight
    <3>2. \A i \in Slots : slots.at[i] # 0 =>
             slots.at[i] \in DOMAIN heap' /\ heap'[slots.at[i]].menu = m
      BY <1>3, <2>1, <2>5, <3>1 DEF Own
    <3>3. \A i \in DOMAIN list : list[i].what = "entry" =>
             list[i].value \in DOMAIN heap' /\ heap'[list[i].value].menu = m
      BY <1>3, <2>1, <2>3, <2>4, <3>1 DEF Own
    <3> QED
      BY <2>8, <3>2, <3>3 DEF Own
  <2>10. Bounded(m)'
    BY <1>1, <2>1, <2>2, <2>4, <2>5, <2>8, CallFacts DEF Bounded
  <2>11. ASSUME m \notin mixed' PROVE Beside(m)'
    <3>1. Beside(m) /\ Own(m)
      BY <1>1, <2>1, <2>11 DEF MenuRight
    <3>2. top = Len(items) + 1
      BY <2>1, <2>2, <3>1 DEF Beside
    <3>3. \A i \in 1..Len(items) :
             /\ i \in Slots \ {top}
             /\ slots.at[i] = at[i] /\ at[i] \in DOMAIN heap /\ at[i] # g
             /\ heap'[at[i]] = heap[at[i]]
      <4>1. \A i \in 1..Len(items) : i \in Slots \ {top}
        BY <2>1, <2>2, <3>2, IdsAssumption DEF Slots
      <4> QED
        BY <1>3, <2>1, <2>5, <3>1, <4>1 DEF Beside, Own
    <3>4. slots.ptr = Len(list) /\ list[top] = item /\ slots.at[top] = g
      BY <2>4, <2>5, <3>2
    <3>5. ASSUME NEW i \in 1..Len(items)
          PROVE  /\ slots.at[i] # 0 /\ heap'[slots.at[i]].live
                 /\ list[i].what = "entry" => /\ list[i].value = slots.at[i]
                                              /\ heap'[slots.at[i]].parameter = list[i].parameter
                 /\ \A j \in 1..Len(items) : j # i => slots.at[j] # slots.at[i]
                 /\ slots.at[top] # slots.at[i]
      BY <2>1, <2>4, <3>1, <3>3, <3>4 DEF Beside
    <3>6. DOMAIN list = 1..Len(items) \cup {top}
      BY <2>1, <2>4, <3>2
    <3> QED
      BY <1>3, <2>3, <2>8, <3>4, <3>5, <3>6 DEF Beside
  <2>12. ASSUME m \notin removed' PROVE Whole(m)'
    <3>1. Whole(m) /\ Own(m)
      BY <1>1, <2>1, <2>12 DEF MenuRight
    <3>2. \A i \in Slots : slots.at[i] # 0 =>
             /\ heap'[slots.at[i]].live
             /\ \A j \in Slots : j # i => slots.at[j] # slots.at[i]
      BY <1>3, <2>1, <2>5, <3>1 DEF Whole, Own
    <3>3. \A i \in DOMAIN list : list[i].what = "entry" => heap'[list[i].value].live
      BY <1>3, <2>1, <2>3, <2>4, <3>1 DEF Whole, Own
    <3> QED
      BY <2>8, <3>2, <3>3 DEF Whole
  <2>13. MenuRight(m)'
    BY <2>9, <2>10, <2>11, <2>12 DEF MenuRight
  <2> QED
    BY <1>1, <1>3, <1>4, <2>1, <2>4, <2>5, <2>6, <2>7, <2>13, OneMenu
<1> QED
  BY <1>5, <1>6

LEMMA ChangeToMenuEntryKeeps ==
    ASSUME IMenus, NEW i \in Slots, NEW p \in Parameters, ChangeToMenuEntry(i, p)
    PROVE  IMenus'
<1>1. PICK m \in DOMAIN menus, ptr \in Nat, at \in [Slots -> Nat], items \in Seq(Items) :
         /\ menu = m /\ menus[m] = items
         /\ stack[m] = [ptr |-> ptr, at |-> at] /\ stack[m].ptr = ptr /\ stack[m].at = at
         /\ ptr <= calls /\ Len(items) <= calls
         /\ DOMAIN items = 1..Len(items) /\ Len(items) \in Nat
         /\ MenuRight(m)
  BY CurrentMenu DEF ChangeToMenuEntry
<1>2. /\ Call /\ MenusTyped /\ UNCHANGED <<menu, callback, mixed, removed>>
      /\ i \in DOMAIN items
  BY <1>1 DEF ChangeToMenuEntry, IMenus
<1>3. PICK old \in Nat, fresh \in Nat \ {0} : old = at[i] /\ fresh = Len(heap) + 1
  BY <1>2 DEF MenusTyped
<1>4. PICK g \in Nat \ {0} : g = IF old = 0 THEN fresh ELSE old
  OBVIOUS
<1> DEFINE slots == [ptr |-> ptr, at |-> [at EXCEPT ![i] = g]]
           item == Item(g, p)
           list == [items EXCEPT ![i] = item]
<1>5. /\ heap' = IF old = 0 THEN Append(heap, Pair(p))
                 ELSE [heap EXCEPT ![g].menu = m, ![g].parameter = p]
      /\ state' = IF old # 0 /\ ~heap[old].live THEN "used-after-free" ELSE state
      /\ stack' = [stack EXCEPT ![m].at[i] = g]
      /\ menus' = [menus EXCEPT ![m] = list]
  BY <1>1, <1>3, <1>4 DEF ChangeToMenuEntry
<1>6. stack' = [stack EXCEPT ![m] = slots]
  <2>1. stack' = [stack EXCEPT ![m] = [stack[m] EXCEPT !.at[i] = g]]
    BY <1>5
  <2> DEFINE new == [at EXCEPT ![i] = g]
  <2>2. [stack[m] EXCEPT !.at[i] = g] = [stack[m] EXCEPT !.at = new]
    BY <1>1
  <2>3. slots = [ptr |-> ptr, at |-> new]
    OBVIOUS
  <2> HIDE DEF new, slots
  <2>4. [stack[m] EXCEPT !.at = new] = slots
    BY <1>1, <2>3
  <2> QED
    BY <2>1, <2>2, <2>4
<1>7. item \in Items /\ item.value = g /\ item.parameter = p /\ item.what = "entry"
  BY DEF Items, Item
<1>8. /\ list \in Seq(Items) /\ Len(list) = Len(items) /\ DOMAIN list = DOMAIN items
      /\ list[i] = item /\ \A j \in DOMAIN items : j # i => list[j] = items[j]
  BY <1>2, <1>7
<1>9. /\ slots \in Stacks /\ slots.ptr = ptr
      /\ slots.at[i] = g /\ \A j \in Slots \ {i} : slots.at[j] = at[j]
  BY DEF Stacks
<1> HIDE DEF slots, list, item
<1>10. menus'[m] = list /\ stack'[m] = slots
  BY <1>2, <1>5, <1>6 DEF MenusTyped
<1>11. old # 0 => old \in DOMAIN heap /\ heap[old].menu = m
  BY <1>1, <1>3 DEF MenuRight, Own
(* The entry that is used again, or is new.                                *)
<1>12. /\ heap' \in Seq(Pairs) /\ DOMAIN heap \subseteq DOMAIN heap'
       /\ \A h \in DOMAIN heap : h # g => heap'[h] = heap[h]
       /\ g \in DOMAIN heap' /\ heap'[g].menu = m /\ heap'[g].parameter = p
       /\ old = 0 => heap'[g].live /\ g \notin DOMAIN heap
       /\ old # 0 => g = old /\ heap'[g].live = heap[g].live
  <2>1. heap \in Seq(Pairs) /\ m \in Nat /\ Pair(p) \in Pairs
    BY <1>1, <1>2, IdsAssumption DEF MenusTyped, Pairs, Pair
  <2>2. CASE old = 0
    BY <1>1, <1>3, <1>4, <1>5, <2>1, <2>2 DEF Pair
  <2>3. CASE old # 0
    <3>1. g = old /\ g \in DOMAIN heap
      BY <1>4, <1>11, <2>3
    <3>2. heap[g] \in Pairs
      BY <2>1, <3>1
    <3>3. heap' = [heap EXCEPT ![g] = [heap[g] EXCEPT !.menu = m, !.parameter = p]]
      BY <1>5, <2>3
    <3>4. [heap[g] EXCEPT !.menu = m, !.parameter = p] \in Pairs
      BY <2>1, <3>2 DEF Pairs
    <3>5. /\ heap' \in Seq(Pairs) /\ DOMAIN heap' = DOMAIN heap
          /\ \A h \in DOMAIN heap : h # g => heap'[h] = heap[h]
          /\ heap'[g] = [heap[g] EXCEPT !.menu = m, !.parameter = p]
      BY <2>1, <3>1, <3>3, <3>4
    <3> QED
      BY <2>3, <3>1, <3>2, <3>5 DEF Pairs
  <2> QED
    BY <2>2, <2>3
<1>13. FaultsRight'
  <2>1. ASSUME old # 0, ~heap[old].live PROVE m \in removed \cap mixed
    BY <1>1, <1>2, <1>3, <2>1 DEF MenuRight, Whole, Beside
  <2> QED
    BY <1>2, <1>5, <2>1, CallFacts DEF FaultsRight
<1>14. ASSUME Going' PROVE MenuRight(m)'
  <2>1. old # 0 => heap[old].live
    BY <1>5, <1>14 DEF Going
  <2>2. heap'[g].live
    BY <1>12, <1>4, <2>1
  <2>3. Own(m) /\ (m \notin mixed => Beside(m)) /\ (m \notin removed => Whole(m))
    BY <1>1 DEF MenuRight
  <2>0. \A h \in DOMAIN heap : heap[h].menu = m => h \in DOMAIN heap' /\ heap'[h].menu = m
    BY <1>12
  <2>4. Own(m)'
    <3>1. \A j \in Slots : slots.at[j] # 0 =>
             slots.at[j] \in DOMAIN heap' /\ heap'[slots.at[j]].menu = m
      BY <1>1, <1>9, <1>12, <2>3, <2>0 DEF Own
    <3>2. \A j \in DOMAIN list : list[j].what = "entry" =>
             list[j].value \in DOMAIN heap' /\ heap'[list[j].value].menu = m
      BY <1>1, <1>7, <1>8, <1>12, <2>3, <2>0 DEF Own
    <3> QED
      BY <1>10, <3>1, <3>2 DEF Own
  <2>5. Bounded(m)'
    BY <1>1, <1>2, <1>8, <1>9, <1>10, CallFacts DEF Bounded
  <2>6. ASSUME m \notin mixed' PROVE Beside(m)'
    <3>1. Beside(m) /\ DOMAIN items \subseteq Slots
      BY <1>1, <1>2, <2>3, <2>6, CallFacts, IdsAssumption DEF Slots, MenusTyped
    <3>2. old # 0 /\ g = old /\ g \in DOMAIN heap
      BY <1>1, <1>2, <1>3, <1>4, <1>11, <3>1 DEF Beside
    <3>3. \A j \in DOMAIN items : slots.at[j] = at[j]
      BY <1>2, <1>3, <1>9, <3>1, <3>2
    <3>4. \A j \in DOMAIN items : j # i => /\ at[j] # 0 /\ at[j] # g /\ at[j] \in DOMAIN heap
                                           /\ heap'[at[j]] = heap[at[j]]
      BY <1>1, <1>2, <1>3, <1>12, <2>3, <3>1, <3>2 DEF Beside, Own
    <3>5. ASSUME NEW j \in DOMAIN items
          PROVE  /\ at[j] # 0 /\ heap'[at[j]].live
                 /\ list[j].what = "entry" => /\ list[j].value = at[j]
                                              /\ heap'[at[j]].parameter = list[j].parameter
                 /\ \A k \in DOMAIN items : k # j => at[k] # at[j]
      <4>1. \A k \in DOMAIN items : k # j => at[k] # at[j]
        BY <1>1, <3>1 DEF Beside
      <4>2. CASE j = i
        BY <1>3, <1>7, <1>8, <1>12, <2>2, <3>2, <4>1, <4>2
      <4>3. CASE j # i
        BY <1>1, <1>8, <3>1, <3>4, <4>1, <4>3 DEF Beside
      <4> QED
        BY <4>2, <4>3
    <3>6. ptr = Len(items)
      BY <1>1, <3>1 DEF Beside
    <3> QED
      BY <1>8, <1>9, <1>10, <3>3, <3>5, <3>6 DEF Beside
  <2>7. ASSUME m \notin removed' PROVE Whole(m)'
    <3>1. Whole(m) /\ Own(m)
      BY <1>2, <2>3, <2>7
    <3>2. \A j \in Slots \ {i} : at[j] # 0 => /\ at[j] \in DOMAIN heap /\ heap[at[j]].live
                                              /\ at[j] # g
      BY <1>1, <1>3, <1>12, <3>1 DEF Whole, Own
    <3>3. \A j \in Slots : slots.at[j] # 0 =>
             /\ heap'[slots.at[j]].live
             /\ \A k \in Slots : k # j => slots.at[k] # slots.at[j]
      BY <1>1, <1>9, <1>12, <2>2, <3>1, <3>2 DEF Whole
    <3>4. \A j \in DOMAIN list : list[j].what = "entry" => heap'[list[j].value].live
      BY <1>1, <1>7, <1>8, <1>12, <2>2, <3>1 DEF Whole, Own
    <3> QED
      BY <1>10, <3>3, <3>4 DEF Whole
  <2> QED
    BY <2>4, <2>5, <2>6, <2>7 DEF MenuRight
<1>15. \A h \in DOMAIN heap : heap[h].menu # m => h \in DOMAIN heap' /\ heap'[h] = heap[h]
  BY <1>11, <1>12
<1> QED
  BY <1>1, <1>2, <1>5, <1>6, <1>8, <1>9, <1>12, <1>13, <1>14, <1>15, OneMenu

LEMMA RemoveMenuItemKeeps ==
    ASSUME IMenus, NEW i \in Slots, NEW clears \in BOOLEAN, RemoveMenuItem(i, clears)
    PROVE  IMenus'
<1>1. PICK m \in DOMAIN menus, ptr \in Nat, at \in [Slots -> Nat], items \in Seq(Items) :
         /\ menu = m /\ menus[m] = items
         /\ stack[m] = [ptr |-> ptr, at |-> at] /\ stack[m].ptr = ptr /\ stack[m].at = at
         /\ ptr <= calls /\ Len(items) <= calls
         /\ DOMAIN items = 1..Len(items) /\ Len(items) \in Nat
         /\ MenuRight(m)
  BY CurrentMenu DEF RemoveMenuItem
<1>2. /\ Call /\ MenusTyped /\ UNCHANGED <<menu, callback, mixed>>
      /\ i \in DOMAIN items /\ removed' = removed \cup {m}
  BY <1>1 DEF RemoveMenuItem, IMenus
<1>3. PICK old \in Nat : old = at[i]
  OBVIOUS
<1>4. PICK cleared \in [Slots -> Nat] : cleared = IF clears THEN [at EXCEPT ![i] = 0] ELSE at
  OBVIOUS
<1> DEFINE slots == [ptr |-> ptr - 1, at |-> Shifted(cleared, i, ptr)]
           list == RemoveAt(items, i)
<1>5. /\ heap' = IF old = 0 THEN heap ELSE [heap EXCEPT ![old].live = FALSE]
      /\ state' = CASE old # 0 /\ ~heap[old].live -> "freed-twice"
                    [] (old = 0 \/ heap[old].live) /\ i > ptr -> "moved-beyond"
                    [] OTHER -> state
      /\ stack' = [stack EXCEPT ![m] = slots]
      /\ menus' = [menus EXCEPT ![m] = list]
  BY <1>1, <1>3, <1>4 DEF RemoveMenuItem
<1>6. /\ list \in Seq(Items) /\ Len(list) = Len(items) - 1 /\ DOMAIN list = 1..Len(items) - 1
      /\ \A j \in DOMAIN list : list[j] = IF j < i THEN items[j] ELSE items[j + 1]
  <2>1. /\ list \in Seq(Items) /\ Len(list) = Len(items) - 1
        /\ \A j \in 1..Len(items) - 1 : list[j] = IF j < i THEN items[j] ELSE items[j + 1]
    BY <1>2, RemoveAtFacts, Zenon
  <2> HIDE DEF list
  <2> QED
    BY <2>1
<1>7. /\ slots \in Stacks /\ slots.ptr = ptr - 1
      /\ \A j \in Slots : slots.at[j] = IF i <= j /\ j < ptr THEN cleared[j + 1] ELSE cleared[j]
  <2>1. \A j \in Slots : j < ptr => j + 1 \in Slots
    BY <1>1, <1>2, CallFacts, IdsAssumption DEF Slots
  <2>2. Shifted(cleared, i, ptr) \in [Slots -> Nat]
    BY <2>1 DEF Shifted
  <2> QED
    BY <2>2 DEF Stacks, Shifted
<1> HIDE DEF slots, list
<1>8. menus'[m] = list /\ stack'[m] = slots
  BY <1>2, <1>5 DEF MenusTyped
<1>9. old # 0 => old \in DOMAIN heap /\ heap[old].menu = m
  BY <1>1, <1>3 DEF MenuRight, Own
<1>10. /\ heap' \in Seq(Pairs) /\ DOMAIN heap' = DOMAIN heap
       /\ \A h \in DOMAIN heap : /\ h # old => heap'[h] = heap[h]
                                 /\ heap'[h].menu = heap[h].menu
  <2>1. heap \in Seq(Pairs)
    BY <1>2 DEF MenusTyped
  <2>2. CASE old = 0
    BY <1>5, <2>1, <2>2
  <2>3. CASE old # 0
    <3>1. old \in DOMAIN heap /\ heap[old] \in Pairs /\ FALSE \in BOOLEAN
      BY <1>9, <2>1, <2>3
    <3>2. [heap[old] EXCEPT !.live = FALSE] \in Pairs
      BY <3>1, Zenon DEF Pairs
    <3>3. heap' = [heap EXCEPT ![old] = [heap[old] EXCEPT !.live = FALSE]]
      BY <1>5, <2>3
    <3>4. /\ heap' \in Seq(Pairs) /\ DOMAIN heap' = DOMAIN heap
          /\ \A h \in DOMAIN heap : h # old => heap'[h] = heap[h]
          /\ heap'[old] = [heap[old] EXCEPT !.live = FALSE]
      BY <2>1, <3>1, <3>2, <3>3
    <3> QED
      BY <3>1, <3>4 DEF Pairs
  <2> QED
    BY <2>2, <2>3
<1>11. i > ptr => m \in mixed
  BY <1>1, <1>2 DEF MenuRight, Beside
<1>12. \/ state' = "freed-twice"
       \/ state' = "moved-beyond" /\ i > ptr
       \/ state' = state /\ i <= ptr
  <2>1. CASE old # 0 /\ ~heap[old].live
    BY <1>5, <2>1
  <2>2. CASE (old = 0 \/ heap[old].live) /\ i > ptr
    BY <1>5, <2>2
  <2>3. CASE (old = 0 \/ heap[old].live) /\ i <= ptr
    BY <1>1, <1>2, <1>5, <2>3
  <2>4. i > ptr \/ i <= ptr
    BY <1>1, <1>2
  <2> QED
    BY <2>1, <2>2, <2>3, <2>4, Zenon
<1>13. FaultsRight'
  BY <1>2, <1>11, <1>12, CallFacts DEF FaultsRight
<1>14. ASSUME Going' PROVE MenuRight(m)'
  <2>1. i <= ptr
    BY <1>12, <1>14 DEF Going
  <2>2. Own(m) /\ (m \notin mixed => Beside(m))
    BY <1>1 DEF MenuRight
  <2>3. \A j \in Slots : slots.at[j] = 0 \/ \E k \in Slots : slots.at[j] = at[k]
    <3>1. \A j \in Slots : j < ptr => j + 1 \in Slots
      BY <1>1, <1>2, CallFacts, IdsAssumption DEF Slots
    <3>2. \A k \in Slots : cleared[k] = 0 \/ cleared[k] = at[k]
      BY <1>4
    <3> QED
      BY <1>7, <3>1, <3>2
  <2>4. \A j \in DOMAIN list : \E k \in DOMAIN items : list[j] = items[k]
    BY <1>1, <1>2, <1>6
  <2>5. Own(m)'
    <3>1. \A j \in Slots : slots.at[j] # 0 =>
             slots.at[j] \in DOMAIN heap' /\ heap'[slots.at[j]].menu = m
      <4> SUFFICES ASSUME NEW j \in Slots, slots.at[j] # 0
                   PROVE  slots.at[j] \in DOMAIN heap' /\ heap'[slots.at[j]].menu = m
        OBVIOUS
      <4>1. PICK k \in Slots : slots.at[j] = at[k]
        BY <2>3
      <4>2. at[k] \in DOMAIN heap /\ heap[at[k]].menu = m
        BY <1>1, <2>2, <4>1 DEF Own
      <4> QED
        BY <1>10, <4>1, <4>2
    <3>2. \A j \in DOMAIN list : list[j].what = "entry" =>
             list[j].value \in DOMAIN heap' /\ heap'[list[j].value].menu = m
      <4> SUFFICES ASSUME NEW j \in DOMAIN list, list[j].what = "entry"
                   PROVE  list[j].value \in DOMAIN heap' /\ heap'[list[j].value].menu = m
        OBVIOUS
      <4>1. PICK k \in DOMAIN items : list[j] = items[k]
        BY <2>4
      <4>2. items[k].value \in DOMAIN heap /\ heap[items[k].value].menu = m
        BY <1>1, <2>2, <4>1 DEF Own
      <4> QED
        BY <1>10, <4>1, <4>2
    <3> QED
      BY <1>8, <3>1, <3>2 DEF Own
  <2>6. Bounded(m)'
    BY <1>1, <1>2, <1>6, <1>7, <1>8, <2>1, CallFacts DEF Bounded, Slots
  <2>7. ASSUME m \notin mixed' PROVE Beside(m)'
    <3>1. Beside(m) /\ ptr = Len(items) /\ DOMAIN items \subseteq Slots
      BY <1>1, <1>2, <2>2, <2>7, CallFacts, IdsAssumption DEF Beside, Slots, MenusTyped
    <3> DEFINE from(j) == IF j < i THEN j ELSE j + 1
    <3>2. ASSUME NEW j \in DOMAIN list
          PROVE  /\ from(j) \in DOMAIN items /\ from(j) # i
                 /\ slots.at[j] = at[from(j)] /\ list[j] = items[from(j)]
      <4>1. j \in 1..Len(items) - 1 /\ j \in Slots /\ from(j) \in DOMAIN items /\ from(j) # i
        BY <1>1, <1>2, <1>6, <3>1
      <4>2. slots.at[j] = cleared[from(j)]
        BY <1>7, <3>1, <4>1, <1>2, <1>1
      <4>3. cleared[from(j)] = at[from(j)]
        BY <1>4, <3>1, <4>1
      <4> QED
        BY <1>6, <4>1, <4>2, <4>3
    <3>3. \A j, k \in DOMAIN list : j # k => from(j) # from(k)
      BY <1>1, <1>2, <1>6
    <3>4. \A k \in DOMAIN items : k # i =>
             /\ at[k] # 0 /\ at[k] # old /\ at[k] \in DOMAIN heap /\ heap'[at[k]] = heap[at[k]]
      BY <1>1, <1>2, <1>3, <1>10, <2>2, <3>1 DEF Beside, Own
    <3> HIDE DEF from
    <3>5. ASSUME NEW j \in DOMAIN list
          PROVE  /\ slots.at[j] # 0 /\ heap'[slots.at[j]].live
                 /\ list[j].what = "entry" => /\ list[j].value = slots.at[j]
                                              /\ heap'[slots.at[j]].parameter = list[j].parameter
                 /\ \A k \in DOMAIN list : k # j => slots.at[k] # slots.at[j]
      BY <1>1, <3>1, <3>2, <3>3, <3>4 DEF Beside
    <3> QED
      BY <1>1, <1>6, <1>7, <1>8, <3>1, <3>5 DEF Beside
  <2> QED
    BY <1>2, <2>5, <2>6, <2>7 DEF MenuRight
<1>15. \A h \in DOMAIN heap : heap[h].menu # m => h \in DOMAIN heap' /\ heap'[h] = heap[h]
  BY <1>9, <1>10
<1> QED
  BY <1>1, <1>2, <1>5, <1>6, <1>7, <1>10, <1>13, <1>14, <1>15, OneMenu

LEMMA SelectKeeps ==
    ASSUME IMenus, NEW m \in Ids, NEW i \in Slots, Select(m, i)
    PROVE  IMenus'
<1>1. /\ m \in DOMAIN menus /\ i \in DOMAIN menus[m]
      /\ menus[m][i].what = "entry"
      /\ state = "runs" /\ menu' = m
      /\ UNCHANGED <<menus, callback, stack, heap, mixed, removed, calls>>
  BY DEF Select
<1>2. \/ state' = state
      \/ state' = "used-after-free" /\ ~heap[menus[m][i].value].live
  BY DEF Select
<1>3. MenusTyped /\ \A n \in DOMAIN menus : MenuRight(n)
  BY <1>1 DEF IMenus, MenusRight, Going
<1>4. MenusTyped' /\ calls \in Nat /\ calls' = calls
  BY <1>1, <1>3, IdsAssumption DEF MenusTyped
<1>5. \A n \in DOMAIN menus : MenuRight(n)'
  BY <1>1, <1>3, <1>4, MenuStays
<1>6. ASSUME ~heap[menus[m][i].value].live PROVE m \in removed \cap mixed
  <2>1. m \in removed
    BY <1>1, <1>3, <1>6 DEF MenuRight, Whole
  <2>2. m \in mixed
    BY <1>1, <1>3, <1>6 DEF MenuRight, Beside
  <2> QED
    BY <2>1, <2>2
<1>7. FaultsRight'
  BY <1>1, <1>2, <1>6 DEF FaultsRight
<1> QED
  BY <1>1, <1>4, <1>5, <1>7 DEF IMenus, MenusRight

(* Whatever step is taken, the menus stay right.                           *)
LEMMA MenusKeep ==
    ASSUME IMenus, Next
    PROVE  IMenus'
<1>1. CASE MenuCall
  BY <1>1, CreateMenuKeeps, DestroyMenuKeeps, SetMenuKeeps, AddSubMenuKeeps, AddMenuEntryKeeps,
     ChangeToMenuEntryKeeps, ChangeToSubMenuKeeps, RemoveMenuItemKeeps DEF MenuCall
<1>2. CASE MenuDispatch
  BY <1>2, SelectKeeps DEF MenuDispatch
<1>3. MenusTyped /\ calls \in Nat /\ calls <= MaxCalls
  BY IdsAssumption DEF IMenus, MenusTyped
<1>4. ASSUME Call, UNCHANGED <<menuVars, state>> PROVE IMenus'
  BY <1>3, <1>4, CallFacts, OthersKeepMenus
<1>5. ASSUME state = "runs", state' \in {"runs", "exit", "null-closure"},
             UNCHANGED <<menuVars, calls>>
      PROVE  IMenus'
  BY <1>3, <1>5, OthersKeepMenus
<1>6. CASE WindowCall \/ WindowDispatch
  BY <1>4, <1>5, <1>6, WindowSteps
<1>7. CASE SingleCall \/ SingleDispatch
  BY <1>4, <1>5, <1>7, SingleSteps
<1>8. CASE TimerCall \/ TimerDispatch
  BY <1>4, <1>5, <1>8, TimerSteps
<1> QED
  BY <1>1, <1>2, <1>6, <1>7, <1>8, Steps

-----------------------------------------------------------------------------
(* The closures that run                                                   *)

LEMMA CallsKeep ==
    ASSUME CallsOwn, WindowsRight, TimersRight, IMenus, Next
    PROVE  CallsOwn'
<1>1. ASSUME called' = NoCall, state' # "null-closure" PROVE CallsOwn'
  BY <1>1 DEF CallsOwn, NoCall, Kinds
<1>2. ASSUME NEW w \in Ids, NEW k \in Kinds, NEW error \in BOOLEAN, Dispatch(w, k, error)
      PROVE  CallsOwn'
  <2>1. /\ called'.by = k /\ called'.closure = hash[k][w]
        /\ windows' = windows /\ window' = w
        /\ hash[k][w] = windows[w][k]
        /\ state' = "null-closure" => hash[k][w] = NULL
    BY <1>2 DEF Dispatch, WindowsRight
  <2> QED
    BY <2>1 DEF CallsOwn, Kinds
<1>3. CASE SingleDispatch
  <2>1. called'.by \in {"idle", "menustate"} /\ state' # "null-closure"
    BY <1>3 DEF SingleDispatch, SingleEvent
  <2> QED
    BY <2>1 DEF CallsOwn, Kinds
<1>4. ASSUME NEW i \in Slots, NEW error \in BOOLEAN, TimerExpires(i, error)
      PROVE  CallsOwn'
  <2>1. /\ called'.by = "timer" /\ called'.timer = timers[i]
        /\ called'.closure = single["timer"] /\ state' # "null-closure"
        /\ timers[i].last => timers[i].closure = single["timer"]
    BY <1>4 DEF TimerExpires, TimersRight
  <2> QED
    BY <2>1 DEF CallsOwn, Kinds
<1>5. ASSUME NEW m \in Ids, NEW i \in Slots, Select(m, i)
      PROVE  CallsOwn'
  <2> DEFINE g == menus[m][i].value
  <2>1. /\ m \in DOMAIN menus /\ i \in DOMAIN menus[m] /\ menus[m][i].what = "entry"
        /\ UNCHANGED <<windows, window, callback, mixed>> /\ MenuRight(m)
        /\ state' # "null-closure"
    BY <1>5 DEF Select, winVars, IMenus, MenusRight, Going
  <2>2. CASE heap[g].live
    <3>1. called' = [by |-> "menu", menu |-> m, item |-> menus[m][i],
                     closure |-> callback[heap[g].menu], parameter |-> heap[g].parameter]
      BY <1>5, <2>2 DEF Select
    <3>2. heap[g].menu = m /\ (m \notin mixed => heap[g].parameter = menus[m][i].parameter)
      BY <2>1 DEF MenuRight, Own, Beside
    <3>3. /\ called'.by = "menu" /\ called'.menu = m /\ called'.item = menus[m][i]
          /\ called'.closure = callback[m]
          /\ m \notin mixed => called'.parameter = menus[m][i].parameter
      BY <3>1, <3>2
    <3> QED
      BY <2>1, <3>3 DEF CallsOwn, Kinds
  <2>3. CASE ~heap[g].live
    <3>1. called' = called
      BY <1>5, <2>3 DEF Select
    <3> QED
      BY <2>1, <3>1 DEF CallsOwn
  <2> QED
    BY <2>2, <2>3
<1>6. Call => called' = NoCall /\ state = "runs"
  BY DEF Call
<1> QED
  BY <1>1, <1>2, <1>3, <1>4, <1>5, <1>6, Steps, WindowSteps, SingleSteps, TimerSteps, MenuSteps
     DEF WindowDispatch, TimerDispatch, MenuDispatch

-----------------------------------------------------------------------------
(* The invariant                                                           *)

LEMMA InitIInv == Init => IInv
<1> SUFFICES ASSUME Init PROVE IInv
  OBVIOUS
<1> USE DEF Init
<1>1. DOMAIN Empty = {}
  BY DEF Empty
<1>2. WindowsTyped /\ WindowsRight
  BY <1>1 DEF WindowsTyped, WindowsRight, Given
<1>3. TimersTyped /\ TimersRight
  BY DEF TimersTyped, TimersRight, Given
<1>4. MenusTyped /\ MenusRight
  BY <1>1, IdsAssumption DEF MenusTyped, MenusRight
<1>5. FaultsRight /\ CallsOwn
  BY DEF FaultsRight, CallsOwn, NoCall, Kinds
<1>6. RefsTyped
  BY DEF RefsTyped
<1>7. RefsExact
  <2> SUFFICES ASSUME NEW c \in Closures
               PROVE  refs[c] = Cardinality(Registered(c)) + Cardinality(Answers(c)) + given[c]
    BY DEF RefsExact, Registered, Answers
  <2>1. Registered(c) = {} /\ Answers(c) = {}
    BY <1>1, ClosuresAssumption DEF Registered, Answers
  <2> QED
    BY <2>1, FS_EmptySet
<1> QED
  BY <1>2, <1>3, <1>4, <1>5, <1>6, <1>7 DEF IInv

(* The invariant holds in every state.                                     *)
THEOREM Inductive == Spec => []IInv
<1>1. IInv /\ [Next]_vars => IInv'
  <2> SUFFICES ASSUME IInv, [Next]_vars PROVE IInv'
    OBVIOUS
  <2>1. CASE UNCHANGED vars
    <3>1. /\ UNCHANGED <<windows, window, hash>> /\ UNCHANGED <<single, timers>>
          /\ UNCHANGED <<menus, menu, callback, stack, heap, mixed, removed, calls, state>>
          /\ UNCHANGED <<refs, given>> /\ UNCHANGED called
      BY <2>1 DEF vars, winVars, menuVars
    <3>2. WindowsTyped' /\ WindowsRight'
      BY <3>1 DEF IInv, WindowsTyped, WindowsRight
    <3>3. TimersTyped' /\ TimersRight'
      BY <3>1 DEF IInv, TimersTyped, TimersRight
    <3>4. MenusTyped' /\ FaultsRight'
      BY <3>1 DEF IInv, MenusTyped, FaultsRight
    <3>5. MenusRight'
      BY <3>1 DEF IInv, MenusRight, Going, MenuRight, Own, Bounded, Beside, Whole
    <3>6. RefsTyped' /\ RefsExact'
      BY <3>1 DEF IInv, RefsTyped, RefsExact
    <3>7. CallsOwn'
      BY <3>1 DEF IInv, CallsOwn
    <3> QED
      BY <3>2, <3>3, <3>4, <3>5, <3>6, <3>7 DEF IInv
  <2>2. CASE Next
    <3>1. WindowsTyped' /\ WindowsRight'
      <4>1. CASE WindowCall \/ WindowDispatch
        BY <4>1, WindowsKeep DEF IInv
      <4>2. CASE UNCHANGED winVars
        BY <4>2 DEF winVars, IInv, WindowsTyped, WindowsRight
      <4> QED
        BY <2>2, <4>1, <4>2, Steps, SingleSteps, TimerSteps, MenuSteps
    <3>2. TimersTyped' /\ TimersRight'
      <4>1. CASE SingleCall \/ SingleDispatch
        BY <4>1, SinglesKeep DEF IInv
      <4>2. CASE TimerCall \/ TimerDispatch
        BY <4>2, TimersKeep DEF IInv
      <4>3. CASE UNCHANGED <<single, timers>>
        BY <4>3 DEF IInv, TimersTyped, TimersRight
      <4> QED
        BY <2>2, <4>1, <4>2, <4>3, Steps, WindowSteps, MenuSteps
    <3>3. IMenus'
      BY <2>2, MenusKeep DEF IInv, IMenus
    <3>4. RefsTyped' /\ RefsExact'
      BY <2>2, RefsKeep DEF IInv
    <3>5. CallsOwn'
      BY <2>2, CallsKeep DEF IInv, IMenus
    <3> QED
      BY <3>1, <3>2, <3>3, <3>4, <3>5 DEF IInv, IMenus
  <2> QED
    BY <2>1, <2>2
<1> QED
  BY InitIInv, <1>1, PTL DEF Spec

-----------------------------------------------------------------------------
(* The closure that runs is the window's own, the timer's own unless       *)
(* another timer was set after it, and the menu's own with the parameter   *)
(* of the item (GLUT_utility.c:67-168, GLUT.fec:285-359).                  *)
THEOREM CallsCorrect == Spec => []CallsOwn
<1>1. IInv => CallsOwn
  BY DEF IInv
<1> QED
  BY Inductive, <1>1, PTL

(* A menu without added submenus keeps its entries beside GLUT's items;    *)
(* what undefined accesses there are need a removed item or an added       *)
(* submenu (GLUT.fec:234-332).                                             *)
THEOREM EntriesCorrect == Spec => []EntriesAligned
<1>1. IInv => EntriesAligned
  <2> SUFFICES ASSUME IInv PROVE EntriesAligned
    OBVIOUS
  <2>1. ASSUME state \in {"runs", "exit"}, NEW m \in DOMAIN menus \ mixed
        PROVE  Beside(m)
    BY <2>1 DEF IInv, MenusRight, Going, MenuRight
  <2> QED
    BY <2>1 DEF EntriesAligned, Beside, IInv, FaultsRight
<1> QED
  BY Inductive, <1>1, PTL

(* The references the module holds are counted exactly                     *)
(* (GLUT_utility.c:17-30, GLUT.fec:225-249).                               *)
THEOREM RefsCorrect == Spec => []RefsExact
<1>1. IInv => RefsExact
  BY DEF IInv
<1> QED
  BY Inductive, <1>1, PTL
=============================================================================
