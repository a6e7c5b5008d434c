---------------------------- MODULE ApacheRequest ----------------------------
(***************************************************************************)
(* The Request objects that one script makes for its request, the text     *)
(* each of them reads when it is made, and what query() and getParams()    *)
(* make of it.                                                             *)
(***************************************************************************)
EXTENDS RequestData

CONSTANTS Chars,      \* characters
          Forms,      \* multipart forms: sequences of controls
          PairLists   \* lists of key and value pairs of other forms

(* A browser's path of a file ends at its last separator, and the boundary *)
(* it chooses stands nowhere in the data.  A control for files may send no *)
(* name, or an empty one.                                                  *)
Paths == {<<>>} \cup { p \in Seq(Chars) : p # <<>> /\ Last(p) = "/" }

Files == {NoFile} \cup [given : {"yes"}, path : Paths, base : Seq(Chars \ {"/"})]

Controls == [name : Seq(Chars) \ {<<>>}, file : Files, header : {"none", "type", "folded", "odd"},
             data : Seq({Bytes, CRLF, Dashes})]

ASSUME CharsAssumption == {"%", Digit} \subseteq Chars
ASSUME FormsAssumption == Forms \subseteq Seq(Controls)
ASSUME PairsAssumption == PairLists \subseteq Seq([key : Seq(Chars), val : Seq(Chars)])

VARIABLES method,     \* the request's method
          input,      \* its data: the arguments of its URL and what arrives of its body
          objects,    \* the texts of the script's Request objects
          asked,      \* the object query() was called of, 0 before that
          query,      \* what it returned
          crashed     \* query() ended the process

requestVars == <<method, input, objects, asked, query, crashed>>

(* sentArgs and sent are what the browser meant.  A Content-Type of a      *)
(* multipart form may come without its boundary: type "unbounded".         *)
Input(a, form, body, type) ==
    [args |-> Link(a), body |-> body, type |-> type, sentArgs |-> a, sent |-> form,
     whole |-> body = IF type = "pairs" THEN Link(form) ELSE Body(form)]

(* What can arrive: ap_get_client_block() may fail at any byte, so a text  *)
(* is cut between two characters or inside a "%xx", and a body between two *)
(* tokens or inside one.                                                   *)
Cuts(text) == { SubSeq(text, 1, n) : n \in 0 .. Len(text) }

CutsInside(text, n) == { SubSeq(text, 1, n - 1) \o Stub(s) : s \in Beginnings }

ArrivedText(text) ==
    Cuts(text) \cup UNION { CutsInside(text, n) : n \in { i \in DOMAIN text : text[i].esc } }

ArrivedBody(text) == Cuts(text) \cup { Append(SubSeq(text, 1, n - 1), Half) : n \in DOMAIN text }

GetInput == method = "GET" /\ \E a \in PairLists : input = Input(a, <<>>, <<>>, "pairs")

PostInput ==
    /\ method = "POST"
    /\ \/ \E a, p \in PairLists : \E b \in ArrivedText(Link(p)) : input = Input(a, p, b, "pairs")
       \/ \E f \in Forms : \E b \in ArrivedBody(Body(f)) : input = Input(<<>>, f, b, "multipart")
       \/ \E f \in Forms : input = Input(<<>>, f, Body(f), "unbounded")

RequestInit ==
    /\ GetInput \/ PostInput
    /\ objects = <<>>
    /\ asked = 0
    /\ query = <<>>
    /\ crashed = FALSE

(* Mutant: a second object reads the body again.                           *)
NewObjectRereads ==
    /\ Len(objects) < 2 /\ ~crashed
    /\ objects' = Append(objects, IF method = "GET" THEN input.args ELSE input.body)
    /\ UNCHANGED <<method, input, asked, query, crashed>>

(* The constructor of Request takes the arguments of a GET, or reads the   *)
(* body of a POST, which can be read only once.                            *)
NewObject ==
    /\ Len(objects) < 2 /\ ~crashed
    /\ objects' = Append(objects, CASE method = "GET" -> input.args
                                    [] method = "POST" /\ objects = <<>> -> input.body
                                    [] OTHER -> <<>>)
    /\ UNCHANGED <<method, input, asked, query, crashed>>

(* parse_query_data, when it comes back                                    *)
QueryOf(o) ==
    (CASE method = "GET" -> <<>>
       [] method = "POST" /\ input.type = "multipart" -> Fill(Parts(objects[o]))
       [] OTHER -> Populate(objects[o]))
      \o Populate(input.args)

(* Without "boundary=" the boundary is the null pointer plus 9, and the    *)
(* parser takes its length.                                                *)
Crashes(o) ==
    /\ method = "POST"
    /\ \/ input.type = "unbounded"
       \/ input.type = "multipart" /\ NullParams(Parts(objects[o]))

(* What lies behind the end of a text or of a line ends the process, or is *)
(* no boundary and no name of a parameter.                                 *)
MayCrash(o) ==
    /\ method = "POST" /\ input.type = "multipart"
    /\ ReadsPastEnd(objects[o]) \/ ReadsPastLine(objects[o])

Query(o) ==
    /\ o \in DOMAIN objects /\ asked = 0
    /\ asked' = o
    /\ crashed' \in BOOLEAN
    /\ Crashes(o) => crashed'
    /\ crashed' => Crashes(o) \/ MayCrash(o)
    /\ query' = IF crashed' THEN <<>> ELSE QueryOf(o)
    /\ UNCHANGED <<method, input, objects>>

(* Request.getParams: the values of one name in the object's own text.     *)
ValuesOf(pairs, name) ==
    FlattenSeq([i \in DOMAIN pairs |-> IF pairs[i].key = name THEN <<pairs[i].val>> ELSE <<>>])

GetParams(o, name) == ValuesOf(Populate(objects[o]), name)

RequestNext == NewObject \/ \E o \in 1 .. 2 : Query(o)

RequestSpec == RequestInit /\ [][RequestNext]_requestVars

-----------------------------------------------------------------------------
(* Properties                                                              *)

(* What a form says: an empty control without a file says nothing.         *)
Shown(form) ==
    FlattenSeq([i \in DOMAIN form |->
                   IF form[i].file = NoFile /\ form[i].data = <<>> THEN <<>> ELSE <<form[i]>>])

(* The entry of query() for a control: its name, its content, and for a    *)
(* file the name without its path.  Of a name that came without a path it  *)
(* is the beginning, and of an empty file nothing is said.                 *)
Delivers(e, c) ==
    /\ e.key = c.name
    /\ c.data # <<>> => e.val = c.data
    /\ c.file # NoFile => /\ IsPrefix(c.file.base, e.base)
                          /\ c.file.path # <<>> /\ c.file.base # <<>> => e.base = c.file.base

(* A value whose text was cut: its beginning, and when the cut was inside  *)
(* a "%xx", what had arrived of that.                                      *)
CutValue(v, w) ==
    \/ IsPrefix(v, w)
    \/ \E k \in DOMAIN w : EncodeChar(w[k]).esc /\ \E s \in Beginnings : v = SubSeq(w, 1, k - 1) \o s

(* The pairs of a text that was cut short: whole ones, then at most one    *)
(* whose value is cut.                                                     *)
CutShort(q, sent) ==
    \/ IsPrefix(q, sent)
    \/ /\ q # <<>> /\ Len(q) <= Len(sent) /\ IsPrefix(Front(q), sent)
       /\ Last(q).key = sent[Len(q)].key
       /\ CutValue(Last(q).val, sent[Len(q)].val)

(* The query is what the browser's form held, then the URL's arguments; of *)
(* a body that was cut short it is the beginning, and no upload is cut; of *)
(* a second Request object it is the arguments alone, since the body was   *)
(* read by the first.  getParams() finds each value that query() holds of  *)
(* the object's own text, in order (util_qparser.c, multipart.c,           *)
(* apache.fec:428-468).                                                    *)
QueryRight ==
    asked # 0 /\ ~crashed =>
        LET args == input.sentArgs
            body == SubSeq(query, 1, Len(query) - Len(args))
            own == IF method = "GET" THEN args ELSE body
            shown == Shown(input.sent)
        IN  /\ IsSuffix(args, query)
            /\ CASE method = "GET" \/ asked = 2 -> body = <<>>
                 [] method = "POST" /\ asked = 1 /\ input.type = "pairs" ->
                        CutShort(body, input.sent) /\ (input.whole => body = input.sent)
                 [] OTHER -> /\ Len(body) <= Len(shown) /\ (input.whole => Len(body) = Len(shown))
                             /\ \A i \in DOMAIN body : Delivers(body[i], shown[i])
            /\ input.type = "pairs" =>
                 \A p \in Range(input.sent \o args) :
                    IsPrefix(ValuesOf(own, p.key), GetParams(asked, p.key))

(* query() ends the process only when the Content-Type of a multipart form *)
(* has no boundary (util_qparser.c:59), for a body that was cut behind a   *)
(* boundary or one byte later (multipart.c:185), and for a header line     *)
(* without a colon (multipart.c:59) or with a parameter without "="        *)
(* (multipart.c:148).                                                      *)
CrashesExplained ==
    crashed =>
        \/ input.type = "unbounded"
        \/ /\ input.type = "multipart" /\ asked = 1
           /\ \/ ~input.whole /\ ReadsPastEnd(input.body)
              \/ \E c \in Range(input.sent) : c.header \in {"folded", "odd"}

=============================================================================
