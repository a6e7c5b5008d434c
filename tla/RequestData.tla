----------------------------- MODULE RequestData -----------------------------
(***************************************************************************)
(* How the apache module turns what a browser sent into the array of       *)
(* Request.query(): the decoder of "a=b&c=d" texts, its partner url_encode, *)
(* and the parser of multipart bodies.  Texts are sequences of characters, *)
(* where a whole "%xx" is one character with esc TRUE; bodies are sequences *)
(* of tokens: "--", CRLF and content of two bytes each, the text of a       *)
(* header line, the boundary.  A connection that is lost inside a "%xx" or *)
(* a token leaves a beginning of it, which is one of Beginnings or Half.   *)
(***************************************************************************)
EXTENDS Integers, Sequences, SequencesExt

Plain(c) == [c |-> c, esc |-> FALSE]
Escape(c) == [c |-> c, esc |-> TRUE]

Blank == "blank"

(* url_encode: digits and letters stay, a blank becomes "+", every other   *)
(* byte becomes "%xx".                                                     *)
EncodeChar(c) ==
    CASE c = Blank -> Plain("+")
      [] c \in {"&", "=", "+", "%", "/"} -> Escape(c)
      [] OTHER -> Plain(c)

UrlEncode(s) == [i \in DOMAIN s |-> EncodeChar(s[i])]

(* "+" is a blank, then ap_unescape_url() undoes "%xx".  It leaves a "%"   *)
(* without two digits behind it as it is.                                  *)
DecodeChar(t) == IF t = Plain("+") THEN Blank ELSE t.c

UrlDecode(t) == [i \in DOMAIN t |-> DecodeChar(t[i])]

(* The proper beginnings of a "%xx", and the symbols they arrive as.       *)
Digit == "digit"

Beginnings == { <<"%">>, <<"%", Digit>> }

Stub(s) == [i \in DOMAIN s |-> Plain(s[i])]

(* The end of the piece of t that starts at i and is ended by separator c. *)
PieceEnd(t, i, c) ==
    LET j == SelectInSubSeq(t, i, Len(t), LAMBDA x : x = Plain(c))
    IN  IF j = 0 THEN Len(t) + 1 ELSE j

(* popoluate_ferite_array_with_query_data: pieces between "&" are split at *)
(* their first "=" and decoded; a piece without one is left out.           *)
Pair(piece) ==
    LET e == PieceEnd(piece, 1, "=")
    IN  IF e > Len(piece) THEN <<>>
        ELSE << [key |-> UrlDecode(SubSeq(piece, 1, e - 1)),
                 val |-> UrlDecode(SubSeq(piece, e + 1, Len(piece)))] >>

NextPiece(t, s) ==
    LET e == PieceEnd(t, s.row, "&")
    IN  IF s.row > Len(t) + 1 THEN s
        ELSE [row |-> e + 1, pairs |-> s.pairs \o Pair(SubSeq(t, s.row, e - 1))]

Populate(t) ==
    LET loop[n \in Nat] == IF n = 0 THEN [row |-> 1, pairs |-> <<>>] ELSE NextPiece(t, loop[n - 1])
    IN  loop[Len(t) + 1].pairs

(* The text a page makes of a list of pairs with urlEncode().              *)
Piece(p) == UrlEncode(p.key) \o <<Plain("=")>> \o UrlEncode(p.val)

Link(pairs) ==
    FlattenSeq([i \in DOMAIN pairs |->
                   Piece(pairs[i]) \o (IF i < Len(pairs) THEN <<Plain("&")>> ELSE <<>>)])

-----------------------------------------------------------------------------
(* Multipart bodies                                                        *)

Boundary == [t |-> "boundary"]
Dashes == [t |-> "dashes"]
CRLF == [t |-> "crlf"]
Bytes == [t |-> "bytes"]
ContentType == [t |-> "type"]
NoColon == [t |-> "bare"]
(* A Content-Type with a parameter that has no "=".                        *)
OddType == [t |-> "odd"]
(* The beginning of any token: one byte of "--" or CRLF.                   *)
Half == [t |-> "half"]
(* A file is named by its path, if the browser sends one, and its base:    *)
(* filename="" is the name of a file, and no filename= is NoFile.          *)
Disposition(n, file) == [t |-> "disposition", name |-> n, file |-> file]
FileNamed(path, base) == [given |-> "yes", path |-> path, base |-> base]
NoFile == [given |-> "no", path |-> <<>>, base |-> <<>>]

NextOf(b, i, tok) == SelectInSubSeq(b, i, Len(b), LAMBDA x : x = tok)

(* multipart_parseline: a line without a colon gives a field without a     *)
(* name and without a list of parameters.                                  *)
Field(line) ==
    CASE line.t = "disposition" -> [name |-> "Content-Disposition", listed |-> TRUE,
                                    varname |-> line.name, filename |-> line.file]
      [] line.t \in {"type", "odd"} -> [name |-> "Content-Type", listed |-> TRUE]
      [] OTHER -> [name |-> "", listed |-> FALSE]

(* multipart_getline, called until it returns NULL: the fields up to an    *)
(* empty line, and the place after it.  Without another CRLF it stops where *)
(* it is.                                                                  *)
NextLine(b, s) ==
    LET e == NextOf(b, s.row, CRLF)
    IN  CASE s.last \/ e = 0 -> [s EXCEPT !.last = TRUE]
          [] ~s.last /\ e # 0 /\ e = s.row -> [s EXCEPT !.row = e + 1, !.last = TRUE]
          [] OTHER -> [row |-> e + 1, fields |-> Append(s.fields, Field(b[s.row])), last |-> FALSE]

Lines(b, start) ==
    LET loop[n \in Nat] == IF n = 0 THEN [row |-> start, fields |-> <<>>, last |-> FALSE]
                           ELSE NextLine(b, loop[n - 1])
    IN  loop[Len(b)]

(* Mutant: the line break in front of a boundary stays with the data.      *)
NextPartKeepBreak(b, s) ==
    LET j == NextOf(b, s.row, Boundary)
        h == Lines(b, j + 2)
        k == NextOf(b, h.row, Boundary)
    IN  IF j = 0 \/ j = Len(b) \/ b[j + 1] = Dashes \/ k = 0 THEN s
        ELSE [row |-> k - 2,
              parts |-> Append(s.parts, [fields |-> h.fields, data |-> SubSeq(b, h.row, k - 2),
                                         rest |-> SubSeq(b, h.row, Len(b))])]

(* multipart_parse: the next part, if its end is found.  Its data points   *)
(* into the text, where the rest of the body follows.                      *)
NextPart(b, s) ==
    LET j == NextOf(b, s.row, Boundary)
        h == Lines(b, j + 2)
        k == NextOf(b, h.row, Boundary)
    IN  IF j = 0 \/ j = Len(b) \/ b[j + 1] = Dashes \/ k = 0 THEN s
        ELSE [row |-> k - 2,
              parts |-> Append(s.parts, [fields |-> h.fields, data |-> SubSeq(b, h.row, k - 3),
                                         rest |-> SubSeq(b, h.row, Len(b))])]

Parts(b) ==
    LET loop[n \in Nat] == IF n = 0 THEN [row |-> 1, parts |-> <<>>] ELSE NextPart(b, loop[n - 1])
    IN  loop[Len(b)].parts

(* row goes two bytes on past the boundary: past the text, and the byte 0  *)
(* behind it, when the text ends with the boundary or one byte later.      *)
ReadsPastEnd(b) ==
    \/ b # <<>> /\ Last(b) = Boundary
    \/ Len(b) > 1 /\ Last(b) = Half /\ b[Len(b) - 1] = Boundary

(* multipart_parseline looks for the "=" of a parameter behind the end of  *)
(* its copy of the line.  Every line whose break arrived is copied.        *)
ReadsPastLine(b) == \E i \in 1 .. Len(b) - 1 : b[i] = OddType /\ b[i + 1] = CRLF

(* The name of a file without its path.  Its length is taken one too long  *)
(* when the name has no path, and the quote behind it is copied with it; a *)
(* length of 0 makes fe_new_str copy all up to the byte 0.                 *)
Quote == "quote"

FileName(file) ==
    LET v == file.path \o file.base
        i == SelectLastInSeq(v, LAMBDA c : c = "/")
    IN  CASE i = 0 -> Append(v, Quote)
          [] i # 0 /\ i = Len(v) -> <<Quote>>
          [] OTHER -> SubSeq(v, i + 1, Len(v))

(* The data of an uploaded file: of an empty one, all that follows it.     *)
FileData(part) == IF part.data = <<>> THEN part.rest ELSE part.data

(* multipart_fill_ferite_uarray, for one part.  The name of a MultiPart is *)
(* its key.                                                                *)
Entry(part, f) ==
    CASE f.name # "Content-Disposition" \/ (f.filename = NoFile /\ part.data = <<>>) -> <<>>
      [] f.name = "Content-Disposition" /\ f.filename # NoFile ->
            << [key |-> f.varname, base |-> FileName(f.filename), val |-> FileData(part)] >>
      [] OTHER -> << [key |-> f.varname, val |-> part.data] >>

Fill(parts) ==
    FlattenSeq([i \in DOMAIN parts |->
                   FlattenSeq([j \in DOMAIN parts[i].fields |-> Entry(parts[i], parts[i].fields[j])])])

(* A header line without a colon has no list of parameters: the loop over  *)
(* them starts at a null pointer.                                          *)
NullParams(parts) == \E i \in DOMAIN parts : \E f \in Range(parts[i].fields) : ~f.listed

-----------------------------------------------------------------------------
(* What the browser sends for a form: one part for each of its controls.   *)
(* A header may be folded: its second line has no colon.                   *)
Headers(c) ==
    CASE c.header = "none" -> <<>>
      [] c.header = "type" -> <<ContentType, CRLF>>
      [] c.header = "odd" -> <<OddType, CRLF>>
      [] c.header = "folded" -> <<ContentType, CRLF, NoColon, CRLF>>

PartOf(c) ==
    <<Dashes, Boundary, CRLF, Disposition(c.name, c.file), CRLF>>
      \o Headers(c) \o <<CRLF>> \o c.data \o <<CRLF>>

Closing == <<Dashes, Boundary, Dashes, CRLF>>

Body(form) == FlattenSeq([i \in DOMAIN form |-> PartOf(form[i])]) \o Closing

=============================================================================
