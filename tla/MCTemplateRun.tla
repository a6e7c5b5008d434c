---------------------------- MODULE MCTemplateRun ----------------------------
(***************************************************************************)
(* Every sequence of at most MaxLen pieces, with the usual tag for each    *)
(* kind of piece; every balanced one of at most MaxTagged pieces, with all *)
(* the tags below; and a few with a method call.                           *)
(***************************************************************************)
EXTENDS TemplateText, FiniteSets

CONSTANTS MaxLen, MaxTagged

Tag(op, name, from) == [op |-> op, name |-> name, from |-> from]

Tags(kind) ==
    CASE kind = "open" -> {Tag("loop", "foo", "root"), Tag("loop", "foo", "up"),
                           Tag("if", "flag", "current"), Tag("unless", "flag", "up")}
      [] kind = "subst" -> {Tag("show", "", "current"), Tag("show", "", "up"),
                            Tag("show", "foo", "current"), Tag("show", "foo", "root")}
      [] kind = "text" -> {Tag("text", "", "current")}
      [] kind = "end" -> {Tag("end", "", "current")}
      [] OTHER -> {}

Usual(kind) ==
    CASE kind = "open" -> Tag("if", "", "current")
      [] kind = "subst" -> Tag("show", "foo", "current")
      [] kind = "end" -> Tag("end", "", "current")
      [] OTHER -> Tag("text", "", "current")

Balanced(d) ==
    LET open(i) == Cardinality({j \in 1..i : d[j] = "open"})
                   - Cardinality({j \in 1..i : d[j] = "end"})
    IN \A i \in 1..Len(d) : open(i) >= 0 /\ (i = Len(d) => open(i) = 0)

Templates(len, kinds) == UNION {[1..n -> kinds] : n \in 0..len}

(* A method called at once, in a block, before an item and after one.      *)
CallText == {<<"subst">>, <<"subst", "text">>, <<"open", "subst", "subst", "end">>,
             <<"subst", "open", "subst", "end", "subst">>}

CallTags(d) ==
    [n \in 1..Len(d) |->
        CASE d[n] = "open" -> Tag("loop", "foo", "root")
          [] d[n] = "subst" /\ n < 3 -> Tag("show", "call", "root")
          [] d[n] = "subst" /\ n = 3 ->
               IF d[2] = "open" THEN Tag("show", "call", "root") ELSE Tag("show", "", "current")
          [] d[n] = "subst" /\ n > 3 -> Tag("show", "foo", "root")
          [] OTHER -> Usual(d[n])]

MCInit ==
    \/ \E d \in Templates(MaxLen, Kinds) :
          RunInit(d, [n \in 1..Len(d) |-> Usual(d[n])])
    \/ \E d \in Templates(MaxTagged, {"open", "end", "subst", "text"}) :
          /\ Balanced(d)
          /\ \E t \in [1..Len(d) -> UNION {Tags(k) : k \in Kinds}] :
                (\A n \in 1..Len(d) : t[n] \in Tags(d[n])) /\ RunInit(d, t)
    \/ \E d \in CallText : RunInit(d, CallTags(d))

(* What is parsed later: an array in a block, and a text that fails.       *)
MCLater ==
    { [doc |-> d, tags |-> [n \in 1..Len(d) |-> Usual(d[n])]] :
        d \in { <<"open", "subst", "end">>, <<"text", "error">> } }

MCSpec == MCInit /\ [][RunNext]_<<parse, tag, object, render>>
=============================================================================
