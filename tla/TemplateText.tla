---------------------------- MODULE TemplateText -----------------------------
(***************************************************************************)
(* What a template should show, read off its text instead of its tree: the *)
(* reference that the output of TemplateRun is compared with.              *)
(***************************************************************************)
EXTENDS TemplateRun, SequencesExt

(* What a block sees.                                                      *)
Contexts == [current : Values, previous : Values]

(* An item's block is one level below the context the array is shown in.   *)
ItemContext(i, c) == [current |-> Item(i), previous |-> c.current]

Places == 1..Len(doc) + 1

(* The end of a block, or of the template.                                 *)
Ends(n) == n > Len(doc) \/ doc[n] = "end"

(* The place behind a piece, or behind the ] of the block it opens.        *)
After(n) == IF doc[n] = "open" THEN 1 + CHOOSE e \in Nodes : Closes(e, n) ELSE n + 1

(* What a piece shows in a context, if what is shown from each later place *)
(* on, to the end of its block, is rest.                                   *)
Shows(n, c, rest) ==
    LET t == tag[n]
        v == Expand(t.name, Origin(t, c))
    IN  CASE t.op = "text" -> << <<n, Null>> >>
          [] t.op = "show" -> IF v = Null THEN <<>> ELSE << <<n, v>> >>
          [] t.op = "loop" ->
               IF v = Array THEN FlattenSeq([i \in 1..size |-> rest[n + 1][ItemContext(i - 1, c)]])
               ELSE <<>>
          [] OTHER ->
               IF Chosen(t, c) = Null THEN <<>>
               ELSE rest[n + 1][[current |-> Chosen(t, c), previous |-> c.current]]

From(rest) ==
    [n \in Places |-> [c \in Contexts |->
       IF Ends(n) THEN <<>> ELSE Shows(n, c, rest) \o rest[After(n)][c]]]

Nothing == [n \in Places |-> [c \in Contexts |-> <<>>]]

(* Every piece is followed by fewer than there are in the template.        *)
Texts ==
    LET text[k \in Nat] == IF k = 0 THEN Nothing ELSE From(text[k - 1])
    IN  text[Len(doc)]

RenderedText == Texts[1][[current |-> Mother, previous |-> Null]]

(* Piece n is directly in the block m.                                     *)
Block(m, n) ==
    /\ m < n /\ doc[m] = "open"
    /\ depth[n] = depth[m] + 1
    /\ \A k \in m + 1..n : depth[k] > depth[m]

(* No [<x] is directly in a loop: tag_run has the item before there        *)
(* (utility.c:31), and not the context one level up (ChangeLog:5-6).       *)
UpOutsideLoops ==
    \A m \in Nodes, n \in Nodes :
       Block(m, n) /\ tag[m].op = "loop" => tag[n].from # "up"

(* A balanced template without odd tags, in which < is not used where the  *)
(* code and its ChangeLog differ, is rendered as its text says if no       *)
(* method changes the object meanwhile: each piece as often as the blocks  *)
(* around it say, in their order, with the variable of the nearest block   *)
(* or, with <, of the block around that one (utility.c:15-98).             *)
RendersText ==
    outcome = "tree" /\ runs > 0 /\ frames = <<>> /\ fault = "none"
      /\ "changed" \notin causes
      /\ (\A n \in Nodes : doc[n] # "odd") /\ UpOutsideLoops =>
       out = RenderedText
=============================================================================
