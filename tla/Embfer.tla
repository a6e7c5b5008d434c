-------------------------------- MODULE Embfer --------------------------------
(***************************************************************************)
(* Embfer objects and the conversions they make.  The table of tag         *)
(* handlers, the list of closures behind it and the name of the output     *)
(* function belong to the process: every object makes, fills and destroys  *)
(* the same ones.  A conversion alternates between text and tags; a tag    *)
(* with a closure runs the script's code, which may make, use and drop     *)
(* other Embfer objects, as Embfer.import() does.                          *)
(***************************************************************************)
EXTENDS Integers, Sequences, SequencesExt, FiniteSetsExt

CONSTANTS Objs,         \* Embfer objects of the script
          Tags,         \* tags the script registers
          Chars,        \* characters
          Docs,         \* documents it converts, sequences of characters
          MaxClosures   \* EMB_MAX_CLOSURES


VARIABLES objs,       \* objects that were made and not yet destroyed
          table,      \* __embfer_callback_hash: the script's tags in it, or NoTable
          slots,      \* emb_closurehold, up to emb_closure_count
          outputFn,   \* whose output function is the current one
          hasFn,      \* objects that have set one
          conv,       \* the conversion in progress
          misuse,     \* two objects existed at once, or a tag was registered or looked up without one
          fault       \* the first access that is undefined

vars == <<objs, table, slots, outputFn, hasFn, conv, misuse, fault>>

NoTable == {<<"none">>}
NoObj == "none"
Idle == [pc |-> "idle"]
NoTag == [what |-> "none"]

Blank == "blank"

BuiltIn == { <<>>, <<"=">>, <<"#">> }

ASSUME ClosuresAssumption == MaxClosures \in Nat \ {0}
ASSUME ObjsAssumption == NoObj \notin Objs
ASSUME DocsAssumption == {"<", "?", ">", Blank} \subseteq Chars /\ Docs \subseteq Seq(Chars)
(* The script registers types of its own.                                  *)
ASSUME TagsAssumption == Tags \cap (BuiltIn \cup NoTable) = {}

Init ==
    /\ objs = {} /\ hasFn = {}
    /\ table = NoTable
    /\ slots = <<>>
    /\ outputFn = NoObj
    /\ conv = Idle
    /\ misuse = FALSE
    /\ fault = "none"

(* The script's code runs between conversions and inside a tag's closure.  *)
ScriptRuns == fault = "none" /\ conv.pc \in {"idle", "handler"}

-----------------------------------------------------------------------------
(* Objects                                                                 *)

(* Mutant: the list of closures is kept.                                   *)
NewKeepsSlots(o) ==
    /\ ScriptRuns /\ o \notin objs
    /\ objs' = objs \cup {o}
    /\ table' = IF table = NoTable THEN {} ELSE table
    /\ misuse' = (misuse \/ objs # {})
    /\ UNCHANGED <<slots, outputFn, hasFn, conv, fault>>

(* The constructor makes the table if there is none and forgets all        *)
(* closures.  It is declared static, like the destructor (embfer.fec:96,   *)
(* 104): the model has ferite call both for each object all the same.      *)
New(o) ==
    /\ ScriptRuns /\ o \notin objs
    /\ objs' = objs \cup {o}
    /\ table' = IF table = NoTable THEN {} ELSE table
    /\ slots' = <<>>
    /\ misuse' = (misuse \/ objs # {})
    /\ UNCHANGED <<outputFn, hasFn, conv, fault>>

(* Mutant: the table outlives its objects.                                 *)
DropKeepsTable(o) ==
    /\ ScriptRuns /\ o \in objs
    /\ conv.pc = "handler" => conv.by # o
    /\ objs' = objs \ {o} /\ hasFn' = hasFn \ {o}
    /\ slots' = [i \in DOMAIN slots |-> [slots[i] EXCEPT !.live = FALSE]]
    /\ fault' = IF \E i \in DOMAIN slots : ~slots[i].live THEN "twice" ELSE fault
    /\ UNCHANGED <<table, outputFn, conv, misuse>>

(* The destructor destroys the table and frees every closure in the list,  *)
(* which keeps its length.                                                 *)
Drop(o) ==
    /\ ScriptRuns /\ o \in objs
    /\ conv.pc = "handler" => conv.by # o
    /\ objs' = objs \ {o} /\ hasFn' = hasFn \ {o}
    /\ table' = NoTable
    /\ slots' = [i \in DOMAIN slots |-> [slots[i] EXCEPT !.live = FALSE]]
    /\ fault' = IF \E i \in DOMAIN slots : ~slots[i].live THEN "twice" ELSE fault
    /\ UNCHANGED <<outputFn, conv, misuse>>

SetOutputFunction(o) ==
    /\ ScriptRuns /\ o \in objs
    /\ outputFn' = o /\ hasFn' = hasFn \cup {o}
    /\ UNCHANGED <<objs, table, slots, conv, misuse, fault>>

(* registerTagHandler, a static function.                                  *)
RegisterTagHandler(t) ==
    /\ ScriptRuns
    /\ misuse' = (misuse \/ objs = {})
    /\ IF Len(slots) < MaxClosures - 1
       THEN /\ slots' = Append(slots, [tag |-> t, live |-> TRUE])
            /\ table' = IF table = NoTable THEN table ELSE table \cup {t}
            /\ fault' = IF table = NoTable THEN "table" ELSE fault
       ELSE UNCHANGED <<slots, table, fault>>
    /\ UNCHANGED <<objs, outputFn, hasFn, conv>>

(* The first closure of a tag, and whether a freed one is read on the way. *)
SlotOf(t) == SelectInSeq(slots, LAMBDA s : s.tag = t \/ ~s.live)

HasTagHandler(t) ==
    /\ ScriptRuns
    /\ misuse' = (misuse \/ objs = {})
    /\ fault' = IF SlotOf(t) # 0 /\ ~slots[SlotOf(t)].live THEN "freed" ELSE fault
    /\ UNCHANGED <<objs, table, slots, outputFn, hasFn, conv>>

-----------------------------------------------------------------------------
(* Conversions                                                             *)

FromString(o, d) ==
    /\ fault = "none" /\ conv = Idle /\ o \in objs
    /\ conv' = [pc |-> IF d = <<>> THEN "done" ELSE "text",
                by |-> o, own |-> o \in hasFn, doc |-> d, loc |-> 1, out |-> <<>>,
                tag |-> NoTag]
    /\ UNCHANGED <<objs, table, slots, outputFn, hasFn, misuse, fault>>

(* The first place from i on where the two characters stand, or the end.   *)
Find(d, i, c, e) ==
    LET at == { k \in i .. Len(d) - 1 : d[k] = c /\ d[k + 1] = e }
    IN  IF at = {} THEN Len(d) + 1 ELSE Min(at)

(* Each character, and whether a backslash is put in front of it.          *)
Special == {"$", "\\", "\""}

Escaped(s) == [i \in DOMAIN s |-> [c |-> s[i], esc |-> s[i] \in Special]]

(* __embfer_walk_until_embfer_tag                                          *)
WalkText ==
    /\ fault = "none" /\ conv.pc = "text"
    /\ LET j == Find(conv.doc, conv.loc, "<", "?")
           text == SubSeq(conv.doc, conv.loc, j - 1)
           chunk == [what |-> "text", at |-> conv.loc, fn |-> outputFn, by |-> "text",
                     chars |-> Escaped(text)]
       IN  /\ conv' = [conv EXCEPT !.loc = j, !.pc = IF j > Len(conv.doc) THEN "done" ELSE "tag",
                                   !.out = IF text = <<>> THEN @ ELSE Append(@, chunk)]
           /\ fault' = IF text # <<>> /\ outputFn = NoObj THEN "output" ELSE fault
    /\ UNCHANGED <<objs, table, slots, outputFn, hasFn, misuse>>

(* The tag at loc: its type ends at the first blank, and it is closed by   *)
(* the first "?>", or by the end of the document.                          *)
TagAt(doc, loc, fn) ==
    LET start == loc + 2
        end == Find(doc, start, "?", ">")
        inside == SubSeq(doc, start, end - 1)
        blank == SelectInSeq(inside, LAMBDA c : c = Blank)
        after == IF blank = 0 THEN Len(inside) + 1 ELSE blank
    IN  [what |-> "tag", at |-> loc, type |-> SubSeq(inside, 1, after - 1),
         blank |-> IF blank = 0 THEN <<>> ELSE <<Blank>>,
         contents |-> SubSeq(inside, after + 1, Len(inside)), closed |-> end <= Len(doc),
         fn |-> fn, by |-> "none"]

Tag == TagAt(conv.doc, conv.loc, outputFn)

(* All that stands between "<?" and "?>".                                  *)
Inside(tag) == tag.type \o tag.blank \o tag.contents

(* Mutant: the walk after a tag starts at its ">".                         *)
EmitShort(tag) ==
    LET next == conv.loc + 2 + Len(Inside(tag)) + (IF tag.closed THEN 1 ELSE 0)
    IN  conv' = [conv EXCEPT !.loc = next, !.out = Append(@, tag), !.tag = NoTag,
                             !.pc = IF next > Len(conv.doc) THEN "done" ELSE "text"]

(* What follows a tag.                                                     *)
Emit(tag) ==
    LET next == conv.loc + 2 + Len(Inside(tag)) + (IF tag.closed THEN 2 ELSE 0)
    IN  conv' = [conv EXCEPT !.loc = next, !.out = Append(@, tag), !.tag = NoTag,
                             !.pc = IF next > Len(conv.doc) THEN "done" ELSE "text"]

(* __embferclass_tag_handler: the closure of the tag's first slot, if the  *)
(* slots were not reset since; the interpreter it is handed is the value   *)
(* of a variable that was never set.                                       *)
CallClosure(t) ==
    LET i == SlotOf(t.type)
    IN  IF i = 0
        THEN Emit([t EXCEPT !.by = "dropped"]) /\ UNCHANGED fault
        ELSE \/ /\ slots[i].live
                /\ conv' = [conv EXCEPT !.pc = "handler", !.tag = t]
                /\ UNCHANGED fault
             \/ /\ fault' = IF slots[i].live THEN "script" ELSE "freed"
                /\ UNCHANGED conv

(* __embfer_walk_until_end_of_embfer_tag: the handler of the tag's type, or *)
(* for an unknown type the tag's own text, behind what a FeriteBuffer       *)
(* looks like when it is read as a string.                                 *)
WalkTag ==
    /\ fault = "none" /\ conv.pc = "tag"
    /\ CASE table = NoTable -> fault' = "table" /\ UNCHANGED conv
         [] table # NoTable /\ Tag.type \in BuiltIn ->
              /\ Emit([Tag EXCEPT !.by = "builtin"])
              /\ fault' = IF Tag.type = <<"=">> /\ outputFn = NoObj THEN "output" ELSE fault
         [] table # NoTable /\ Tag.type \in table -> CallClosure(Tag)
         [] OTHER -> /\ Emit([Tag EXCEPT !.by = "unknown"])
                     /\ fault' = IF outputFn = NoObj THEN "output" ELSE fault
    /\ UNCHANGED <<objs, table, slots, outputFn, hasFn, misuse>>

(* The closure's value goes into the output.                               *)
HandlerReturns ==
    /\ fault = "none" /\ conv.pc = "handler"
    /\ Emit([conv.tag EXCEPT !.by = "closure"])
    /\ UNCHANGED <<objs, table, slots, outputFn, hasFn, misuse, fault>>

(* The generated program is returned.                                      *)
Returned ==
    /\ fault = "none" /\ conv.pc = "done"
    /\ conv' = Idle
    /\ UNCHANGED <<objs, table, slots, outputFn, hasFn, misuse, fault>>

Next ==
    \/ \E o \in Objs : New(o) \/ Drop(o) \/ SetOutputFunction(o)
    \/ \E t \in Tags : RegisterTagHandler(t) \/ HasTagHandler(t)
    \/ \E o \in Objs, d \in Docs : FromString(o, d)
    \/ WalkText \/ WalkTag \/ HandlerReturns \/ Returned

Spec == Init /\ [][Next]_vars

-----------------------------------------------------------------------------
(* Properties                                                              *)

Source(chunk) ==
    IF chunk.what = "text" THEN [i \in DOMAIN chunk.chars |-> chunk.chars[i].c]
    ELSE <<"<", "?">> \o Inside(chunk) \o (IF chunk.closed THEN <<"?", ">">> ELSE <<>>)

Holds(s, c, e) == Find(s, 1, c, e) <= Len(s)

(* Where what follows chunk i begins.                                      *)
NextAt(i) == IF i = Len(conv.out) THEN conv.loc ELSE conv.out[i + 1].at

(* The conversion loses nothing, repeats nothing and splits at the right   *)
(* places: the chunks it emitted follow each other from the start of the   *)
(* document to where it stands, and each is what the document says there;  *)
(* no text holds the start of a tag, no tag holds its end before its end,  *)
(* and only the last one may be open.                                      *)
LosslessScan ==
    conv # Idle =>
      /\ (IF conv.out = <<>> THEN conv.loc ELSE conv.out[1].at) = 1
      /\ \A i \in DOMAIN conv.out :
           LET c == conv.out[i]
           IN  /\ Source(c) = SubSeq(conv.doc, c.at, NextAt(i) - 1)
               /\ IF c.what = "text" THEN ~Holds(Source(c), "<", "?")
                  ELSE /\ ~Holds(Inside(c), "?", ">")
                       /\ Blank \notin ToSet(c.type)
                       /\ ~c.closed => i = Len(conv.out) /\ conv.loc = Len(conv.doc) + 1
      /\ conv.pc = "done" => conv.loc = Len(conv.doc) + 1

(* While one object exists at a time the table is its own: it is there     *)
(* exactly while the object is, it knows the tags whose closures are in    *)
(* the list, and none of those was freed.                                  *)
TableAgrees ==
    ~misuse =>
      /\ (table = NoTable) = (objs = {})
      /\ objs # {} => /\ table = { slots[i].tag : i \in DOMAIN slots }
                      /\ \A i \in DOMAIN slots : slots[i].live
      /\ Len(slots) < MaxClosures

(* A missing table, a freed closure, a closure released twice and a tag    *)
(* that disappears from the output all need a second object, or a tag      *)
(* handler used without any.  An object that set its output function       *)
(* before it converts never lacks one, and while one object exists at a    *)
(* time all it emits is printed with its own.  The interpreter that was    *)
(* never set (utils.c:18) is met only at a tag for which the script        *)
(* registered a closure that is still there.                               *)
FaultsExplained ==
    /\ fault \in {"table", "freed", "twice"} => misuse
    /\ fault = "script" =>
         \E i \in DOMAIN slots : slots[i].live /\ slots[i].tag = Tag.type
    /\ fault = "output" => ~conv.own
    /\ conv # Idle /\ ~misuse =>
         \A i \in DOMAIN conv.out : /\ conv.out[i].by # "dropped"
                                    /\ conv.own => conv.out[i].fn = conv.by

=============================================================================
