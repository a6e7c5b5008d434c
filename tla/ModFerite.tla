------------------------------ MODULE ModFerite ------------------------------
(***************************************************************************)
(* One Apache child process with mod_ferite: the directory sections of the *)
(* configuration are read and merged, then requests are handled one after  *)
(* another.  A request's script may be refused by the compiler or fail.    *)
(* Between requests a process keeps the switch of ferite's script cache    *)
(* and what handlers did not free.                                         *)
(***************************************************************************)
EXTENDS Integers, Sequences, FiniteSets

CONSTANTS Names,          \* names of FeriteSetVar variables
          Values,         \* their values
          Places,         \* working directories besides the default
          MaxDirectives,  \* directives in all sections
          MaxRequests     \* requests of the process

ASSUME BoundsAssumption == MaxDirectives \in Nat /\ MaxRequests \in Nat \ {0}

VARIABLES log,       \* the directives of each section, in order
          conf,      \* the ModFeriteConfig built from them
          cacheOn,   \* ferite's cache switch
          lost,      \* TimeLine and LastTime pairs that were not freed
          req,       \* the request being handled, or NoRequest
          served     \* requests handled so far: what is known of each

vars == <<log, conf, cacheOn, lost, req, served>>

Sections == {"outer", "inner"}   \* inner lies in outer
Tmp == "/tmp"
NoRequest == [pc |-> "none"]

Kinds == {"fe", "fsp", "fsp_unreadable", "missing"}
Methods == {"GET", "POST", "HEAD", "PUT"}
Outcomes == {"ok", "error", "null"}   \* "null": of a compilation

-----------------------------------------------------------------------------
(* Configuration                                                           *)

Create == [vars |-> <<>>, debug |-> 0, cache |-> FALSE, dir |-> Tmp]

Directives ==
    [what : {"cache"}, value : BOOLEAN] \cup [what : {"debug"}, value : {0, 1}]
      \cup [what : {"dir"}, value : Places \cup {Tmp}]
      \cup [what : {"var"}, name : Names, value : Values]

(* mod_ferite_set_cache, _set_debug, _add_working_directory, _add_variable: *)
(* "off" and level 0 are ignored.                                          *)
Apply(c, d) ==
    CASE d.what = "cache" -> [c EXCEPT !.cache = @ \/ d.value]
      [] d.what = "debug" -> [c EXCEPT !.debug = IF d.value # 0 THEN d.value ELSE @]
      [] d.what = "dir" -> [c EXCEPT !.dir = d.value]
      [] d.what = "var" -> [c EXCEPT !.vars = Append(@, <<d.name, d.value>>)]

(* Mutant: the inner section's variables come after the outer one's.       *)
MergeOuterFirst(base, over) ==
    [vars |-> base.vars \o over.vars, debug |-> over.debug, cache |-> over.cache,
     dir |-> IF over.dir # Tmp THEN over.dir ELSE base.dir]

(* apr_table_overlay puts the entries of the inner table in front.         *)
Merge(base, over) ==
    [vars |-> over.vars \o base.vars, debug |-> over.debug, cache |-> over.cache,
     dir |-> IF over.dir # Tmp THEN over.dir ELSE base.dir]

(* Apache makes a ModFeriteConfig for a section at its first ferite         *)
(* directive: a section without one is served with the outer one's.        *)
ConfOf(section) ==
    LET around == Merge(Create, conf["outer"])
    IN  IF section = "outer" \/ log["inner"] = <<>> THEN around
        ELSE Merge(around, conf["inner"])

Init ==
    /\ log = [s \in Sections |-> <<>>]
    /\ conf = [s \in Sections |-> Create]
    /\ cacheOn = FALSE
    /\ lost = 0
    /\ req = NoRequest
    /\ served = <<>>

Directive(s, d) ==
    /\ req = NoRequest /\ served = <<>>
    /\ Len(log["outer"]) + Len(log["inner"]) < MaxDirectives
    /\ log' = [log EXCEPT ![s] = Append(@, d)]
    /\ conf' = [conf EXCEPT ![s] = Apply(@, d)]
    /\ UNCHANGED <<cacheOn, lost, req, served>>

-----------------------------------------------------------------------------
(* The handler                                                             *)

(* A request that the handler answers with status before it makes a script. *)
Answer(r, status) == [r EXCEPT !.pc = "done", !.ret = status]

NewRequest(s, k, m) ==
    [pc |-> "arrived", section |-> s, kind |-> k, method |-> m, ret |-> "none",
     script |-> FALSE, nulls |-> 0, failed |-> FALSE, globals |-> <<>>, page |-> "none",
     cached |-> FALSE]

Arrive(s, k, m) ==
    /\ req = NoRequest /\ Len(served) < MaxRequests
    /\ req' = NewRequest(s, k, m)
    /\ UNCHANGED <<log, conf, cacheOn, lost, served>>

(* Mutant: the switch is turned on for requests that get a script.         *)
LookFirst ==
    /\ req.pc = "arrived"
    /\ req' = CASE req.kind = "missing" -> Answer(req, "404")
                [] req.kind # "missing" /\ req.method = "HEAD" -> Answer(req, "OK")
                [] req.kind # "missing" /\ req.method = "PUT" -> Answer(req, "DECLINED")
                [] OTHER -> [req EXCEPT !.pc = IF req.kind = "fe" THEN "compile" ELSE "convert"]
    /\ cacheOn' = (cacheOn \/ (req'.pc # "done" /\ ConfOf(req.section).cache))
    /\ UNCHANGED <<log, conf, lost, served>>

(* The first lines of the handler: the cache switch is turned on before the *)
(* file and the method are looked at, and never off.                       *)
Look ==
    /\ req.pc = "arrived"
    /\ cacheOn' = (cacheOn \/ ConfOf(req.section).cache)
    /\ req' = CASE req.kind = "missing" -> Answer(req, "404")
                [] req.kind # "missing" /\ req.method = "HEAD" -> Answer(req, "OK")
                [] req.kind # "missing" /\ req.method = "PUT" -> Answer(req, "DECLINED")
                [] OTHER -> [req EXCEPT !.pc = IF req.kind = "fe" THEN "compile" ELSE "convert"]
    /\ UNCHANGED <<log, conf, lost, served>>

(* mod_ferite_new_script, then the compiler's answer: a script, a script    *)
(* with an error, or none, and then the pair is out of reach.              *)
Compiled(page, outcome, otherwise) ==
    /\ lost' = IF outcome = "null" THEN lost + 1 ELSE lost
    /\ req' = IF outcome = "null" THEN [otherwise EXCEPT !.nulls = @ + 1]
              ELSE [req EXCEPT !.script = TRUE, !.page = page, !.cached = cacheOn,
                               !.pc = IF outcome = "ok" THEN "globals" ELSE "failed"]

(* An .fsp file is converted and the text compiled.  The file itself is    *)
(* compiled when it cannot be read, which fails, or when the text gave no  *)
(* script.                                                                 *)
Convert(outcome) ==
    /\ req.pc = "convert"
    /\ IF req.kind = "fsp" THEN Compiled("converted", outcome, [req EXCEPT !.pc = "compile"])
       ELSE req' = [req EXCEPT !.pc = "compile"] /\ UNCHANGED lost
    /\ UNCHANGED <<log, conf, cacheOn, served>>

Compile(outcome) ==
    /\ req.pc = "compile"
    /\ req.kind = "fsp_unreadable" => outcome # "ok"
    /\ Compiled("plain", outcome, Answer(req, "404"))
    /\ UNCHANGED <<log, conf, cacheOn, served>>

(* mod_ferite_create_global_variables                                      *)
CreateGlobals ==
    /\ req.pc = "globals"
    /\ LET c == ConfOf(req.section)
       IN  req' = [req EXCEPT !.globals = Append(c.vars, <<"FeriteWorkingDirectory", c.dir>>),
                              !.pc = "execute"]
    /\ UNCHANGED <<log, conf, cacheOn, lost, served>>

(* Mutant: errors are shown as the server's outer section says.            *)
HandleErrorOfServer ==
    /\ req.pc = "failed"
    /\ lost' = lost + 1
    /\ req' = IF ConfOf("outer").debug # 0
              THEN [Answer(req, "OK") EXCEPT !.script = FALSE, !.failed = TRUE, !.page = "errors"]
              ELSE [Answer(req, "500") EXCEPT !.script = FALSE, !.failed = TRUE]
    /\ UNCHANGED <<log, conf, cacheOn, served>>

(* mod_ferite_handle_error; the pair that new_script made is not freed.    *)
HandleError ==
    /\ req.pc = "failed"
    /\ lost' = lost + 1
    /\ req' = IF ConfOf(req.section).debug # 0
              THEN [Answer(req, "OK") EXCEPT !.script = FALSE, !.failed = TRUE, !.page = "errors"]
              ELSE [Answer(req, "500") EXCEPT !.script = FALSE, !.failed = TRUE]
    /\ UNCHANGED <<log, conf, cacheOn, served>>

(* The script returns: the pair and the script are freed.                  *)
ScriptEnds(outcome) ==
    /\ req.pc = "execute" /\ outcome # "null"
    /\ req' = IF outcome = "ok" THEN [Answer(req, "OK") EXCEPT !.script = FALSE]
              ELSE [req EXCEPT !.pc = "failed"]
    /\ UNCHANGED <<log, conf, cacheOn, lost, served>>

(* Apache goes on to the next request.                                     *)
Respond ==
    /\ req.pc = "done"
    /\ served' = Append(served, [section |-> req.section, failed |-> req.failed, nulls |-> req.nulls])
    /\ req' = NoRequest
    /\ UNCHANGED <<log, conf, cacheOn, lost>>

Next ==
    \/ \E s \in Sections : \/ \E d \in Directives : Directive(s, d)
                           \/ \E k \in Kinds, m \in Methods : Arrive(s, k, m)
    \/ Look \/ CreateGlobals \/ HandleError \/ Respond
    \/ \E outcome \in Outcomes : Convert(outcome) \/ Compile(outcome) \/ ScriptEnds(outcome)

Spec == Init /\ [][Next]_vars

-----------------------------------------------------------------------------
(* Properties                                                              *)

Given(section, what, value) ==
    \E i \in DOMAIN log[section] : log[section][i] = [what |-> what, value |-> value]

(* The section whose switches are those of the requests to a section: its  *)
(* own with any ferite directive in it, or the one around it.              *)
Whose(section) == IF log[section] = <<>> THEN "outer" ELSE section

Switched(section, what, value) == Given(Whose(section), what, value)

(* How many of the first n directives of a section give a variable.        *)
Variables(section, n) == Cardinality({i \in 1..n : log[section][i].what = "var"})

VariablesOf(section) == Variables(section, Len(log[section]))

(* The variables of a section are in a table in the order in which they    *)
(* were given, behind its first n entries.                                 *)
InOrder(section, table, n) ==
    \A i \in DOMAIN log[section] :
       log[section][i].what = "var" =>
         table[n + Variables(section, i)] = <<log[section][i].name, log[section][i].value>>

LastOf(S) == CHOOSE i \in S : \A j \in S : j <= i

(* The working directory given last in the section.                        *)
DirOf(section) ==
    LET given == {i \in DOMAIN log[section] : log[section][i].what = "dir"}
    IN  IF given = {} THEN Tmp ELSE log[section][LastOf(given)].value

(* A script's global variables are its own section's and then those of the *)
(* section around it, each in order; the working directory is the nearest  *)
(* one that is not the default (mod_ferite.c:302-305 and 217-229).         *)
ScriptSeesConfig ==
    req # NoRequest /\ req.pc = "execute" =>
        LET inner == IF req.section = "inner" THEN VariablesOf("inner") ELSE 0
            all == inner + VariablesOf("outer")
        IN  /\ Len(req.globals) = all + 1
            /\ req.section = "inner" => InOrder("inner", req.globals, 0)
            /\ InOrder("outer", req.globals, inner)
            /\ req.globals[all + 1] =
                 <<"FeriteWorkingDirectory",
                   IF req.section = "inner" /\ DirOf("inner") # Tmp THEN DirOf("inner")
                   ELSE DirOf("outer")>>

(* A request is answered by what it asks for and the section it is in,     *)
(* whatever the process served before: errors are shown where FeriteDebug  *)
(* was given in that section or, when nothing of ferite is in it, around   *)
(* it (mod_ferite.c:303), and no script is left behind.                    *)
AnswersTell ==
    req # NoRequest /\ req.pc = "done" =>
        LET shown == req.failed /\ Switched(req.section, "debug", 1)
        IN  /\ req.ret = CASE req.kind = "missing" -> "404"
                           [] req.kind # "missing" /\ req.method = "PUT" -> "DECLINED"
                           [] req.failed /\ ~shown -> "500"
                           [] ~req.script /\ req.page = "none" /\ req.nulls # 0 -> "404"
                           [] OTHER -> "OK"
            /\ (req.page = "errors") = shown
            /\ req.page = "converted" => req.kind = "fsp"
            /\ req.kind = "fsp" /\ req.page = "plain" => req.nulls # 0
            /\ ~req.script

(* What outlives a request: the cache is on exactly when a request to a    *)
(* section with FeriteCache On came in, whether or not it was served (a     *)
(* section with another ferite directive does not take over the one        *)
(* around it), and                                                         *)
(* a pair is lost for each failure and each compilation without a script,  *)
(* of which a request has two at most (mod_ferite.c:66, 128, 136).         *)
ProcessExplained ==
    LET all == IF req = NoRequest \/ req.pc = "arrived" THEN served ELSE Append(served, req)
    IN  /\ cacheOn = \E i \in DOMAIN all : Switched(all[i].section, "cache", TRUE)
        /\ lost = Cardinality({i \in DOMAIN all : all[i].failed})
                  + Cardinality({i \in DOMAIN all : all[i].nulls >= 1})
                  + Cardinality({i \in DOMAIN all : all[i].nulls >= 2})

=============================================================================
