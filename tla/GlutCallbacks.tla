---------------------------- MODULE GlutCallbacks ----------------------------
(***************************************************************************)
(* The closures and menu entries the GLUT module keeps for the library:    *)
(* one table of closures per kind of window event, one closure for all     *)
(* timers, and for each menu a closure and a stack of entries beside       *)
(* GLUT's own list.  An address is an int, so the build is a 32-bit one.   *)
(***************************************************************************)
EXTENDS Integers, Sequences, FiniteSets, SequencesExt

CONSTANTS Closures,    \* closure objects of the script
          Parameters,  \* parameters of menu entries and timers
          Ids,         \* ids GLUT gives to windows and to menus
          MaxCalls     \* calls of the script

ASSUME IdsAssumption == Ids \subseteq Nat \ {0} /\ IsFiniteSet(Ids) /\ MaxCalls \in Nat

VARIABLES windows,   \* GLUT: for each window and kind of event, the closure that was asked for
          window,    \* GLUT: the current window, or 0
          hash,      \* the module's tables of closures, one per kind
          single,    \* glut_TimerClosure, glut_IdleClosure and glut_MenuStateClosure
          timers,    \* GLUT: the timers that did not fire yet
          menus,     \* GLUT: the list of each menu
          menu,      \* GLUT: the current menu, or 0
          callback,  \* g_menucallback
          stack,     \* g_menuitems
          heap,      \* GlutMenuPairs that were allocated
          refs,      \* references the module holds on each closure
          given,     \* how often each was given to TimerFunc, IdleFunc or MenuStateFunc
          mixed,     \* menus a submenu was added to
          removed,   \* menus an item of which was removed
          called,    \* the last closure GLUT's callbacks ran
          calls,
          state      \* "runs", "exit" after an error, or the first undefined access

winVars == <<windows, window, hash>>
menuVars == <<menus, menu, callback, stack, heap, mixed, removed>>
vars == <<winVars, menuVars, single, timers, refs, given, called, calls, state>>

Kinds == {"display", "special"}     \* core events, and events of devices and overlays
Singles == {"timer", "idle", "menustate"}
NULL == "NULL"
Unset == "unset"   \* GLUT was given no function
NoCall == [by |-> "none"]
Slots == 1 .. MaxCalls

ASSUME ClosuresAssumption == NULL \notin Closures

Empty == << >>     \* a table without entries
Without(f, x) == [y \in DOMAIN f \ {x} |-> f[y]]
Put(f, x, v) == [y \in DOMAIN f \cup {x} |-> IF y = x THEN v ELSE f[y]]
Free(used) == Ids \ used

(* FeriteGLUTSetup                                                         *)
Init ==
    /\ windows = Empty /\ window = 0
    /\ hash = [k \in Kinds |-> [w \in Ids |-> NULL]]
    /\ single = [s \in Singles |-> NULL] /\ timers = <<>>
    /\ menus = Empty /\ menu = 0 /\ callback = Empty /\ stack = Empty /\ heap = <<>>
    /\ refs = [c \in Closures |-> 0] /\ given = [c \in Closures |-> 0]
    /\ mixed = {} /\ removed = {}
    /\ called = NoCall /\ calls = 0 /\ state = "runs"

(* A call of the script.                                                   *)
Call == state = "runs" /\ calls < MaxCalls /\ calls' = calls + 1 /\ called' = NoCall

-----------------------------------------------------------------------------
(* Windows                                                                 *)

CreateWindow ==
    /\ Call
    /\ \E w \in Free(DOMAIN windows) :
         windows' = Put(windows, w, [k \in Kinds |-> Unset]) /\ window' = w
    /\ UNCHANGED <<hash, menuVars, single, timers, refs, given, state>>

DestroyWindow(w) ==
    /\ Call /\ w \in DOMAIN windows
    /\ windows' = Without(windows, w)
    /\ window' = IF window = w THEN 0 ELSE window
    /\ UNCHANGED <<hash, menuVars, single, timers, refs, given, state>>

SetWindow(w) ==
    /\ Call /\ w \in DOMAIN windows /\ window' = w
    /\ UNCHANGED <<windows, hash, menuVars, single, timers, refs, given, state>>

(* Mutant: the closure that was there is kept.                             *)
RegisterOnce(k, c) ==
    /\ Call /\ window # 0
    /\ LET new == IF hash[k][window] = NULL THEN c ELSE hash[k][window]
       IN  /\ refs' = [d \in Closures |-> refs[d] - (IF d = hash[k][window] THEN 1 ELSE 0)
                                                  + (IF d = new THEN 1 ELSE 0)]
           /\ hash' = [hash EXCEPT ![k][window] = new]
    /\ windows' = [windows EXCEPT ![window][k] = c]
    /\ UNCHANGED <<window, menuVars, single, timers, given, state>>

(* WINDOW_CALLBACK_IMPLEMENTATION                                          *)
Register(k, c) ==
    /\ Call /\ window # 0
    /\ refs' = [d \in Closures |-> refs[d] - (IF d = hash[k][window] THEN 1 ELSE 0)
                                           + (IF d = c THEN 1 ELSE 0)]
    /\ hash' = [hash EXCEPT ![k][window] = c]
    /\ windows' = [windows EXCEPT ![window][k] = c]
    /\ UNCHANGED <<window, menuVars, single, timers, given, state>>

(* GET_INVOKE and CLEAN_INVOKE: GLUT makes the event's window the current  *)
(* one; an error of the script ends the program.  A null closure is handed *)
(* to ferite_object_get_function like any other, which finds no function   *)
(* there or reads through it.                                              *)
Dispatch(w, k, error) ==
    /\ state = "runs" /\ w \in DOMAIN windows
    /\ windows[w][k] # Unset
    /\ window' = w
    /\ called' = [by |-> k, closure |-> hash[k][w]]
    /\ state' = IF ~error THEN state
                ELSE IF hash[k][w] = NULL THEN "null-closure" ELSE "exit"
    /\ UNCHANGED <<windows, hash, menuVars, single, timers, refs, given, calls>>

WindowEvent(w, error) == Dispatch(w, "display", error)
DeviceEvent(w, error) == Dispatch(w, "special", error)

-----------------------------------------------------------------------------
(* Timers, idle and menu state                                             *)

(* The closure may be null: there is none then, and GLUT's events go on.   *)
SetSingle(s, c) ==
    /\ single' = [single EXCEPT ![s] = c]
    /\ refs' = [d \in Closures |-> refs[d] + (IF d = c THEN 1 ELSE 0)]
    /\ given' = [d \in Closures |-> given[d] + (IF d = c THEN 1 ELSE 0)]

IdleFunc(c) ==
    /\ Call /\ SetSingle("idle", c)
    /\ UNCHANGED <<winVars, menuVars, timers, state>>

MenuStateFunc(c) ==
    /\ Call /\ SetSingle("menustate", c)
    /\ UNCHANGED <<winVars, menuVars, timers, state>>

(* GLUT has nothing to do, or a menu is opened or closed.                  *)
SingleEvent(s, error) ==
    /\ state = "runs" /\ single[s] # NULL
    /\ called' = [by |-> s, closure |-> single[s]]
    /\ state' = IF error THEN "exit" ELSE state
    /\ UNCHANGED <<winVars, menuVars, single, timers, refs, given, calls>>

IdleEvent(error) == SingleEvent("idle", error)
MenuStateEvent(error) == SingleEvent("menustate", error)

TimerFunc(c, p) ==
    /\ Call /\ SetSingle("timer", c)
    /\ timers' = Append([i \in DOMAIN timers |-> [timers[i] EXCEPT !.last = FALSE]],
                        [closure |-> c, parameter |-> p, last |-> TRUE])
    /\ UNCHANGED <<winVars, menuVars, state>>

(* Timers expire in any order.                                             *)
TimerExpires(i, error) ==
    /\ state = "runs" /\ i \in DOMAIN timers
    /\ timers' = RemoveAt(timers, i)
    /\ called' = [by |-> "timer", timer |-> timers[i], closure |-> single["timer"],
                  parameter |-> timers[i].parameter]
    /\ state' = IF error THEN "exit" ELSE state
    /\ UNCHANGED <<winVars, menuVars, single, refs, given, calls>>

-----------------------------------------------------------------------------
(* Menus                                                                   *)

CreateMenu(c) ==
    /\ Call
    /\ \E m \in Free(DOMAIN menus) :
         /\ menus' = Put(menus, m, <<>>) /\ menu' = m
         /\ callback' = Put(callback, m, c)
         /\ stack' = Put(stack, m, [ptr |-> 0, at |-> [i \in Slots |-> 0]])
         /\ mixed' = mixed \ {m} /\ removed' = removed \ {m}
    /\ refs' = [refs EXCEPT ![c] = @ + 1]
    /\ UNCHANGED <<winVars, single, timers, heap, given, state>>

(* Every slot of the stack is freed, those above its top as well, and what *)
(* is behind the last one: the loop goes to stack->size, and that word is  *)
(* zero or taken for one more entry.                                       *)
FreeEntries(m, behind) ==
    LET held == { i \in Slots : stack[m].at[i] # 0 }
        freed == { stack[m].at[i] : i \in held }
    IN  /\ heap' = [g \in DOMAIN heap |-> IF g \in freed THEN [heap[g] EXCEPT !.live = FALSE]
                                          ELSE heap[g]]
        /\ state' = IF \/ \E g \in freed : ~heap[g].live
                       \/ \E i, j \in held : i # j /\ stack[m].at[i] = stack[m].at[j]
                    THEN "freed-twice"
                    ELSE IF behind = 0 THEN state ELSE "freed-behind"

Forget(m) ==
    /\ menus' = Without(menus, m) /\ menu' = IF menu = m THEN 0 ELSE menu
    /\ callback' = Without(callback, m) /\ stack' = Without(stack, m)

(* Mutant: the closure of the menu is not given back.                      *)
DestroyMenuKeepsClosure(m, behind) ==
    /\ Call /\ m \in DOMAIN menus
    /\ FreeEntries(m, behind) /\ Forget(m)
    /\ UNCHANGED <<winVars, single, timers, refs, mixed, removed, given>>

DestroyMenu(m, behind) ==
    /\ Call /\ m \in DOMAIN menus
    /\ FreeEntries(m, behind) /\ Forget(m)
    /\ refs' = [refs EXCEPT ![callback[m]] = @ - 1]
    /\ UNCHANGED <<winVars, single, timers, mixed, removed, given>>

SetMenu(m) ==
    /\ Call /\ m \in DOMAIN menus /\ menu' = m
    /\ UNCHANGED <<winVars, menus, callback, stack, heap, mixed, removed, single, timers, refs, given, state>>

Pair(p) == [menu |-> menu, parameter |-> p, live |-> TRUE]

(* What GLUT keeps of an entry, and the parameter that was asked for.      *)
Item(g, p) == [what |-> "entry", value |-> g, parameter |-> p]
SubMenu == [what |-> "submenu"]

AddMenuEntry(p) ==
    /\ Call
    /\ heap' = Append(heap, Pair(p))
    /\ IF menu = 0 THEN UNCHANGED <<stack, menus>>
       ELSE LET g == Len(heap) + 1
                top == stack[menu].ptr + 1
            IN  /\ stack' = [stack EXCEPT ![menu].ptr = top, ![menu].at[top] = g]
                /\ menus' = [menus EXCEPT ![menu] = Append(@, Item(g, p))]
    /\ UNCHANGED <<winVars, menu, callback, mixed, removed, single, timers, refs, given, state>>

AddSubMenu ==
    /\ Call /\ menu # 0
    /\ menus' = [menus EXCEPT ![menu] = Append(@, SubMenu)]
    /\ mixed' = mixed \cup {menu}
    /\ UNCHANGED <<winVars, menu, callback, stack, heap, removed, single, timers, refs, given, state>>

(* The entry in the slot of that number is used again, or a new one made.  *)
ChangeToMenuEntry(i, p) ==
    /\ Call /\ menu # 0 /\ i \in DOMAIN menus[menu]
    /\ LET old == stack[menu].at[i]
           g == IF old = 0 THEN Len(heap) + 1 ELSE old
       IN  /\ heap' = IF old = 0 THEN Append(heap, Pair(p))
                      ELSE [heap EXCEPT ![g].menu = menu, ![g].parameter = p]
           /\ state' = IF old # 0 /\ ~heap[old].live THEN "used-after-free" ELSE state
           /\ stack' = [stack EXCEPT ![menu].at[i] = g]
           /\ menus' = [menus EXCEPT ![menu][i] = Item(g, p)]
    /\ UNCHANGED <<winVars, menu, callback, mixed, removed, single, timers, refs, given>>

ChangeToSubMenu(i) ==
    /\ Call /\ menu # 0 /\ i \in DOMAIN menus[menu]
    /\ menus' = [menus EXCEPT ![menu][i] = SubMenu]
    /\ UNCHANGED <<winVars, menu, callback, stack, heap, mixed, removed, single, timers, refs, given, state>>

(* Mutant: the stack is moved from one entry too far.                      *)
ShiftedLate(at, i, ptr) == [j \in Slots |-> IF i < j /\ j < ptr THEN at[j + 1] ELSE at[j]]

(* memmove takes 4 * (stack_ptr - item) bytes; nothing is moved when that  *)
(* is zero, and a negative length is far beyond the stack.                 *)
Shifted(at, i, ptr) == [j \in Slots |-> IF i <= j /\ j < ptr THEN at[j + 1] ELSE at[j]]

(* ffree may or may not clear the pointer it is given.                     *)
RemoveMenuItem(i, clears) ==
    /\ Call /\ menu # 0 /\ i \in DOMAIN menus[menu]
    /\ LET s == stack[menu]
           old == s.at[i]
           at == IF clears THEN [s.at EXCEPT ![i] = 0] ELSE s.at
       IN  /\ heap' = IF old = 0 THEN heap ELSE [heap EXCEPT ![old].live = FALSE]
           /\ state' = CASE old # 0 /\ ~heap[old].live -> "freed-twice"
                         [] (old = 0 \/ heap[old].live) /\ i > s.ptr -> "moved-beyond"
                         [] OTHER -> state
           /\ stack' = [stack EXCEPT ![menu] = [ptr |-> s.ptr - 1, at |-> Shifted(at, i, s.ptr)]]
    /\ menus' = [menus EXCEPT ![menu] = RemoveAt(@, i)]
    /\ removed' = removed \cup {menu}
    /\ UNCHANGED <<winVars, menu, callback, mixed, single, timers, refs, given>>

(* glut_CreateMenuCallback: GLUT makes the item's menu the current one;    *)
(* errors of the closure are not looked at.                                *)
Select(m, i) ==
    /\ state = "runs" /\ m \in DOMAIN menus /\ i \in DOMAIN menus[m]
    /\ menus[m][i].what = "entry"
    /\ menu' = m
    /\ LET g == menus[m][i].value
       IN  IF heap[g].live
           THEN called' = [by |-> "menu", menu |-> m, item |-> menus[m][i],
                           closure |-> callback[heap[g].menu], parameter |-> heap[g].parameter]
                /\ UNCHANGED state
           ELSE state' = "used-after-free" /\ UNCHANGED called
    /\ UNCHANGED <<winVars, menus, callback, stack, heap, mixed, removed, single, timers, refs, given, calls>>

Next ==
    \/ CreateWindow \/ AddSubMenu
    \/ \E w \in Ids : DestroyWindow(w) \/ SetWindow(w) \/ SetMenu(w)
    \/ \E m \in Ids, behind \in {0, 1} : DestroyMenu(m, behind)
    \/ \E w \in Ids, error \in BOOLEAN : WindowEvent(w, error) \/ DeviceEvent(w, error)
    \/ \E k \in Kinds, c \in Closures \cup {NULL} : Register(k, c)
    \/ \E c \in Closures \cup {NULL} : IdleFunc(c) \/ MenuStateFunc(c)
    \/ \E c \in Closures : CreateMenu(c)
    \/ \E c \in Closures \cup {NULL}, p \in Parameters : TimerFunc(c, p)
    \/ \E error \in BOOLEAN : IdleEvent(error) \/ MenuStateEvent(error)
    \/ \E i \in Slots, error \in BOOLEAN : TimerExpires(i, error)
    \/ \E p \in Parameters : AddMenuEntry(p)
    \/ \E i \in Slots, p \in Parameters : ChangeToMenuEntry(i, p)
    \/ \E i \in Slots : ChangeToSubMenu(i)
    \/ \E i \in Slots, clears \in BOOLEAN : RemoveMenuItem(i, clears)
    \/ \E m \in Ids, i \in Slots : Select(m, i)

Spec == Init /\ [][Next]_vars

-----------------------------------------------------------------------------
(* Properties                                                              *)

(* An event of a window runs the closure that was last given for it in     *)
(* that window, also in a window that has the id of a destroyed one; a     *)
(* timer runs its own closure unless another timer was set after it; an    *)
(* item of a menu without added submenus runs that menu's closure with the *)
(* parameter the script gave the item last, whatever was changed, removed  *)
(* or destroyed before (GLUT_utility.c:67-76, GLUT.fec:285-332).  No        *)
(* closure is used that is null, but in an event of a window and a kind    *)
(* for which the script itself gave null last (GLUT_utility.c:86-90).      *)
CallsOwn ==
    /\ called.by \in Kinds => called.closure = windows[window][called.by]
    /\ called.by = "timer" /\ called.timer.last => called.closure = called.timer.closure
    /\ called.by = "menu" /\ called.menu \notin mixed =>
         called.closure = callback[called.menu] /\ called.parameter = called.item.parameter
    /\ state = "null-closure" => called.by \in Kinds /\ called.closure = NULL

(* A menu without added submenus has its entries in the order of GLUT's    *)
(* items, all allocated and each once.  An entry is freed twice only after *)
(* an item was removed, used after it was freed only in a menu that also   *)
(* has a submenu, and only such a menu moves memory beyond its stack.      *)
EntriesAligned ==
    /\ state \in {"runs", "exit"} =>
         \A m \in DOMAIN menus \ mixed :
           /\ stack[m].ptr = Len(menus[m])
           /\ \A i \in DOMAIN menus[m] :
                LET g == stack[m].at[i]
                IN  /\ heap[g].live
                    /\ menus[m][i].what = "entry" => menus[m][i].value = g
                    /\ \A j \in DOMAIN menus[m] : j # i => stack[m].at[j] # g
    /\ state = "freed-twice" => removed # {}
    /\ state = "used-after-free" => removed \cap mixed # {}
    /\ state = "moved-beyond" => mixed # {}

(* A closure is referenced once for each window and kind it is registered  *)
(* for and each menu it was created for; those of timers, idle and menu    *)
(* state are never given back (GLUT.fec:345-365).                          *)
RefsExact ==
    \A c \in Closures :
        refs[c] = Cardinality({ kw \in Kinds \X Ids : hash[kw[1]][kw[2]] = c })
                  + Cardinality({ m \in DOMAIN callback : callback[m] = c })
                  + given[c]

=============================================================================
