# ferite-modules: verification project

The repository holds the extension modules of the ferite scripting language:
twenty directories that each wrap a C library or a device in classes a script
can use. A module is a `.fec` file (script code and `native` C functions side by
side) and some C files. There is no server and no common core; what the modules
share is the situation they run in:

- Script code is sequential. It is entered again from inside a native function
  when that function calls a block, a method or a closure.
- An object's C data (`odata`) is freed by its destructor, when the collector
  runs it, in any order with other objects.
- Other programs act at the same time: processes at the same serial port, clients
  of the same database, a server at the other end of a transfer.

So the questions worth asking are about sequences of calls: which pointers are
still good after them, who frees what, whether what one object believes agrees
with the device, the database or the library.

## 1. The parts of the system

State is what lives between two calls. "Modelled" names the modules of section 2.

| part | state | operations | what is hard | modelled |
|---|---|---|---|---|
| serial, lock file | the file `LCK..dev`, descriptor, `PORTLOCKFILE` | constructor, `close`, destructor | processes race through open/read/kill/unlink/create; crashes; `close` twice | SerialLock |
| serial, settings | `PORTTI`, `PORTSI`, the device's own settings, unsent output | setters, getters, save/restore, flush, pause, wait | two copies that must agree; refused or partial changes; waiting for paused output | SerialSettings |
| serial, bytes | none besides the descriptor | `read`, `write`, `pwrite` | pure I/O | no |
| dbi, results | connection, `result_list`, the result and parent of each `DbiResult` | queries (with a block too), reading, `finish`, `disconnect`, two destructors | a result is reachable from two places that both free it | DbiResults |
| dbi, upsert | the table | `queryUpdateInsert` | two statements without a transaction; lost answers | DbiUpsert |
| dbi, SQL text | none | placeholders, `method_missing`, SQLBuilder | string functions | no |
| template | the tree, `iter` of each node, the output buffer | `parse`, `parseFile`, `run` | a stack of open blocks; loops whose data the script changes; methods of the object that use the template again | TemplateParse, TemplateRun |
| uxml | the tree, its text, refs into it | `parse`, `parsefile`, queries, `addLeaf`, refs | refs own nothing and keep nothing alive | UxmlParse, UxmlObjects |
| curl | the handle, option copies, two buffers | `setOption`, `setContent`, `exec`, getters; libcurl's callbacks | one buffer for both directions; ownership across overloads; retries | CurlTransfer |
| mod_ferite | directory configs, a script per request, process-wide cache switch and search list | the handler of a request, config create/merge/set | process-wide state between requests; every exit has to clean up | ModFerite |
| apache | the request's parsed parameters, output, headers | `Request`, `getParams`, `query`, upload parsing | the body can be read once; a body cut anywhere; a parser by positions | RequestData, ApacheRequest (headers and printing: no) |
| embfer | tag handlers and output buffer (globals) | convert, register, tags | globals that every object resets, also from a handler | Embfer |
| ogl, GLUT | closures per window, timer, idle; menus and their entries | registering, GLUT's event loop | callbacks long after the call; positions in two lists | GlutCallbacks |
| image | which Imlib image an object owns; Imlib's context | create/load/copy/crop/rotate/save | an implicit current image | planned |
| zip | an archive, entries that read from it | open/read/close/data | objects that share a handle | planned |
| zlib | none | inflate, uncompress | growing output buffer | planned |
| mail | mailbox stream, a global password | open, list, get, send | half renamed, `getMail` always fails (`imap_utility.c:67`) | no |
| MHash, crypt, iconv, sqlite, xslt, aspell | one library handle each | a library call per function | errors of the library | no |
| gettext, curses, GL and GLU | the library's | a library call per function | none of their own | no |

What makes each modelled part correct is stated in section 3 with the properties.
Of the planned ones: *image* and *zip* must free a handle once, after its last
use; *zlib*'s inflate gives back what deflate took, or an error, and no bad
pointer.

## 2. The modules

### SerialLock, SerialLease (serial/serial/serial.fec:77-208, 861-875)

Several processes run the constructor, `close` and the destructor of a Port for
one lock file name. `pc[p]` is the next system call of process `p`, `pid[p]` what
it read from the file, `lock` the file (who made it, whether its pid was written)
and `alive` the processes. Every system call that another process can notice is
an action; open/read/close of the probe is one, because a lock file's text is
written once. Pids may be used again. `hazard` is a history variable with the
events the protocol cannot stand: the death of a process that the file names or
that a constructor is asking about, and an unlink by a Port that was closed
before. Until one of them happens the protocol must be a lock.

`SerialLease` is what users want, a lease with one holder, and
`SerialLock` implements it with `users <- Users, sound <- (hazard = {})`.

### SerialSettings (serial.fec:350-760, 830-860; util.c)

`shadow` is PORTTI, `saved` PORTSI, `device` what the driver uses; `job` is the
setter the script waits in, `unsent`, `tx`, `asked`, `held` are the output and its
flow: the peer may hold the output whenever flow control is on in `device`. A
`tcflow` that fails changes nothing but `answer`, and `asked` is what the last one
to succeed asked for. A setter changes `shadow`, and then the driver applies all of it, a part (POSIX
lets `tcsetattr` succeed then), or nothing. `Outside` is another program.
`drift` has the reasons why `shadow` may differ from `device`: the names of the
setters that failed and left something behind, and what else was done.

### DbiResults (dbi/dbi/dbi.fec, DbiResult.fec, utility.c:60-130)

One Dbi object and the results of its queries. `nodes` is the result list, `live`
what libdbi has allocated, `result`, `kind`, `parent` the fields of the DbiResult
objects, `iter` the queries whose block is running (blocks nest and may call
everything). Addresses of freed results are handed out again. An access to freed
memory sets `fault` and ends the behaviour, so the first one is seen with its
cause.

### DbiUpsert, UpsertTable (dbi.fec:681-722)

`queryUpdateInsert` as its two statements, on several connections. `rows` is the
table; `server` says whether the key has a unique index and whether an UPDATE
counts the rows it matched or changed; a statement may fail, or succeed and lose
its answer. `hazard` has the keys for which two calls were between their
statements at once, or for which an UPDATE to the same values counted as none.
`UpsertTable` is what callers want: a call is open until it has stored its own row,
once, or ends without; its answer says which, unless it raises. `DbiUpsert`
implements it with `open <- Open`, the rows of the calls between their statements.

### TemplateParse, TemplateRun, TemplateText (template/template/utility.c, template.fec)

A template is the sequence of the kinds of its pieces. `TemplateParse` is
`tag_parse`: node `n` is piece `n`, `child` and `next` the links, `st` the stack of open blocks.
`TemplateRun` composes it with `tag_run`: `frames` are the recursive calls, each
step visits a node; `iter` is kept per node as in the code and counted by a short
(`ShortMax`). Between two runs the script changes its array, parses something
else, asks for a file that is missing (which frees `tree` and keeps it), or drops
the object. The name `call` is a method of the script's object, which may run the
same template (and so replace and delete `buf`), make it parse (and so free the
tree that is being walked), or change the array and the flag in the middle of the
run (`MethodChanges`: the variables `tag_run` holds of items cut off are then `Gone`).
`causes` has which of these was done. A tag that the end of the text cuts
off (`[#foo`) is a piece `"unclosed"`: the code steps over the terminating NUL and reads on
behind the text, where the model stops (`"beyond"`). `TemplateText` is the
reference for the output, read off the text and not the tree: what each place shows
up to the end of its block, in each context, computed in as many rounds as there
are pieces. In it a loop puts an item over the context of the loop, as the ChangeLog
has `[<]`; the code puts the item before over it, so `RendersText` leaves out
templates with a `[<x]` directly in a loop (`UpOutsideLoops`). `TagsOf` gives a piece the tags that `tag_get_piece` can read there.

### UxmlParse, UxmlObjects (uxml/uxml/util_uxml.c, uxml.fec)

`UxmlParse` is `uxml_parse` on the sequence of tags. A document that ends with as
many elements open as `st` has entries reads the entry behind `st` (`Returns`): what is
there decides whether the model goes on. `UxmlObjects` composes it
with the class: the object that owns tree, text and the buffer of added leaves,
and refs that point to nodes. Each `parse` gets nodes of its own, so that a freed
node is told from a new one. A ref has every function of the class: it can parse
(and free its node under the owner), and fail to open a file. `Reached` says where the
links lead without recursion: to every node that no set closed under the links
leaves out.

### CurlTransfer (curl/curl/curl.fec, utility.c)

The object, and libcurl as the callbacks it makes. `pointers` are the handle's
options, `strings` and `lists` the two stacks that own them, `content` and
`header` the buffers, `returns`, `reads`, `readsFrom` which callbacks are in place.
A transfer is any sequence of `Read`, `WriteBody`, `WriteHeader`, ending anywhere.
Bytes are told apart by where they come from and their position. `allocated` has
what is allocated and not freed; `handed`, `served`, `titles`, `sent`, `begun` (how much of them
there was when `exec()` was last called) and `dropped` are history.

### ModFerite (apache/mod_ferite/mod_ferite.c)

One child process. `Directive` applies a directive to its section's `conf`
(`log` remembers what was given), `Merge` is `mod_ferite_merge_dir_config`, which Apache
calls for an inner section only if a ferite directive is in it (`ConfOf`); then
requests come one after another and `req.pc` walks through the handler: `Look`,
`Convert`, `Compile`, `CreateGlobals`, `ScriptEnds`, `HandleError`. Compiler and
script give any outcome. `cacheOn` and `lost` are what a process carries from one
request to the next.

### RequestData, ApacheRequest (apache/apache/*.c, apache.fec)

`RequestData` has the pure functions: the decoder of `a=b&c=d`, its partner
`url_encode`, and the multipart parser, translated with its positions: where it
looks for a boundary, where it takes the data to end, where it goes on. A body
is a sequence of tokens, those that the parser counts bytes of (`--`, a line break)
two bytes long, so that "back by 4" is two tokens. A `%xx` is one character of a text.
`ap_get_client_block()` may stop at any byte, so a text also arrives with the beginning
of a `%xx` at its end (`CutsInside`), which the decoder leaves as it stands, and a body
with the beginning of a token (`Half`). The loops of the C code are functions on Nat,
turn by turn, and a search is the least of the places where a token stands. `Body`
is what a browser sends for a form; the parser does not see the form. A control's file
may be named with or without a path, by an empty name (`filename=""`), or not at all.
`ApacheRequest` makes one or two Request objects of a request and asks one for its
query; the Content-Type of a form may lack its boundary (`"unbounded"`). What lies
behind the end of a text decides whether `query()` comes back (`MayCrash`).

### Embfer (embfer/libembfer/embfer.c, embfer/*.fec, utils.c)

`table`, `slots`, `outputFn` are the process's table of handlers, list of closures
and output function, which every object shares. `conv` is the conversion in
progress, a document of characters in which `<?` and `?>` are searched, and
alternates `WalkText` and `WalkTag`; when a tag has a closure the
script's code runs (`pc = "handler"`) and may make, fill and drop objects, as
`Embfer.import()` does. `misuse` says that two objects existed at once, or that a
static function was used without any. The interpreter that a closure is called
with is a variable initialised with itself (utils.c:18): the call works or does
not. The constructor and the destructor are declared static (embfer.fec:96, 104); the
model has ferite run them for each object, and if it ran them once for the class the
hazards of a second object would not exist. A conversion inside a conversion is not modelled.

### GlutCallbacks (ogl/src/GLUT.fec, GLUT_utility.c)

The module's tables (`hash`, `single`, `callback`, `stack`, `heap`) beside GLUT's
own (`windows`, `timers`, `menus`), which are external and do what GLUT documents:
any free id, timers in any order, an item's number is its position. An
address goes through an int, so the build is a 32-bit one. `ffree` may or may not
clear the pointer it is given. The loop that frees a menu's entries ends at the stack's
size inclusive (GLUT.fec:242): what is behind the slots may be zero or not. A window's
null closure is looked up like another (GLUT_utility.c:86-90): nothing happens, or
ferite reads through the pointer. Errors of a script end the program, but not in a
menu's closure.

### MC modules

`MCSerialLock`, `MCDbiResults`, `MCDbiUpsert` define symmetry sets,
`MCGlutCallbacks` too, `MCSerialSettings` two starting configurations,
`MCTemplateRun`, `MCUxml`, `MCApacheRequest` and `MCEmbfer` the templates,
documents, forms and texts of a run. `ModFerite` needs none. No configuration replaces a definition.

## 3. The runs

| run | bounds | what it shows |
|---|---|---|
| `serial_lock` | 3 processes | below |
| `serial_lock_stale` (violated) | 3 processes | `StaleUnlinkOnlyStale`: the file a constructor removes as stale can be a live process's new one; both then open the device (serial.fec:137-140) |
| `serial_settings` | 2 calls, 2 starting configurations | below |
| `dbi_results` | 3 objects, 3 addresses | below |
| `dbi_upsert` | 2 connections, 2 keys, 2 values, 3 rows | below |
| `template_run` | all templates of 4 pieces, balanced ones of 5 with all tags, 4 with a method; stack of 3, arrays of 0 to 2, 2 runs of each of 2 texts, short of 1 | below |
| `uxml_objects` | documents of 4 tags, 2 names, 2 refs, 2 parses, 1 leaf | below |
| `mod_ferite` | 2 nested sections, 3 directives, 1 name, 2 values, 2 places, 2 requests | below |
| `apache_request` | 2 arguments; bodies of 2 pairs or 2 controls, cut at any byte; 2 objects | below |
| `embfer` | 2 objects, 1 tag, 4 slots, texts of 3 pieces, with a tag before them or not | below |
| `glut` | 2 closures, 2 parameters, 2 ids, 6 calls | below |
| `curl` | one string and one list option, contents of 0 and 2 bytes, chunks of 1 and 2, 2 transfers, 2 bytes served, 5 allocations | below |

**serial_lock.** `ExclusionUnlessHazard`: the device has one user until a hazard;
`LockSound`: until then nobody removes a file as stale (`StalePathNeedsHazard`),
and a user's own file is there and names it (`UserHoldsLock`); `ImplementsLease`:
refinement;
`StaleRecovered`: a file naming a dead process does not lock the device for ever.
Three processes are the case that two do not have: one dies, and two find its
file at once, or a third reuses its id.

**serial_settings.** `ShadowTrue`: PORTTI differs from the device only in what
setters that failed are named for, unless the driver took settings in part,
another program changed them, or `restoreSettings` did, and then the device has
what was saved; a getter answers with what its setter put into PORTTI (nothing is
said of `getOutputSpeed`, section 5). `ChangesOwn`: a call changes
the settings it is named for and those of setters that failed before it, though
it writes all of PORTTI; `RestoresMark`: `restoreSettings` brings back the
last saved ones whatever failed since; `DrainReturns`: a waiting call returns if
the last request of the script to succeed was for output to be sent and the peer
does not hold the line for good. Two calls are enough for one to
fail and the next to write its leftovers, with a save anywhere.

**dbi_results.** `ListExact`: list and libdbi agree, so nothing leaks;
`HeldResultsSound`: while connected an object's result is allocated and its own;
`AccessesSound`: nothing is freed twice, and other bad accesses come after `disconnect`, after
the Dbi object, or from a result without parent; `DisposeFreesOwn`: `finish` and
the destructor free their result, at once. Three objects allow a query in a block
in a block; as many addresses allow reuse.

**dbi_upsert.** `OneRow`, `AnswerTells` (true: the row is stored; false: the table
is as it was) and `ImplementsUpsert`: each up to the hazards. The race needs two
connections and one key; the second key shows that keys do not disturb each other.

**template_run.** `ParseRight`: each node is linked from where its piece belongs and
nowhere else (`TreeRight`), and every piece is reached from the root
(`NothingLost`); `StackExact`: the template that overruns `st` is the one whose
pieces nest as deep as `st` has entries, so closed blocks and leaves give theirs back; `ReportExact`: "Unbalanced tree" is reported for exactly the
unmatched brackets; `RendersText`:
the output is what a recursive reading of the text says, if no method changed the
object meanwhile; `WalksInTurn`: the walk of an array that one tag shows goes on
where it ended (nothing is said of several tags, section 5); `FaultsExplained`: each bad access has its
known cause (the array was shortened, a short wrapped, an array without items shown,
an empty template, an error in the first piece, `[<name]` outside of blocks, an item
cut off by a method), a tree is freed twice or read
after it was freed only after a missing file or a parse inside a run, and a run
inside a run always ends in a bad access. Five pieces hold a block in a
block with a neighbour; a stack of 3 is overrun by 4 brackets.

**uxml_objects.** `DocumentRight`: the tree and the verdict are the text's; `TreeHeld`: the owner's tree is allocated and the refs of this
document are in it; `FaultsExplained`. Four tags hold two elements, one inside or
behind the other, with a comment or error anywhere; two refs can free under each
other.

**curl.** `MemoryRight`: the handle's pointers are allocated and each allocation has
one owner; `LatestKept`: `getHeaders()` and `getContent()` end with what the latest
execution was served, whatever options, contents and retries came before (they may
begin with more, see 5); `UploadWhole`: an execution that reads the upload to its end
has sent the content from where the execution before it stopped, once and in order,
and all of it if it is the first (unless served bytes were mixed in);
`FaultsExplained`: each crash has its cause, a list option set by a string or
INFILE and `setContent` without the other.

**mod_ferite.** `ScriptSeesConfig`: a script's globals are its own section's, then
the outer one's, and the working directory is the nearest that is not the default;
`AnswersTell`: status and page follow from the request and its section, by the
section around it when nothing of ferite is in its own, whatever was served before,
and the script is released on every path;
`ProcessExplained`: the two things a process does carry on, the cache switch and
the lost pairs, come from exactly the requests that the code says. Three
directives allow a repeated one in one section beside one in the other; two
requests are what carrying on needs.

**apache_request.** `QueryRight`: what `query()` holds is what the browser meant, in
order, for a whole body; of a cut text the whole pairs and one whose value is a
beginning, with what had arrived of a `%xx` behind it; of a cut form the parts whose end
arrived; of a second Request object the arguments only. `getParams()` gives the values
of the object's own text, in order. Of a file named without a path, an empty file and
an empty name only what the code keeps is said (section 5). `CrashesExplained`: the
process ends only for a form without its boundary, a body that stops right behind a
boundary or one byte later, a header line without a colon, or a parameter without `=`.
Two controls are needed for one part's end to be the next one's start; data that holds
a line break and dashes looks like the start of a boundary.

**embfer.** `LosslessScan`: what was emitted is the document up to where the scan
stands, split exactly at the tags; `TableAgrees`: while objects exist one at a
time, table, list and object agree; `FaultsExplained`: the bad accesses need a
second object, or no output function. Documents of three pieces, and a started
tag, hold every way two tags and a text can meet.

**glut.** `CallsOwn`: whose closure an event runs, and that a null one is used only
where the script gave null; `EntriesAligned`: the module's
stack is GLUT's list for every menu without added submenus, after any changes and
removals, and each bad access needs a submenu or a removed item (but for the word
behind the last slot, which every `DestroyMenu` reads and may free); `RefsExact`:
closures are referenced exactly by what registers them, and those of timers, idle
and menu state are kept for good. Six calls make a menu with three items, change
one and remove one.

A property is stated *up to a hazard* where the code has no defence and nobody
would expect one (a process killed at the wrong moment, two clients at once
without an index). The hazard is then part of the model, it happens in the run,
and the property says that nothing less can break the promise.

Deadlock checking is off where the script, or the process, may simply end
(`dbi_results`, `template_run`, `uxml_objects`, `curl`, `mod_ferite`,
`apache_request`, `embfer`, `glut`) and on in all other runs.

### Fairness

`SerialLock!LiveSpec`: a call that has begun goes on (WF: the operating system runs
the process), a living process without a Port tries again, ports are destroyed
in the end (SF, because they may be closed again before), an unlink is not refused
for ever (SF), a process is started when none lives, and deaths stop some day.
Nothing makes a process reuse an id or any call fail.

`SerialSettings!SettingsLiveSpec`: `tcsetattr` and `tcdrain` return when the output
is sent (WF), and output is sent if again and again it may be (SF on `Transmit`: the
script writes nothing while it waits, so what is left is finite, and some of it goes
out each time the peer lets go). Script and peer are under no fairness: the script
need not resume, the peer need not let go, and `DrainReturns` names both as its
premises.

## 4. What is proved

The proof modules prove for every value of the constants what the runs check on
instances: every safety and action property of the passing runs is a theorem. Each
follows one argument: an inductive invariant, one lemma per action that it is
preserved, `Inductive` (or the steps in the theorem itself), and from it the
properties. Modules that belong together have one proof module, which extends both;
where both would have an `Init` or `vars`, one has a prefix (`SettingsInit`,
`curlVars`).

- **Serial_proofs**, of both parts of a Port. The lock file (`TypeCorrect`,
  `Exclusion`, `NoStalePath`, `UserLocked`, `LockSoundThm`, `ImplementsLeaseThm`).
  Exclusion is not inductive: it must also be known that a
  process between create and unlink is the one the file names, that a pid under
  test is alive, and that dead processes are idle (`SoundLock`, `DeadIdle`), all
  while `hazard = {}`. Assumes that `NoPid` and `NoFile` are no pid and no file.
  The settings (`SettingsTypeCorrect`, `ShadowCorrect`, `OwnCorrect`,
  `RestoreCorrect`). `ShadowTrue` speaks of the moments between calls. Inside a call
  it is known that the saved settings are those of the mark (`SavedRight`), that a
  waiting setter hands over PORTTI as it is (`TargetRight`), that the fields it is
  named for may differ then too (`DriftRight`), and what a restored device has
  (`RestoredRight`). The two action properties
  follow from the same invariant. Assumes that the first configurations are ones.
- **Dbi_proofs**, of both dbi modules. The results
  (`Inductive`, `TypeCorrect`, `ListAgrees`, `HeldAllocated`, `FreedOnce`, `Explained`,
  `AccessesExplained`, `DisposeCorrect`): `Sound` adds to the properties that a closed
  list is empty, which kinds have parents, and that addresses not allocated are held
  by nobody while connected. Assumes `Null` is no address. The upsert
  (`UpsertTypeCorrect`, `AtMostOneRow`, `Atomic`, `AnswersTell`): `UpsertInv` adds
  that for a key without hazard at most one call is between its statements and that
  there is no row then. In the refinement the UPDATE begins a call, and ends it when
  it affected a row (`UpdateIsCall`), and the INSERT ends it (`InsertIsReturn`). The answer is an action property: `AnswersTell` compares
  the table with the one before the call. Assumes that None is no row.
- **Template_proofs**. The tree (`Inductive`, `TypeCorrect`, `TreeCorrect`,
  `ReportCorrect`, `StackCorrect`, `TreeComplete`, `ParseCorrect`) for every template and stack size:
  the invariant relates `st`, the current node and the links to the brackets read
  so far (`StackRight`, `CurrentRight`, `ChildRight`, `NextRight`, `LinksRight`); depth is a
  recursive function. The runs (`RunInductive`, `RunTypeCorrect`, `RunParseCorrect`,
  `FaultsCorrect`, `WalkCorrect`) for every text, array size and `ShortMax`:
  `FaultsExplained` is about the moment of a fault, so the invariant says what
  leads there: `iter` is one more than the item shown last, as far as a short counts
  (`IterRight`), only the first call of `tag_run` is that of `run()` and which calls have
  a previous variable (`CallsRight`), and when buffer, tree and items are still there
  (`BufferRight`, `TreeKnown`, `GoneKnown`). The output (`RendersCorrect`): `RendersText` is about
  the end of a run. In between, each call of `tag_run` on `frames` owes a text: the
  rest of its block and, in a loop, what the items not yet shown will show (`Owed`).
  The invariant is that the output, followed by what the calls owe, innermost first,
  is the text of the template (`Renders`): `Show` moves an entry from the second to
  the first, `Branch` and `Loop` replace a block by its pieces, `Return` puts the next
  item or the text behind the block. The reference is defined by rounds; that it
  does not change after as many as there are pieces (`TextsFixed`) allows to unfold it
  at a place (`TextIs`). The reference's loop has another variable one level up than
  the code's; without `[<x]` directly in it the block shows the same (`Unaffected`, by
  induction from the end of the template). Assumes a positive stack size, at least one parse,
  that an array may be empty, and that later texts have a tag for each piece.
- **Uxml_proofs** (`Inductive`, `TypeCorrect`, `DocumentCorrect`, `TreeCorrect`,
  `FaultsCorrect`). For every document, number of refs and bounds. The parser's part
  says which start tag each entry of `st` names and that nothing read so far closes
  it (`StackRight`), what `state` remembers of the last tag (`CurrentRight`), and that
  every end tag read closes a start tag of its name (`NamesRight`). The objects' part
  says that nodes not in use have no links (`Bounded`, `Fresh`), that no link leads to
  a freed node (`Whole`), that each ref is reached from the root (`RefsInTree`), and
  what a dangling pointer says of the past (`CausesRight`). Assumes a positive stack
  size and at least one parse.
- **Callbacks_proofs**, of the two modules whose state a C library reaches through its
  callbacks. Curl (`CurlInductive`, `TypeCorrect`, `MemoryCorrect`, `LatestCorrect`,
  `UploadCorrect`, `FaultsCorrect`). For any options, contents,
  chunks and bounds. Added: an object that does not exist has nothing (`Fresh`), a
  fault ends everything (`Running`), the handle's pointers are on the stacks
  (`Kept`), `content_buffer` is a queue of what was given and served, less what was
  sent (`BuffersInOrder`), and at the end of an upload it is empty (`ReadToEnd`). Assumes
  that lengths are natural numbers and that chunks are not empty.
  GLUT (`CallsCorrect`, `EntriesCorrect`, `RefsCorrect`). For any
  closures, ids and number of calls. Added: the tables hold what GLUT was given for
  each window (`WindowsRight`), only the timer set last knows its closure
  (`TimersRight`), a menu's slots and items name pairs allocated for it and, where
  nothing was removed, none freed and none twice (`MenusRight`). Counting references
  needs that there are finitely many ids; also assumed is that NULL is no closure.
- **Apache_proofs**, of both sides of the server. `query()` (`RequestInductive`,
  `QueryCorrect`, `CrashesCorrect`), for any characters, pairs and forms, and a body
  cut at any byte. First, what the functions of `RequestData` compute: decoding what
  `url_encode` made gives the text back (`UrlDecoded`), a text of pairs, whole or cut,
  gives the pairs, the last of them as far as it goes, with what arrived of a `%xx`
  (`PairCut`, `PopulateCut`, `QueryOfText`), and
  a body, whole or cut, gives its parts up to the last that ended (`LinesWhole`,
  `QueryOfForm`). Then the states: what arrived is a beginning of what was sent, an
  object holds the text that its place among the objects allows it, and an answer is
  made of that text (`RequestInv`). Assumes that forms and pairs are ones: a boundary
  does not stand in the data, a file's path ends at its last separator.
  The handler (`HandlerInductive`, `TypeCorrect`, `ConfigCorrect`, `AnswersCorrect`,
  `ProcessCorrect`), for any number of directives and requests. A section's
  configuration says what its directives said (`ConfRight`): the number of a variable
  in the table is how many were given up to it, and what was given last is the
  greatest of a set of positions. At each point of the handler it is known what the
  request can still be answered (`RequestRight`), and the pairs lost are those of the
  requests served and the one in the handler (`ProcessRight`).
- **Embfer_proofs** (`Inductive`, `TypeCorrect`, `ScanCorrect`, `TableCorrect`,
  `FaultsCorrect`). For any objects, tags, characters, documents and size of the list.
  The scan loses nothing because a tag and a text are the document between two places
  (`TagRight`, `FindRight`), of which the second is where the scan goes on
  (`PlaceRight`); the table is right because while objects exist one at a time the
  output function is the current one's (`OwnerRight`). Assumes that a document may
  hold `<`, `?` and `>`, and that a script's tags are not the built-in ones.
- **SequenceFacts** has what Apache_proofs, Embfer_proofs and Template_proofs share. The
  library's induction theorems take an operator as a parameter, which the provers
  cannot instantiate. Instead, a set of numbers that is not empty has a least element
  (`LeastNat`, from the library's well-founded order of Nat), so a set that holds 0 and
  with each number the next holds all (`SetInduction`). With sets in the place of
  predicates this gives: a flattened sequence is laid out piece by piece (`Joins`,
  `FlattenIs`), and a loop, a function on Nat that the model writes as
  `f[n \in Nat] == IF n = 0 THEN .. ELSE .. f[n - 1]`, exists and takes its turns
  (`Turns`, `Iterates`).

The SMT translation of the installed TLAPS takes two CASE expressions for equal when
they agree in the first arm and in OTHER. No step rests on that: every leaf where two
CASEs meet is split by cases, and the theorems were proved a second time
with each CASE of the models written as nested IFs.

Only model-checked are the liveness properties `StaleRecovered` and `DrainReturns`,
which are out of TLAPS's reach.

## 5. Not modelled, and known

Errors that reading showed and no run states:

- serial: `getOutputSpeed()` asks `cfgetispeed` (serial.fec:690); `sendXOFF()`
  passes `TCION` and sends a START (709). After `restoreSettings` (844) the getters
  answer with what was set before, and the next setter puts all of it back. The
  model has all three as they are.
- dbi: `queryBinary`, `listTables` and `listDbs` set no parent; `finish` and the
  destructor of their results go through a null pointer (dbi.fec:386,
  utility.c:86). The model has it.
- Curl's `getContent()` and `getHeaders()` answer with the bytes of all transfers
  since the buffers were made; curl.fec:766 and 798 say "of the previous execution".
  The model has it, and `LatestKept` asserts only how they end. An upload that is
  tried again sends the rest only. QUOTE and POSTQUOTE are
  documented as strings and followed as lists. A number option is passed as a
  double where libcurl takes a long. A constructor that fails frees its
  structure and neither buffers nor handle (utility.c:109-111), the destructor leaks the buffers (curl.fec:719 asks whether it should).
- template: `[foo][foo][foo]` shows the first item three times, since each tag
  counts for itself (utility.c:84; README:29 says it walks three items): the model has
  it, and `WalksInTurn` says nothing of it;
  `parseFile()` of a file that is missing keeps a freed tree, and returns true if
  there was one; `filedata` stays after it was freed; the tree of `parse()` points
  into the script's string; a file that includes itself is parsed without end;
  `[<]` inside a loop is the item before (utility.c:31) and not the context above, which the
  ChangeLog (5-6) announces: the model has it, and `RendersText` leaves it out; a tag that
  the end of the text cuts off is read beyond it (utility.c:314-336).
- uxml: a ref that outlives its owner is read after free; `nodeAttribs()` does not
  return when there is an attribute (uxml.fec:242).
- mod_ferite: FeriteCache and FeriteDebug are not inherited by an inner section that
  has a ferite directive of its own (mod_ferite.c:303-304), and are by one that has
  none, as ferite.conf:15-24 counts on; the cache switch is never turned off; an inner "/tmp"
  cannot override an outer working directory; a TimeLine pair is lost with every
  failing request. The model has all of these.
- apache: `MultiPart` documents "the name of the file" (apache.fec:680-685), but a name
  without a path has the quote behind it (multipart.c:80), and of an empty name, an empty
  file or a path that ends in a separator more than that is copied, since a length of 0
  makes `fe_new_str` copy up to the byte 0. `getParams()` says all parameters
  (apache.fec:438), and has not the URL's arguments of a POST. A `%xx` that was cut stays
  `%` or `%x` in the value. A header line without a colon and a form without `boundary=`
  end in a null pointer; a parameter without `=`, and a boundary at the end of a body,
  are read beyond; the body can be read once. The model has all of these, and
  `QueryRight` asserts only what agrees with the documents.
- embfer: the documented `<?= Embfer.import("foo.fsp") ?>` makes a second object in
  the middle of a conversion, which forgets the closures of the first. In the model.
- ogl: a submenu has no place in the stack of entries; one closure serves all
  timers; an entry added without a current menu is lost; a null closure of a window is
  not checked for; the word behind a stack's slots is freed as an entry. In the model.
- mail: see the table. zip: `close()` clears a local variable and leaves the
  object's pointer. image: `crop` and `rotate` free the image before they look at
  the new one.

Left out of the modelled parts: the values of rows, the text of SQL, the strings
of tags, attributes and XML conversions; names of controls longer than a buffer, and
requests that are neither GET nor POST; `select`, `read` and the bytes of serial
I/O; failing allocations; included template files other than as a node whose tree
is given; the apache module's headers, cookies and printing. Fields that no function of a
part reads back are left out of its state.

## 6. Plan

Done: the parts above, in the order in which they can go wrong most, and the
proofs of section 4. What could follow:

1. **LibraryHandles**: image and zip, an owner, what shares its handle, and two
   destructors; the same for the Dbi connection itself.
2. Inflate's growing buffer as a loop on sizes, provable with `Iterates`.
3. A conversion inside a conversion in Embfer, and the apache module's headers.

To check the project: `tlc -config X.cfg M` for each run of `PROJECT.json`, and
`tlapm M.tla` for each module of section 4.
