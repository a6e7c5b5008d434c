---------------------------- MODULE CurlTransfer ----------------------------
(***************************************************************************)
(* An object of class Curl (curl/curl/curl.fec) and the callbacks that     *)
(* libcurl makes while exec() runs (curl/curl/utility.c).                  *)
(*                                                                         *)
(* One buffer, content_buffer, is both what an upload reads from and what  *)
(* a download is written to; it outlives the transfer.  The handle holds   *)
(* pointers to copies of the option strings, which the object must keep    *)
(* until the handle is gone.  libcurl is modelled by the calls it makes: a *)
(* transfer is any order of reads, writes and headers, and may fail after  *)
(* any of them.                                                            *)
(***************************************************************************)
EXTENDS Naturals, Sequences, FiniteSets

CONSTANTS
    StringOptions,  \* the options that take a string and are set to one
    ListOptions,    \* the options that libcurl takes a list for, except HTTPHEADER
    Contents,       \* the lengths of what is given to setContent()
    Chunks,         \* how many bytes libcurl hands over, or asks for, at once
    MaxAllocs,      \* bound on what is allocated
    MaxExecs,       \* bound on the transfers
    MaxServed       \* bound on the bytes the server sends in a transfer

ASSUME CurlAssumption ==
    /\ Contents \subseteq Nat /\ Chunks \subseteq Nat \ {0}
    /\ MaxAllocs \in Nat /\ MaxExecs \in Nat /\ MaxServed \in Nat

Null == 0       \* the null pointer; what is allocated is numbered from 1

VARIABLES
    object,     \* "none", "failed" (odata is NULL), "live" or "gone"
    allocated,  \* what is allocated and not freed
    made,       \* how much was ever allocated
    pointers,   \* the handle's string and list options
    strings,    \* string_stack
    lists,      \* headers_stack
    content,    \* content_buffer: its address and its bytes
    header,     \* header_buffer
    returns,    \* WRITEDATA and the write functions are the module's
    reads,      \* READFUNCTION: "fread" or "callback"
    readsFrom,  \* READDATA: "stdin" or "object"
    uploads,    \* CURLOPT_UPLOAD
    transfer,   \* "idle", "running" or, once the upload is read to its end, "read"
    execs,      \* how many transfers were started
    fault,
    (* history *)
    handed,     \* the bytes that setContent() last put into content_buffer
    served,     \* the body bytes served since content_buffer was replaced
    titles,     \* the header bytes served since header_buffer was made
    sent,       \* the bytes that were uploaded since then
    begun,      \* how much of each of these there was when exec() was last called
    dropped     \* the buffers that were replaced without being freed

handle == <<pointers, returns, reads, readsFrom, uploads>>
owned == <<strings, lists>>
buffers == <<content, header>>
since == <<handed, served, titles, sent, begun>>
history == <<since, dropped>>
curlVars == <<object, allocated, made, handle, owned, buffers, transfer, execs, fault, history>>

AllOptions == StringOptions \cup ListOptions \cup {"HTTPHEADER"}

(* The bytes of the script's i-th content, or of the i-th transfer, from   *)
(* the k-th on.                                                            *)
Bytes(source, i, k, n) == [j \in 1..n |-> <<source, i, k + j>>]

NoBuffer == [at |-> Null, data |-> <<>>]

CurlInit ==
    /\ object = "none" /\ allocated = {} /\ made = 0
    /\ pointers = [o \in AllOptions |-> Null] /\ strings = {} /\ lists = {}
    /\ content = NoBuffer /\ header = NoBuffer
    /\ returns = FALSE /\ reads = "fread" /\ readsFrom = "stdin" /\ uploads = FALSE
    /\ transfer = "idle" /\ execs = 0 /\ fault = "none"
    /\ handed = <<>> /\ served = <<>> /\ titles = <<>> /\ sent = <<>>
    /\ begun = [served |-> 0, titles |-> 0, sent |-> 0] /\ dropped = {}

(* The script has the object and no exec() of it is running.               *)
Callable == object = "live" /\ transfer = "idle" /\ fault = "none"

-----------------------------------------------------------------------------
Construct ==
    /\ object = "none"
    /\ object' = "live"
    /\ UNCHANGED <<allocated, made, handle, owned, buffers, transfer, execs, fault, history>>

(* A call of libcurl fails: odata is NULL.  Only the structure was freed;  *)
(* the handle and the two stacks, empty by then, are lost.                 *)
ConstructFails ==
    /\ object = "none"
    /\ object' = "failed"
    /\ UNCHANGED <<allocated, made, handle, owned, buffers, transfer, execs, fault, history>>

Destroy ==
    /\ object = "failed" \/ Callable
    /\ object' = "gone"
    /\ IF object = "failed" THEN UNCHANGED <<allocated, fault>>
       ELSE /\ allocated' = allocated \ (strings \cup lists)
            /\ fault' = IF strings \cup lists \subseteq allocated THEN fault ELSE "doubleFree"
    /\ UNCHANGED <<made, handle, owned, buffers, transfer, execs, history>>

-----------------------------------------------------------------------------
(* setOption(opt, string): the copy stays on the stack when the option is  *)
(* set again.                                                              *)
SetString(o) ==
    /\ Callable /\ o # "HTTPHEADER" /\ made < MaxAllocs
    /\ made' = made + 1
    /\ allocated' = allocated \cup {made'}
    /\ strings' = strings \cup {made'}
    /\ pointers' = [pointers EXCEPT ![o] = made']
    /\ UNCHANGED <<object, lists, buffers, returns, reads, readsFrom, uploads, transfer, execs, fault, history>>

(* Mutant: the list is freed as soon as the option is set.                 *)
SetHeaderFreed ==
    /\ Callable /\ made + 1 < MaxAllocs
    /\ made' = made + 2
    /\ allocated' = allocated \cup {made + 1}
    /\ strings' = strings \cup {made + 1}
    /\ pointers' = [pointers EXCEPT !["HTTPHEADER"] = made']
    /\ UNCHANGED <<object, lists, buffers, returns, reads, readsFrom, uploads, transfer, execs, fault, history>>

(* The list has this one header: the ones set before are not sent.         *)
SetHeader ==
    /\ Callable /\ made + 1 < MaxAllocs
    /\ made' = made + 2
    /\ allocated' = allocated \cup {made + 1, made'}
    /\ strings' = strings \cup {made + 1}
    /\ lists' = lists \cup {made'}
    /\ pointers' = [pointers EXCEPT !["HTTPHEADER"] = made']
    /\ UNCHANGED <<object, buffers, returns, reads, readsFrom, uploads, transfer, execs, fault, history>>

(* setOption(opt, number) passes a double where libcurl takes a long: the  *)
(* option gets some value.                                                 *)
SetNumber ==
    /\ Callable
    /\ uploads' \in BOOLEAN
    /\ UNCHANGED <<object, allocated, made, pointers, returns, reads, readsFrom, owned, buffers, transfer, execs, fault, history>>

(* CURLOPT_RETURNTRANSFER, whatever its value: two new buffers.            *)
ReturnTransfer ==
    /\ Callable /\ made + 1 < MaxAllocs
    /\ made' = made + 2
    /\ allocated' = allocated \cup {made + 1, made'}
    /\ content' = [at |-> made + 1, data |-> <<>>]
    /\ header' = [at |-> made', data |-> <<>>]
    /\ returns' = TRUE
    /\ dropped' = dropped \cup ({content.at, header.at} \ {Null})
    /\ handed' = <<>> /\ served' = <<>> /\ titles' = <<>> /\ sent' = <<>>
    /\ begun' = [served |-> 0, titles |-> 0, sent |-> 0]
    /\ UNCHANGED <<object, pointers, reads, readsFrom, uploads, owned, transfer, execs, fault>>

(* CURLOPT_INFILE                                                          *)
InFile(value) ==
    /\ Callable
    /\ reads' = IF value THEN "callback" ELSE "fread"
    /\ UNCHANGED <<object, allocated, made, pointers, returns, readsFrom, uploads, owned, buffers, transfer, execs, fault, history>>

(* Mutant: an empty string makes no buffer, and the freed one stays.       *)
SetContentNotEmpty(n) ==
    /\ Callable /\ made < MaxAllocs
    /\ made' = made + 1
    /\ allocated' = (allocated \ {content.at}) \cup IF n = 0 THEN {} ELSE {made'}
    /\ fault' = IF content.at \in allocated \cup {Null} THEN fault ELSE "doubleFree"
    /\ content' = IF n = 0 THEN [content EXCEPT !.data = <<>>]
                  ELSE [at |-> made', data |-> Bytes("script", made', 0, n)]
    /\ readsFrom' = "object"
    /\ handed' = content'.data /\ served' = <<>> /\ sent' = <<>>
    /\ begun' = [begun EXCEPT !.served = 0, !.sent = 0]
    /\ UNCHANGED <<object, pointers, returns, reads, uploads, owned, header, transfer, execs, titles, dropped>>

(* setContent(s), s of n bytes                                             *)
SetContent(n) ==
    /\ Callable /\ made < MaxAllocs
    /\ made' = made + 1
    /\ allocated' = (allocated \ {content.at}) \cup {made'}
    /\ fault' = IF content.at \in allocated \cup {Null} THEN fault ELSE "doubleFree"
    /\ content' = [at |-> made', data |-> Bytes("script", made', 0, n)]
    /\ readsFrom' = "object"
    /\ handed' = content'.data /\ served' = <<>> /\ sent' = <<>>
    /\ begun' = [begun EXCEPT !.served = 0, !.sent = 0]
    /\ UNCHANGED <<object, pointers, returns, reads, uploads, owned, header, transfer, execs, titles, dropped>>

GetContent == content.data
GetHeaders == header.data

-----------------------------------------------------------------------------
(* exec() calls curl_easy_perform, which is busy until Finish.             *)
Exec ==
    /\ Callable /\ execs < MaxExecs
    /\ execs' = execs + 1
    /\ transfer' = "running"
    /\ begun' = [served |-> Len(served), titles |-> Len(titles), sent |-> Len(sent)]
    /\ UNCHANGED <<object, allocated, made, handle, owned, buffers, fault, handed, served, titles, sent, dropped>>

(* libcurl follows a list option, which setOption gave a string for.       *)
UseList(o) ==
    /\ transfer = "running" /\ fault = "none"
    /\ pointers[o] # Null
    /\ fault' = IF pointers[o] \in lists THEN fault ELSE "stringAsList"
    /\ UNCHANGED <<object, allocated, made, handle, owned, buffers, transfer, execs, history>>

(* Mutant: the last, shorter block is not handed over.                     *)
ReadBlocks(w) ==
    /\ transfer = "running" /\ uploads /\ fault = "none"
    /\ reads = "callback" /\ readsFrom = "object" /\ content.at \in allocated
    /\ LET realsize == IF Len(content.data) > w THEN w ELSE 0
       IN  /\ sent' = sent \o SubSeq(content.data, 1, realsize)
           /\ content' = [content EXCEPT !.data = SubSeq(@, realsize + 1, Len(@))]
           /\ transfer' = IF realsize = 0 THEN "read" ELSE transfer
    /\ UNCHANGED <<object, allocated, made, handle, owned, header, execs, fault, handed, served, titles, begun, dropped>>

(* libcurl asks for w bytes to upload: ferite_curl_read_callback.          *)
Read(w) ==
    /\ transfer = "running" /\ uploads /\ fault = "none"
    /\ reads = "callback" /\ readsFrom = "object" /\ content.at \in allocated
    /\ LET realsize == IF Len(content.data) > w THEN w ELSE Len(content.data)
       IN  /\ sent' = sent \o SubSeq(content.data, 1, realsize)
           /\ content' = [content EXCEPT !.data = SubSeq(@, realsize + 1, Len(@))]
           /\ transfer' = IF realsize = 0 THEN "read" ELSE transfer
    /\ UNCHANGED <<object, allocated, made, handle, owned, header, execs, fault, handed, served, titles, begun, dropped>>

(* fread of the process's stdin, whatever it says                          *)
ReadStdin ==
    /\ transfer = "running" /\ uploads /\ fault = "none"
    /\ reads = "fread" /\ readsFrom = "stdin"
    /\ transfer' = "read"
    /\ UNCHANGED <<object, allocated, made, handle, owned, buffers, execs, fault, history>>

(* The reader and what it reads do not go together, or the buffer is not there. *)
ReadFails ==
    /\ transfer = "running" /\ uploads /\ fault = "none"
    /\ \/ reads = "callback" /\ readsFrom = "stdin" /\ fault' = "stdinAsObject"
       \/ reads = "fread" /\ readsFrom = "object" /\ fault' = "objectAsFile"
       \/ reads = "callback" /\ readsFrom = "object" /\ content.at \notin allocated /\ fault' = "noBuffer"
    /\ UNCHANGED <<object, allocated, made, handle, owned, buffers, transfer, execs, history>>

Served(i) == Len(SelectSeq(served, LAMBDA b : b[2] = i))

(* n bytes of the body arrive: ferite_curl_content_callback.               *)
WriteBody(n) ==
    /\ transfer # "idle" /\ fault = "none"
    /\ Served(execs) + n <= MaxServed
    /\ LET ptr == Bytes("server", execs, Len(served), n)
       IN  /\ served' = served \o ptr
           /\ content' = IF returns THEN [content EXCEPT !.data = @ \o ptr] ELSE content
    /\ fault' = IF returns /\ content.at \notin allocated THEN "noBuffer" ELSE fault
    /\ UNCHANGED <<object, allocated, made, handle, owned, header, transfer, execs, handed, titles, sent, begun, dropped>>

(* Mutant: the header goes to content_buffer.                              *)
WriteHeaderToContent(n) ==
    /\ transfer # "idle" /\ fault = "none"
    /\ Len(titles) + n <= MaxServed
    /\ LET ptr == Bytes("title", execs, Len(titles), n)
       IN  /\ titles' = titles \o ptr
           /\ content' = IF returns THEN [content EXCEPT !.data = @ \o ptr] ELSE content
    /\ UNCHANGED <<object, allocated, made, handle, owned, header, transfer, execs, fault, handed, served, sent, begun, dropped>>

(* A header of n bytes arrives: ferite_curl_header_callback.               *)
WriteHeader(n) ==
    /\ transfer # "idle" /\ fault = "none"
    /\ Len(titles) + n <= MaxServed
    /\ LET ptr == Bytes("title", execs, Len(titles), n)
       IN  /\ titles' = titles \o ptr
           /\ header' = IF returns THEN [header EXCEPT !.data = @ \o ptr] ELSE header
    /\ fault' = IF returns /\ header.at \notin allocated THEN "noBuffer" ELSE fault
    /\ UNCHANGED <<object, allocated, made, handle, owned, content, transfer, execs, handed, served, sent, begun, dropped>>

(* The transfer is over, or is given up: exec() returns.                   *)
Finish ==
    /\ transfer # "idle" /\ fault = "none"
    /\ transfer' = "idle"
    /\ UNCHANGED <<object, allocated, made, handle, owned, buffers, execs, fault, history>>

CurlNext ==
    \/ Construct \/ ConstructFails \/ Destroy
    \/ \E o \in AllOptions : SetString(o)
    \/ SetHeader \/ SetNumber \/ ReturnTransfer
    \/ \E value \in BOOLEAN : InFile(value)
    \/ \E n \in Contents : SetContent(n)
    \/ Exec
    \/ \E o \in ListOptions \cup {"HTTPHEADER"} : UseList(o)
    \/ \E w \in Chunks : Read(w)
    \/ ReadStdin \/ ReadFails
    \/ \E n \in Chunks : WriteBody(n)
    \/ \E n \in Chunks : WriteHeader(n)
    \/ Finish

CurlSpec == CurlInit /\ [][CurlNext]_curlVars
-----------------------------------------------------------------------------
Sources == {"script", "server", "title"}
Byte == Sources \X Nat \X Nat
ByteSeq == Seq(Byte)
Buffer == [at : Nat, data : ByteSeq]

TypeOK ==
    /\ object \in {"none", "failed", "live", "gone"}
    /\ made \in Nat /\ allocated \subseteq 1..made
    /\ pointers \in [AllOptions -> 0..made]
    /\ strings \subseteq 1..made /\ lists \subseteq 1..made /\ dropped \subseteq 1..made
    /\ content \in Buffer /\ header \in Buffer
    /\ content.at \in 0..made /\ header.at \in 0..made
    /\ returns \in BOOLEAN /\ uploads \in BOOLEAN
    /\ reads \in {"fread", "callback"} /\ readsFrom \in {"stdin", "object"}
    /\ transfer \in {"idle", "running", "read"}
    /\ execs \in Nat
    /\ fault \in {"none", "doubleFree", "stringAsList", "stdinAsObject", "objectAsFile", "noBuffer"}
    /\ handed \in ByteSeq /\ served \in ByteSeq /\ titles \in ByteSeq /\ sent \in ByteSeq
    /\ begun \in [served : 0..Len(served), titles : 0..Len(titles), sent : 0..Len(sent)]

(* As long as the object lives, what the handle points to is allocated:    *)
(* setting an option again, replacing a buffer or a failed transfer frees  *)
(* nothing that libcurl still uses (curl.fec:848-856, 788, 888-896).       *)
HandleSafe ==
    object = "live" =>
        /\ \A o \in AllOptions : pointers[o] # Null => pointers[o] \in allocated
        /\ pointers["HTTPHEADER"] \in lists \cup {Null}
        /\ returns => content.at \in allocated /\ header.at \in allocated
        /\ readsFrom = "object" => content.at \in allocated

(* Everything allocated is held by exactly one of the stacks and buffers,  *)
(* or is a buffer that RETURNTRANSFER replaced.                            *)
Accounted ==
    LET held == {content.at, header.at} \ {Null}
    IN  /\ strings \cap lists = {} /\ (strings \cup lists) \cap (held \cup dropped) = {}
        /\ held \cap dropped = {}
        /\ content.at = header.at => content.at = Null
        /\ allocated = held \cup dropped \cup (IF object = "gone" THEN {} ELSE strings \cup lists)

(* The handle's pointers are good and everything allocated has one owner:  *)
(* the destructor frees each string and list once and after the handle,    *)
(* and leaves exactly the buffers (curl.fec:713-736).                      *)
MemoryRight == HandleSafe /\ Accounted

(* What came, or went, since exec() was last called.                       *)
Latest(bytes, before) == SubSeq(bytes, before + 1, Len(bytes))

(* s ends in t, and is all of it if nothing was there before.              *)
EndsIn(s, t, fresh) ==
    \E k \in 0..Len(s) : SubSeq(s, k + 1, Len(s)) = t /\ (fresh => k = 0)

(* Once RETURNTRANSFER is on, getHeaders() ends with the headers of the    *)
(* last execution, in order, nothing lost or twice, and is exactly these   *)
(* if no other has filled the buffer before; getContent() does so with the *)
(* body, but for what an upload has taken from the front of the buffer     *)
(* (utility.c:18-54, curl.fec:770-808).                                    *)
LatestKept ==
    returns =>
       /\ EndsIn(GetHeaders, Latest(titles, begun.titles), begun.titles = 0)
       /\ EndsIn(sent \o GetContent, Latest(served, begun.served),
                 handed = <<>> /\ begun.served = 0)

(* An execution that has read the upload to its end has sent, once and in  *)
(* order, what setContent() was given from where the execution before it   *)
(* stopped, and nothing else: all of it if it is the first to read any of  *)
(* it, and not all of it if it is tried again.  This is if no body has     *)
(* come in since, which goes to the same buffer (utility.c:25-32).         *)
UploadWhole ==
    transfer = "read" /\ reads = "callback" /\ (returns => served = <<>>) =>
       Latest(sent, begun.sent) = Latest(handed, begun.sent)

(* A script that sets INFILE and the content both, and no list option by a *)
(* string, meets no fault: no callback finds its buffer missing and        *)
(* nothing is freed twice, in any order of calls.                          *)
FaultsExplained ==
    /\ fault \notin {"doubleFree", "noBuffer"}
    /\ fault = "stringAsList" => \E o \in ListOptions : pointers[o] # Null
    /\ (reads = "callback") = (readsFrom = "object") => fault \notin {"stdinAsObject", "objectAsFile"}
=============================================================================
