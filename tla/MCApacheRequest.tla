--------------------------- MODULE MCApacheRequest ---------------------------
(* Requests with up to two arguments, and bodies of up to two pairs or     *)
(* controls, each cut at every place.                                      *)
EXTENDS ApacheRequest

Pairs == { [key |-> <<"k">>, val |-> v] :
             v \in { <<>>, <<Blank>>, <<"a", "+">>, <<"&", "=">>, <<"%">> } }
           \cup { [key |-> <<"=", Blank>>, val |-> <<"a">>], [key |-> <<>>, val |-> <<"a">>] }

MCPairLists == BoundedSeq(Pairs, 1) \cup { <<p, q>> : p \in Pairs, q \in { [key |-> <<"k">>, val |-> <<"&">>] } }

MCControls ==
    [name : {<<"n">>},
     file : { NoFile, FileNamed(<<>>, <<>>), FileNamed(<<>>, <<"c">>), FileNamed(<<"d", "/">>, <<"c">>) },
     header : {"none", "type", "folded", "odd"}, data : { <<>>, <<Bytes>>, <<Bytes, CRLF, Dashes>> }]

MCForms == { <<c>> : c \in MCControls }
             \cup { <<c, d>> : c \in MCControls, d \in { e \in MCControls : e.header = "type" } }

MCChars == {"k", "a", "n", "c", "d", "/", "+", "&", "=", "%", Digit, Blank}

=============================================================================
