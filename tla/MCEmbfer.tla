------------------------------ MODULE MCEmbfer ------------------------------
(* Documents of up to three pieces, and the start of a tag before them.    *)
EXTENDS Embfer

Pieces == { <<"<", "?">>, <<"?", ">">>, <<"<">>, <<"?">>, <<Blank>>, <<"t">>, <<"$">> }

Short == { FlattenSeq(s) : s \in BoundedSeq(Pieces, 3) }

MCDocs == Short \cup { <<"<", "?", "t">> \o d : d \in Short }

MCChars == UNION { ToSet(d) : d \in MCDocs }

MCTags == { <<"t">> }

=============================================================================
