------------------------------- MODULE MCUxml -------------------------------
EXTENDS UxmlObjects, TLC

CONSTANTS MaxLen, a, b

Tag(kind, name) == [kind |-> kind, name |-> name]

(* The names of comments and of bad tags do not matter.                    *)
Alphabet == {Tag(k, n) : k \in {"start", "end"}, n \in {a, b}}
    \cup {Tag(k, a) : k \in {"empty", "comment", "badstart", "badend"}}

MCLater == {<<Tag("start", a), Tag("empty", b), Tag("end", a)>>, <<Tag("end", a)>>}

MCQueries == {<<>>, <<Tag("empty", a), Tag("empty", b)>>}

Symmetry == Permutations(Refs)

MCInit == \E n \in 0..MaxLen : \E d \in [1..n -> Alphabet] : ObjectsInit(d)

MCSpec == MCInit /\ [][ObjectsNext]_vars
=============================================================================
