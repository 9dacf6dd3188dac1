--------------------------- MODULE MCIdempotency ---------------------------
(* Values for model checking Idempotency. *)
EXTENDS Idempotency, TLC

\* Creates: two bodies that name the same id, and one that names none.
MCBodies == {"a", "b", "c"}
MCIdOf == [p \in MCBodies |-> IF p = "c" THEN NoId ELSE "id"]

\* Uploads: the same bytes sent as a trace or as a config, and nothing else.
MCParts == {[metrics |-> <<>>, trace |-> <<"x">>, config |-> <<>>],
            [metrics |-> <<>>, trace |-> <<>>, config |-> <<"x">>]}
MCNoIdOf == [p \in MCParts |-> NoId]
MCIds == {"id"}

Symmetry == Permutations(Requests) \cup Permutations(Keys)
=============================================================================
