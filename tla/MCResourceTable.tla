--------------------------- MODULE MCResourceTable ---------------------------
(***************************************************************************)
(* A small instance of ResourceTable for TLC: paths of up to two steps,    *)
(* with and without a trailing star, and patterns with wildcards elsewhere.*)
(***************************************************************************)
EXTENDS ResourceTable

CONSTANTS a, b, MaxEntries

SmallUris == UNION {[1..n -> {a, b}] : n \in 1..3}

Paths == UNION {[1..n -> {a, b}] : n \in 0..2}

SmallPatterns ==
    {Append(path, Star) : path \in Paths}
        \cup {<<a, b>>, <<b, a>>}
        \cup {<<One>>, <<a, One>>, <<Star, b>>, <<Star, a, Star>>}

GrantTo(roles) ==
    [allow_roles |-> roles, requires_approval |-> FALSE, classification |-> "internal"]

OpenAndShut == {GrantTo(Roles), GrantTo({})}

MCNext ==
    \/ /\ Len(table) < MaxEntries
       /\ \E at \in 0..Len(table), entry \in Entries : Insert(at, entry)
    \/ \E at \in DOMAIN table : Delete(at)

MCSpec == Init /\ [][MCNext]_table
=============================================================================
