---------------------------- MODULE MCPureParts -----------------------------
(* References between three entities, joins over three components, small relations. *)
EXTENDS PureParts

\* An entity without a key, one with a key of one column, one with a key of two.
MCKeys == "fact" :> <<>> @@ "zone" :> <<"k">> @@ "region" :> <<"k", "l">>

Reference(child, parent, cardinality) ==
    [child |-> child, parent |-> parent, fields |-> MCKeys[parent], cardinality |-> cardinality]

MCRefs ==
    {Reference(c, p, cardinality) : c, p \in {"fact", "zone", "region"},
                                    cardinality \in {"many_to_one", "one_to_one"}}
    \union {"name" :> "second" @@ Reference(c, "region", "many_to_one") : c \in {"fact", "zone"}}
    \union {Reference("fact", "zone", "many_to_many"),
            "nullable" :> TRUE @@ Reference("fact", "zone", "many_to_one"),
            [child |-> "fact", parent |-> "region", fields |-> <<"k">>],
            [child |-> "fact", parent |-> "elsewhere", fields |-> <<"k">>]}

Component(name, kind, key) ==
    [name |-> name, kind |-> kind, key |-> key, columns |-> None,
     source |-> None, table |-> None, priority |-> None]

MCComponents == <<Component("f", "fact", <<>>), Component("d", "dimension", <<"k">>),
                  Component("b", "bridge", <<"k", "l">>)>>

MCJoins ==
    {j \in [component : {"d", "b", "f"}, left : {None, "d", "b"}, type : {"inner", "left"}, fanOut : BOOLEAN,
            on : {{<<"k", "k">>}, {<<"l", "k">>}, {<<"k", "k">>, <<"l", "l">>}}] :
        j.fanOut => j.component = "b"}

\* One row in the base, its columns NULL or not; up to two rows in the others.
MCTables ==
    LET rows == [{"k", "l"} -> {1, 2}]
    IN  "f" :> {{r} : r \in {x \in [{"k", "l"} -> {1, 2, None}] : x["k"] # 2 /\ x # [c \in {"k", "l"} |-> None]}}
        @@ "d" :> {s \in SUBSET rows : Cardinality(s) <= 2}
        @@ "b" :> {s \in SUBSET rows : Cardinality(s) <= 2}

MCRows == [{"key", "value"} -> {None, 1, 2}]
===============================================================================
