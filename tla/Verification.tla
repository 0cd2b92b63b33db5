------------------------------ MODULE Verification -----------------------------
(***************************************************************************)
(* The comparisons of a published relation with what it should hold        *)
(* (sqlsink/verify.py).                                                    *)
(*                                                                         *)
(* A relation is [columns, rows], its rows a bag of functions of the       *)
(* columns.  A hash is what it hashes: "A checksum collision is            *)
(* theoretically possible but negligible".  The tolerance is smaller than  *)
(* any difference; the memory bound, the hash buckets and the samples are  *)
(* left out.                                                               *)
(***************************************************************************)
EXTENDS Integers, FiniteSetsExt, Functions

CONSTANT None

\* COUNT(*): a row of a bag counts as often as it is there.
Count(rows) == Cardinality(UNION {{row} \X (1 .. rows[row]) : row \in DOMAIN rows})

\* The same by the value that part gives to a row.
CountBy(part, rows) ==
    [value \in Range(part) |-> Count(Restrict(rows, {row \in DOMAIN rows : part[row] = value}))]

\* The rows as a bag over some of the columns.
Over(rows, columns) == CountBy([row \in DOMAIN rows |-> Restrict(row, columns)], rows)

\* Bug: a key that only the view has is in no batch.
KeysOfReference(reference, view, key) == {row[key] : row \in DOMAIN reference.rows} \ {None}

\* The distinct keys of either side, without NULL.
KeysOf(reference, view, key) ==
    {row[key] : row \in DOMAIN reference.rows \union DOMAIN view.rows} \ {None}

\* The keys in batches of size; any order of the keys will do.
Batches(keys, size) ==
    LET position == CHOOSE f \in [keys -> 1 .. Cardinality(keys)] : IsInjective(f)
        BatchOf(k) == (position[k] - 1) \div size
    IN  {{l \in keys : BatchOf(l) = BatchOf(k)} : k \in keys}

\* The rows of a relation whose key is one of keys.
Batch(relation, key, keys) ==
    Restrict(relation.rows, {row \in DOMAIN relation.rows : row[key] \in keys})

\* compare_batched: the batches agree, and so do the rows whose key is NULL.
BatchesAgree(original, view, columns, key, size) ==
    \A keys \in Batches(KeysOf(original, view, key), size) \union {{None}} :
        Over(Batch(original, key, keys), columns) = Over(Batch(view, key, keys), columns)

\* The bag of what the rows have in a column, without NULL.
Values(rows, column) ==
    LET values == CountBy([row \in DOMAIN rows |-> row[column]], rows)
    IN  Restrict(values, DOMAIN values \ {None})

\* SUM of a bag of numbers.
Sum(values) ==
    LET sum[some \in SUBSET DOMAIN values] ==
            IF some = {} THEN 0
            ELSE LET v == CHOOSE x \in some : TRUE
                 IN  v * values[v] + sum[some \ {v}]
    IN  sum[DOMAIN values]

\* Bug: the sum of the values is not compared.
SummaryWithoutSum(rows, column) ==
    LET values == Values(rows, column)
    IN  IF DOMAIN values = {} THEN [count |-> 0, min |-> None, max |-> None]
        ELSE [count |-> Count(values), min |-> Min(DOMAIN values), max |-> Max(DOMAIN values)]

\* What is compared of a float column of a group.
Summary(rows, column) ==
    LET values == Values(rows, column)
    IN  IF DOMAIN values = {} THEN [count |-> 0, min |-> None, max |-> None, sum |-> None]
        ELSE [count |-> Count(values), min |-> Min(DOMAIN values), max |-> Max(DOMAIN values),
              sum |-> Sum(values)]

\* _group_sql: the rows that share their other columns, and a summary of their floats.
Groups(rows, exact, floats) ==
    [group \in {Restrict(row, exact) : row \in DOMAIN rows} |->
        LET members == Restrict(rows, {row \in DOMAIN rows : Restrict(row, exact) = group})
        IN  [n |-> Count(members), floats |-> [c \in floats |-> Summary(members, c)]]]

\* compare_relations, by batches of a key column; floats: the columns that are float on either side.
RelationsAgree(reference, view, columns, floats, key, size) ==
    LET wanted == IF columns = None THEN reference.columns ELSE columns
        extra == IF columns = None THEN view.columns \ reference.columns ELSE {}
        GroupsOf(relation, keys) == Groups(Batch(relation, key, keys), wanted \ floats, floats)
    IN  /\ wanted \subseteq view.columns
        /\ extra = {}
        /\ Count(reference.rows) = Count(view.rows)
        /\ \A keys \in Batches(KeysOf(reference, view, key), size) \union {{None}} :
            GroupsOf(reference, keys) = GroupsOf(view, keys)
===============================================================================
