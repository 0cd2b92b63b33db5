--------------------------- MODULE PureParts_proofs ---------------------------
(***************************************************************************)
(* Theorems about what is accepted and what is derived from it: of any     *)
(* number of references and joins, over contents and rows of any number.   *)
(***************************************************************************)
EXTENDS PureParts, LeastNumber, FiniteSetTheorems

-------------------------------------------------------------------------------
(* Counting *)

\* A set whose members are all equal has one at most.
LEMMA OneAtMost ==
    ASSUME NEW S, \A x, y \in S : x = y
    PROVE  IsFiniteSet(S) /\ Cardinality(S) <= 1
  <1>1. CASE S = {}
    BY <1>1, FS_EmptySet
  <1>2. CASE S # {}
    <2>1. PICK x : S = {x}
      BY <1>2
    <2>2. IsFiniteSet({x}) /\ Cardinality({x}) = 1
      BY FS_Singleton
    <2>3. QED
      BY <2>1, <2>2
  <1>3. QED
    BY <1>1, <1>2

\* A finite set with two members that differ has more than one.
LEMMA MoreThanOne ==
    ASSUME NEW S, IsFiniteSet(S), NEW x \in S, NEW y \in S, x # y
    PROVE  Cardinality(S) > 1
  <1>1. Cardinality(S) \in Nat
    BY FS_CardinalityType
  <1>2. Cardinality(S) # 0
    BY FS_EmptySet
  <1>3. Cardinality(S) # 1
    <2>1. SUFFICES ASSUME Cardinality(S) = 1 PROVE FALSE
      OBVIOUS
    <2>2. PICK z : S = {z}
      BY <2>1, FS_Singleton
    <2>3. QED
      BY <2>2
  <1>4. QED
    BY <1>1, <1>2, <1>3

\* There are finitely many functions from a finite set to two values.
LEMMA ChoicesFinite ==
    ASSUME NEW S, IsFiniteSet(S)
    PROVE  IsFiniteSet([S -> Rows])
  <1> DEFINE ones == [c \in [S -> Rows] |-> {x \in S : c[x] = 1}]
  <1>1. ones \in [[S -> Rows] -> SUBSET S]
    OBVIOUS
  <1>2. ASSUME NEW c \in [S -> Rows], NEW d \in [S -> Rows], ones[c] = ones[d] PROVE c = d
    <2>1. \A x \in S : c[x] = 1 <=> d[x] = 1
      BY <1>2
    <2>2. \A x \in S : c[x] = d[x]
      BY <2>1 DEF Rows
    <2>3. QED
      BY <2>2
  <1>3. ones \in Injection([S -> Rows], SUBSET S)
    BY <1>1, <1>2 DEF Injection, IsInjective
  <1>4. QED
    BY <1>3, FS_SUBSET, FS_Injection

-------------------------------------------------------------------------------
(* The grain of a path *)

\* The rows that the joins of a path may give for row r, with these contents.
RowsAlong(path, contents, r) ==
    {c \in [DOMAIN path -> Rows] :
        \A i \in DOMAIN path :
            LET before == IF i = 1 THEN r ELSE c[i - 1]
            IN  IF path[i].forward THEN c[i] \in contents[i][before]
                                   ELSE before \in contents[i][c[i]]}

\* What the edges of a graph that is accepted have to do with the grain.
Joinable(path) ==
    /\ Len(path) \in Nat /\ DOMAIN path = 1 .. Len(path)
    /\ \A i \in DOMAIN path : /\ path[i].forward \in BOOLEAN
                              /\ path[i].edge.columns # <<>>

\* Contents of an edge: each row of child references one row, not both the same one if one to one.
LEMMA ContentOf ==
    ASSUME NEW edge, edge.columns # <<>>,
           NEW f \in [Rows -> Rows], edge.cardinality = "one_to_one" => f[1] # f[2]
    PROVE  [r \in Rows |-> {f[r]}] \in References(edge)
  BY DEF References

\* A hop that is no fan-out gives one row at most.
LEMMA HopIsFunction ==
    ASSUME NEW hop, hop.forward \in BOOLEAN, hop.edge.columns # <<>>, ~HopFansOut(hop),
           NEW content \in References(hop.edge),
           NEW before \in Rows, NEW x \in Rows, NEW y \in Rows,
           IF hop.forward THEN x \in content[before] /\ y \in content[before]
                          ELSE before \in content[x] /\ before \in content[y]
    PROVE  x = y
  <1>1. PICK f \in [Rows -> Rows] : /\ content = [r \in Rows |-> {f[r]}]
                                    /\ hop.edge.cardinality = "one_to_one" => f[1] # f[2]
    BY DEF References
  <1>2. CASE hop.forward
    BY <1>1, <1>2
  <1>3. CASE ~hop.forward
    <2>1. f[1] # f[2]
      BY <1>1, <1>3 DEF HopFansOut
    <2>2. f[x] = before /\ f[y] = before
      BY <1>1, <1>3
    <2>3. QED
      BY <2>1, <2>2 DEF Rows
  <1>4. QED
    BY <1>2, <1>3

\* Joined along a path without a fan-out, a row stays one row, over all contents.
LEMMA GrainStays ==
    ASSUME NEW path, Joinable(path), ~FansOut(path),
           NEW contents, \A i \in DOMAIN path : contents[i] \in References(path[i].edge),
           NEW r \in Rows
    PROVE  \A c, d \in RowsAlong(path, contents, r) : c = d
  <1>1. SUFFICES ASSUME NEW c \in RowsAlong(path, contents, r), NEW d \in RowsAlong(path, contents, r)
                 PROVE  c = d
    OBVIOUS
  <1>2. c \in [DOMAIN path -> Rows] /\ d \in [DOMAIN path -> Rows]
    BY DEF RowsAlong
  <1> DEFINE Same == {n \in Nat : n \in DOMAIN path => c[n] = d[n]}
  <1>3. 0 \in Same
    BY DEF Joinable
  <1>4. ASSUME NEW n \in Nat, n \in Same PROVE n + 1 \in Same
    <2>1. SUFFICES ASSUME n + 1 \in DOMAIN path PROVE c[n + 1] = d[n + 1]
      OBVIOUS
    <2>2. PICK i \in DOMAIN path : i = n + 1
      BY <2>1
    <2>3. (i = 1 <=> n = 0) /\ i - 1 = n /\ (n = 0 \/ n \in DOMAIN path)
      BY <2>2 DEF Joinable
    <2>4. PICK before \in Rows : /\ before = (IF i = 1 THEN r ELSE c[i - 1])
                                 /\ before = (IF i = 1 THEN r ELSE d[i - 1])
      BY <1>2, <1>4, <2>3
    <2>5. IF path[i].forward THEN c[i] \in contents[i][before] /\ d[i] \in contents[i][before]
                             ELSE before \in contents[i][c[i]] /\ before \in contents[i][d[i]]
      BY <2>4 DEF RowsAlong
    <2>6. /\ path[i].forward \in BOOLEAN /\ path[i].edge.columns # <<>> /\ ~HopFansOut(path[i])
          /\ contents[i] \in References(path[i].edge)
          /\ c[i] \in Rows /\ d[i] \in Rows
      BY <1>2 DEF Joinable, FansOut
    <2>7. c[i] = d[i]
      BY <2>5, <2>6, HopIsFunction
    <2>8. QED
      BY <2>2, <2>7
  <1> HIDE DEF Same
  <1>5. \A n \in Nat : n \in Same
    BY <1>3, <1>4, InductionOnSet
  <1>6. \A i \in DOMAIN path : c[i] = d[i]
    BY <1>5 DEF Same, Joinable
  <1>7. QED
    BY <1>2, <1>6

\* Joined along a path with a fan-out, a row may become two.
LEMMA GrainLost ==
    ASSUME NEW path, Joinable(path), FansOut(path)
    PROVE  \E contents \in [DOMAIN path -> UNION {References(path[i].edge) : i \in DOMAIN path}] :
               /\ \A i \in DOMAIN path : contents[i] \in References(path[i].edge)
               /\ \E c, d \in RowsAlong(path, contents, 1) : c # d
  <1>1. PICK m \in DOMAIN path : HopFansOut(path[m])
    BY DEF FansOut
  <1>2. PICK same \in [Rows -> Rows] : same = [r \in Rows |-> r]
    OBVIOUS
  <1>3. PICK first \in [Rows -> Rows] : first = [r \in Rows |-> 1]
    BY DEF Rows
  <1> DEFINE contents ==
                [i \in DOMAIN path |-> IF i = m THEN [r \in Rows |-> {first[r]}] ELSE [r \in Rows |-> {same[r]}]]
  <1>4. ASSUME NEW i \in DOMAIN path PROVE contents[i] \in References(path[i].edge)
    <2>1. path[i].edge.columns # <<>>
      BY DEF Joinable
    <2>2. CASE i = m
      <3>1. path[i].edge.cardinality # "one_to_one"
        BY <1>1, <2>2 DEF HopFansOut
      <3>2. contents[i] = [r \in Rows |-> {first[r]}]
        BY <2>2
      <3>3. QED
        BY <2>1, <3>1, <3>2, ContentOf
    <2>3. CASE i # m
      <3>1. contents[i] = [r \in Rows |-> {same[r]}]
        BY <2>3
      <3>2. same[1] # same[2]
        BY <1>2 DEF Rows
      <3>3. QED
        BY <2>1, <3>1, <3>2, ContentOf
    <2>4. QED
      BY <2>2, <2>3
  <1>5. contents \in [DOMAIN path -> UNION {References(path[i].edge) : i \in DOMAIN path}]
    BY <1>4
  <1> DEFINE one == [i \in DOMAIN path |-> 1]
             two == [i \in DOMAIN path |-> IF i < m THEN 1 ELSE 2]
  <1>6. \A i \in DOMAIN path, r \in Rows : contents[i][r] = IF i = m THEN {1} ELSE {r}
    BY <1>2, <1>3
  <1> HIDE DEF contents
  <1>7. one \in RowsAlong(path, contents, 1)
    <2>1. one \in [DOMAIN path -> Rows]
      BY DEF Rows
    <2>2. ASSUME NEW i \in DOMAIN path PROVE one[i] = 1 /\ (i # 1 => one[i - 1] = 1)
      BY DEF Joinable
    <2>3. 1 \in Rows
      BY DEF Rows
    <2>4. \A i \in DOMAIN path : 1 \in contents[i][1]
      BY <1>6, <2>3
    <2> HIDE DEF one
    <2>5. QED
      BY <2>1, <2>2, <2>4 DEF RowsAlong
  <1>8. two \in RowsAlong(path, contents, 1)
    <2>1. two \in [DOMAIN path -> Rows]
      BY DEF Rows
    <2>2. ASSUME NEW i \in DOMAIN path, NEW before, before = (IF i = 1 THEN 1 ELSE two[i - 1])
          PROVE  IF path[i].forward THEN two[i] \in contents[i][before] ELSE before \in contents[i][two[i]]
      <3>1. ~path[m].forward
        BY <1>1 DEF HopFansOut
      <3>2. i \in Nat /\ m \in Nat /\ i >= 1 /\ m >= 1 /\ (i # 1 => i - 1 \in DOMAIN path)
        BY DEF Joinable
      <3>3. 1 \in Rows /\ 2 \in Rows
        BY DEF Rows
      <3>4. CASE i < m
        <4>1. two[i] = 1 /\ before = 1
          BY <2>2, <3>2, <3>4
        <4>2. contents[i][1] = {1}
          BY <1>6, <3>3
        <4>3. QED
          BY <4>1, <4>2
      <3>5. CASE i = m
        <4>1. two[i] = 2 /\ before = 1
          BY <2>2, <3>2, <3>5
        <4>2. contents[i][2] = {1}
          BY <1>6, <3>3, <3>5
        <4>3. QED
          BY <3>1, <3>5, <4>1, <4>2
      <3>6. CASE i > m
        <4>1. two[i] = 2 /\ before = 2
          BY <2>2, <3>2, <3>6
        <4>2. i # m
          BY <3>2, <3>6
        <4>3. contents[i][2] = {2}
          BY <1>6, <3>3, <4>2
        <4>4. QED
          BY <4>1, <4>3
      <3>7. QED
        BY <3>2, <3>4, <3>5, <3>6
    <2> HIDE DEF two
    <2>3. QED
      BY <2>1, <2>2 DEF RowsAlong
  <1>9. one[m] # two[m]
    BY DEF Joinable
  <1>10. QED
    BY <1>4, <1>5, <1>7, <1>8, <1>9

\* What fan_out derives from the hops is what joining along them does.
LEMMA FanOutIsMultiplication ==
    ASSUME NEW path, Joinable(path)
    PROVE  FansOut(path) <=> Multiplies(path)
  <1>1. Multiplies(path) <=>
            \E contents \in [DOMAIN path -> UNION {References(path[i].edge) : i \in DOMAIN path}] :
                /\ \A i \in DOMAIN path : contents[i] \in References(path[i].edge)
                /\ \E r \in Rows : Cardinality(RowsAlong(path, contents, r)) > 1
    BY DEF Multiplies, RowsAlong
  <1>2. ASSUME NEW contents, NEW r PROVE IsFiniteSet(RowsAlong(path, contents, r))
    <2>1. IsFiniteSet(DOMAIN path)
      BY FS_Interval DEF Joinable
    <2>2. IsFiniteSet([DOMAIN path -> Rows])
      BY <2>1, ChoicesFinite
    <2>3. QED
      BY <2>2, FS_Subset DEF RowsAlong
  <1>3. ASSUME FansOut(path) PROVE Multiplies(path)
    <2>1. PICK contents \in [DOMAIN path -> UNION {References(path[i].edge) : i \in DOMAIN path}] :
               /\ \A i \in DOMAIN path : contents[i] \in References(path[i].edge)
               /\ \E c, d \in RowsAlong(path, contents, 1) : c # d
      BY <1>3, GrainLost
    <2>2. Cardinality(RowsAlong(path, contents, 1)) > 1
      BY <1>2, <2>1, MoreThanOne
    <2>3. 1 \in Rows
      BY DEF Rows
    <2>4. QED
      BY <1>1, <2>1, <2>2, <2>3
  <1>4. ASSUME ~FansOut(path), Multiplies(path) PROVE FALSE
    <2>1. PICK contents, r : /\ r \in Rows
                             /\ \A i \in DOMAIN path : contents[i] \in References(path[i].edge)
                             /\ Cardinality(RowsAlong(path, contents, r)) > 1
      BY <1>1, <1>4
    <2>2. \A c, d \in RowsAlong(path, contents, r) : c = d
      BY <1>4, <2>1, GrainStays
    <2>3. Cardinality(RowsAlong(path, contents, r)) <= 1 /\ IsFiniteSet(RowsAlong(path, contents, r))
      BY <2>2, OneAtMost
    <2>4. Cardinality(RowsAlong(path, contents, r)) \in Nat
      BY <2>3, FS_CardinalityType
    <2>5. QED
      BY <2>1, <2>3, <2>4
  <1>5. QED
    BY <1>3, <1>4

-------------------------------------------------------------------------------
(* Routes *)

\* The paths after each of the first m hops.
PathsUpTo(paths, g, source, target, m) ==
    paths = [n \in 0 .. m |-> IF n = 0 THEN {<<>>} ELSE Walked(g, source, target, paths[n - 1])]

\* They exist for every number of hops.
LEMMA PathsExist ==
    ASSUME NEW g, NEW source, NEW target
    PROVE  \A m \in Nat : \E paths : PathsUpTo(paths, g, source, target, m)
  <1> DEFINE Start == {<<>>}
             After(found) == Walked(g, source, target, found)
             UpTo(paths, m) == paths = [n \in 0 .. m |-> IF n = 0 THEN Start ELSE After(paths[n - 1])]
             Reached == {m \in Nat : \E paths : UpTo(paths, m)}
  <1> HIDE DEF Start, After
  <1>1. 0 \in Reached
    <2>1. PICK f : f = [n \in 0 .. 0 |-> Start]
      OBVIOUS
    <2>2. f = [n \in 0 .. 0 |-> IF n = 0 THEN Start ELSE After(f[n - 1])]
      BY <2>1
    <2>3. QED
      BY <2>2
  <1>2. ASSUME NEW m \in Nat, m \in Reached PROVE m + 1 \in Reached
    <2>1. PICK f : UpTo(f, m)
      BY <1>2
    <2>2. PICK h : h = [n \in 0 .. m + 1 |-> IF n = m + 1 THEN After(f[m]) ELSE f[n]]
      OBVIOUS
    <2>3. ASSUME NEW n \in 0 .. m + 1 PROVE h[n] = IF n = 0 THEN Start ELSE After(h[n - 1])
      BY <2>1, <2>2, <2>3
    <2>4. h = [n \in 0 .. m + 1 |-> h[n]]
      BY <2>2
    <2>5. UpTo(h, m + 1)
      BY <2>3, <2>4
    <2>6. QED
      BY <2>5
  <1> HIDE DEF Reached
  <1>3. \A m \in Nat : m \in Reached
    BY <1>1, <1>2, InductionOnSet
  <1>4. QED
    BY <1>3 DEF Reached, PathsUpTo, Start, After

\* Those of a search: each from the one before.
PathsInTurn(paths, g, source, target, max) ==
    /\ Paths(g, source, target, max) = {p \in paths[max] : Arrived(source, target, p)}
    /\ paths[0] = {<<>>}
    /\ \A n \in 1 .. max : paths[n] = Walked(g, source, target, paths[n - 1])

\* The routes of a search are those that have arrived after its last hop.
LEMMA PathsAre ==
    ASSUME NEW g, NEW source, NEW target, NEW max \in Nat
    PROVE  \E paths : PathsInTurn(paths, g, source, target, max)
  <1> DEFINE all == CHOOSE paths : PathsUpTo(paths, g, source, target, max)
  <1>1. PathsUpTo(all, g, source, target, max)
    BY PathsExist
  <1>2. Paths(g, source, target, max) = {p \in all[max] : Arrived(source, target, p)}
    BY Zenon DEF Paths, PathsUpTo
  <1> HIDE DEF all
  <1>3. \A n \in 0 .. max : all[n] = IF n = 0 THEN {<<>>} ELSE Walked(g, source, target, all[n - 1])
    BY <1>1 DEF PathsUpTo
  <1>4. /\ all[0] = {<<>>}
        /\ \A n \in 1 .. max : all[n] = Walked(g, source, target, all[n - 1])
    BY <1>3
  <1>5. QED
    BY <1>2, <1>4 DEF PathsInTurn

\* A step to an entity adds one to the number of steps.
LEMMA OneStepMore ==
    ASSUME NEW g, NEW source, NEW from, NEW to \in Entities(g), NEW k \in Nat,
           Steps(g, source, from, k), GrainStep(g, from, to)
    PROVE  Steps(g, source, to, k + 1)
  <1>1. PICK w \in [0 .. k -> Entities(g)] :
            w[0] = source /\ w[k] = from /\ \A i \in 1 .. k : GrainStep(g, w[i - 1], w[i])
    BY DEF Steps
  <1> DEFINE v == [i \in 0 .. k + 1 |-> IF i = k + 1 THEN to ELSE w[i]]
  <1>2. v \in [0 .. k + 1 -> Entities(g)]
    BY <1>1
  <1>3. v[0] = source /\ v[k + 1] = to
    BY <1>1
  <1>4. ASSUME NEW i \in 1 .. k + 1 PROVE GrainStep(g, v[i - 1], v[i])
    <2>1. CASE i = k + 1
      BY <1>1, <2>1
    <2>2. CASE i # k + 1
      BY <1>1, <2>2
    <2>3. QED
      BY <2>1, <2>2
  <1> HIDE DEF v
  <1>5. QED
    BY <1>2, <1>3, <1>4 DEF Steps

\* The edges of a graph are finite in number, between its entities and of the cardinalities there are.
WellFormed(g) ==
    /\ IsFiniteSet(Range(g.edges))
    /\ \A e \in Range(g.edges) : EdgeOK(g, e)

\* A path of at most n hops that is no fan-out ends at most n grain-keeping steps from its source, if all
\* references have columns.
SafeWithin(g, source, n, p) ==
    AllHaveColumns(Range(g.edges)) /\ ~FansOut(p) => \E k \in 0 .. n : Steps(g, source, EndOf(source, p), k)

\* A path ends where its last hop does.
LEMMA HopEnds ==
    ASSUME NEW g, NEW source, NEW p \in Seq(Hops(g)), NEW h \in Hops(g)
    PROVE  EndOf(source, Append(p, h)) = To(h)
  BY DEF EndOf

\* What a hop adds to a path.
LEMMA HopAdded ==
    ASSUME NEW g, NEW source, NEW p \in Seq(Hops(g)), NEW h \in Hops(g)
    PROVE  /\ Append(p, h) \in Seq(Hops(g))
           /\ Append(p, h) # <<>>
           /\ Seen(source, Append(p, h)) = Seen(source, p) \union {To(h)}
           /\ ~FansOut(Append(p, h)) <=> ~FansOut(p) /\ ~HopFansOut(h)
  <1> DEFINE q == Append(p, h)
  <1>1. /\ q \in Seq(Hops(g)) /\ Len(q) = Len(p) + 1 /\ Len(p) \in Nat
        /\ DOMAIN q = 1 .. Len(p) + 1 /\ DOMAIN p = 1 .. Len(p)
        /\ q[Len(p) + 1] = h /\ \A i \in 1 .. Len(p) : q[i] = p[i]
        /\ q # <<>>
    OBVIOUS
  <1>2. DOMAIN q = DOMAIN p \union {Len(p) + 1}
    BY <1>1
  <1> HIDE DEF q
  <1>4. Seen(source, q) = Seen(source, p) \union {To(h)}
    BY <1>1, <1>2 DEF Seen
  <1>5. FansOut(q) <=> FansOut(p) \/ HopFansOut(h)
    BY <1>1, <1>2 DEF FansOut
  <1>6. QED
    BY <1>1, <1>4, <1>5 DEF q

\* What the paths of a search are after n hops: finitely many, and none is safe beyond n steps.
PathsSound(g, source, n, paths) ==
    /\ paths \subseteq Seq(Hops(g))
    /\ IsFiniteSet(paths)
    /\ \A p \in paths : SafeWithin(g, source, n, p)

\* A hop that is no fan-out, along a reference with columns, gives at most one row for a row.
LEMMA HopKeepsRows ==
    ASSUME NEW h, h.forward \in BOOLEAN, h.edge.columns # <<>>, ~HopFansOut(h)
    PROVE  KeepsRows(h)
  <1>1. ASSUME NEW contents \in References(h.edge), NEW r \in Rows
        PROVE  Cardinality({s \in Rows : IF h.forward THEN s \in contents[r] ELSE r \in contents[s]}) <= 1
    <2> DEFINE found == {s \in Rows : IF h.forward THEN s \in contents[r] ELSE r \in contents[s]}
    <2>1. ASSUME NEW x \in found, NEW y \in found PROVE x = y
      <3>1. /\ x \in Rows /\ y \in Rows
            /\ IF h.forward THEN x \in contents[r] /\ y \in contents[r]
                            ELSE r \in contents[x] /\ r \in contents[y]
        OBVIOUS
      <3>2. QED
        BY <3>1, HopIsFunction
    <2> HIDE DEF found
    <2>2. Cardinality(found) <= 1
      BY <2>1, OneAtMost
    <2>3. QED
      BY <2>2 DEF found
  <1>2. QED
    BY <1>1 DEF KeepsRows

\* A hop that is a fan-out gives two rows for one, over some contents.
LEMMA FanOutLosesRows ==
    ASSUME NEW h, HopFansOut(h)
    PROVE  ~KeepsRows(h)
  <1>1. PICK contents \in References(h.edge) : \A s \in Rows : 1 \in contents[s]
    <2>1. CASE h.edge.columns = <<>>
      <3>1. [r \in Rows |-> Rows] \in References(h.edge)
        BY <2>1 DEF References
      <3>2. QED
        BY <3>1 DEF Rows
    <2>2. CASE h.edge.columns # <<>>
      <3>1. PICK first \in [Rows -> Rows] : first = [r \in Rows |-> 1]
        BY DEF Rows
      <3>2. [r \in Rows |-> {first[r]}] \in References(h.edge)
        BY <2>2, ContentOf DEF HopFansOut
      <3>3. QED
        BY <3>1, <3>2
    <2>3. QED
      BY <2>1, <2>2
  <1> DEFINE found == {s \in Rows : IF h.forward THEN s \in contents[1] ELSE 1 \in contents[s]}
  <1>2. 1 \in found /\ 2 \in found
    BY <1>1 DEF Rows, HopFansOut
  <1>3. IsFiniteSet(found)
    <2>1. found \subseteq {1, 2} /\ {1, 2} = 1 .. 2
      BY DEF Rows
    <2>2. IsFiniteSet(1 .. 2)
      <3>1. 1 \in Int /\ 2 \in Int
        OBVIOUS
      <3>2. QED
        BY <3>1, FS_Interval, Zenon
    <2>3. QED
      BY <2>1, <2>2, FS_Subset
  <1> HIDE DEF found
  <1>4. Cardinality(found) > 1 /\ Cardinality(found) \in Nat
    BY <1>2, <1>3, MoreThanOne, FS_CardinalityType
  <1>5. ~(Cardinality(found) <= 1)
    BY <1>4
  <1>6. 1 \in Rows
    BY DEF Rows
  <1>7. QED
    BY <1>5, <1>6 DEF KeepsRows, found

\* A hop of a well-formed graph, all of whose references have columns, is a step that keeps the grain
\* unless it is a fan-out.
LEMMA HopIsStep ==
    ASSUME NEW g, WellFormed(g), NEW h \in Hops(g)
    PROVE  /\ To(h) \in Entities(g)
           /\ AllHaveColumns(Range(g.edges)) /\ ~HopFansOut(h) => GrainStep(g, From(h), To(h))
  <1>1. h.edge \in Range(g.edges) /\ h.forward \in BOOLEAN /\ EdgeOK(g, h.edge)
    BY DEF Hops, WellFormed
  <1>2. To(h) \in Entities(g)
    BY <1>1 DEF EdgeOK, To
  <1>3. ASSUME AllHaveColumns(Range(g.edges)), ~HopFansOut(h) PROVE GrainStep(g, From(h), To(h))
    <2>1. h.edge.columns # <<>>
      BY <1>1, <1>3 DEF AllHaveColumns
    <2>2. KeepsRows(h)
      BY <1>1, <1>3, <2>1, HopKeepsRows
    <2>3. QED
      BY <2>2 DEF GrainStep
  <1>4. QED
    BY <1>2, <1>3

\* There are finitely many hops.
LEMMA HopsFinite ==
    ASSUME NEW g, WellFormed(g)
    PROVE  IsFiniteSet(Hops(g))
  <1> DEFINE S == Range(g.edges) \X (0 .. 1)
             f == [x \in S |-> [edge |-> x[1], forward |-> x[2] = 1]]
  <1>1. f \in [S -> Hops(g)]
    BY DEF Hops
  <1>2. ASSUME NEW h \in Hops(g) PROVE \E x \in S : f[x] = h
    <2>1. h.edge \in Range(g.edges) /\ h.forward \in BOOLEAN /\ h = [edge |-> h.edge, forward |-> h.forward]
      BY DEF Hops
    <2>2. CASE h.forward
      <3>1. <<h.edge, 1>> \in S
        BY <2>1
      <3>2. f[<<h.edge, 1>>] = h
        BY <2>1, <2>2, <3>1
      <3>3. QED
        BY <3>1, <3>2
    <2>3. CASE ~h.forward
      <3>1. <<h.edge, 0>> \in S
        BY <2>1
      <3>2. f[<<h.edge, 0>>] = h
        BY <2>1, <2>3, <3>1
      <3>3. QED
        BY <3>1, <3>2
    <2>4. QED
      BY <2>2, <2>3
  <1>3. f \in Surjection(S, Hops(g))
    BY <1>1, <1>2 DEF Surjection
  <1>4. IsFiniteSet(S)
    <2>1. 0 \in Int /\ 1 \in Int
      OBVIOUS
    <2>2. IsFiniteSet(0 .. 1)
      BY <2>1, FS_Interval, Zenon
    <2>3. QED
      BY <2>2, FS_Product DEF WellFormed
  <1>5. QED
    BY <1>3, <1>4, FS_Surjection

\* The paths after a further hop.
LEMMA WalkedSound ==
    ASSUME NEW g, WellFormed(g), NEW source, NEW target, NEW n \in Nat, NEW paths,
           PathsSound(g, source, n, paths)
    PROVE  PathsSound(g, source, n + 1, Walked(g, source, target, paths))
  <1> DEFINE all == {Append(x[1], x[2]) : x \in paths \X Hops(g)}
  <1>1. ASSUME NEW q \in Walked(g, source, target, paths)
        PROVE  q \in paths \/ \E p \in paths : \E h \in Onward(g, source, p) : q = Append(p, h)
    BY <1>1, Zenon DEF Walked
  <1>2. ASSUME NEW q \in paths PROVE q \in Seq(Hops(g)) /\ SafeWithin(g, source, n + 1, q)
    <2>1. 0 .. n \subseteq 0 .. n + 1
      OBVIOUS
    <2>2. QED
      BY <2>1 DEF PathsSound, SafeWithin
  <1>3. ASSUME NEW p \in paths, NEW h \in Onward(g, source, p), NEW q, q = Append(p, h)
        PROVE  q \in Seq(Hops(g)) /\ SafeWithin(g, source, n + 1, q) /\ q \in all
    <2>1. p \in Seq(Hops(g)) /\ h \in Hops(g) /\ From(h) = EndOf(source, p)
      BY DEF PathsSound, Onward
    <2>2. /\ q \in Seq(Hops(g)) /\ EndOf(source, q) = To(h)
          /\ ~FansOut(q) => ~FansOut(p) /\ ~HopFansOut(h)
      <3>1. EndOf(source, Append(p, h)) = To(h)
        BY <2>1, HopEnds
      <3>2. /\ Append(p, h) \in Seq(Hops(g))
            /\ ~FansOut(Append(p, h)) => ~FansOut(p) /\ ~HopFansOut(h)
        BY <2>1, HopAdded
      <3>3. QED
        BY <1>3, <3>1, <3>2
    <2>3. ASSUME AllHaveColumns(Range(g.edges)), ~FansOut(q) PROVE \E k \in 0 .. n + 1 : Steps(g, source, EndOf(source, q), k)
      <3>1. PICK k \in 0 .. n : Steps(g, source, EndOf(source, p), k)
        BY <2>2, <2>3 DEF PathsSound, SafeWithin
      <3>2. To(h) \in Entities(g) /\ GrainStep(g, EndOf(source, p), To(h))
        BY <2>1, <2>2, <2>3, HopIsStep
      <3>3. Steps(g, source, To(h), k + 1)
        BY <3>1, <3>2, OneStepMore
      <3>4. k + 1 \in 0 .. n + 1
        OBVIOUS
      <3>5. QED
        BY <2>2, <3>3, <3>4
    <2>4. q \in all
      <3>1. <<p, h>> \in paths \X Hops(g) /\ q = Append(<<p, h>>[1], <<p, h>>[2])
        BY <1>3, <2>1
      <3>2. QED
        BY <3>1
    <2>5. QED
      BY <2>2, <2>3, <2>4 DEF SafeWithin
  <1>4. IsFiniteSet(all)
    <2> DEFINE f == [x \in paths \X Hops(g) |-> Append(x[1], x[2])]
    <2>1. f \in Surjection(paths \X Hops(g), all)
      BY DEF Surjection
    <2>2. IsFiniteSet(paths \X Hops(g))
      BY HopsFinite, FS_Product DEF PathsSound
    <2>3. QED
      BY <2>1, <2>2, FS_Surjection
  <1> HIDE DEF all
  <1>5. Walked(g, source, target, paths) \subseteq paths \union all
    BY <1>1, <1>3
  <1>6. IsFiniteSet(Walked(g, source, target, paths))
    <2>1. IsFiniteSet(paths \union all)
      BY <1>4, FS_Union DEF PathsSound
    <2>2. QED
      BY <1>5, <2>1, FS_Subset
  <1>7. QED
    BY <1>1, <1>2, <1>3, <1>6 DEF PathsSound

\* The routes found by a search are sequences of hops, finitely many, and the safe ones are within reach if
\* all references have columns.
LEMMA RoutesSound ==
    ASSUME NEW g, WellFormed(g), NEW source \in Entities(g), NEW target, NEW max \in Nat
    PROVE  /\ Paths(g, source, target, max) \subseteq Seq(Hops(g))
           /\ IsFiniteSet(Paths(g, source, target, max))
           /\ \A p \in Paths(g, source, target, max) :
                AllHaveColumns(Range(g.edges)) /\ ~FansOut(p) => target \in Near(g, source, max)
  <1>1. PICK paths : PathsInTurn(paths, g, source, target, max)
    BY PathsAre
  <1> DEFINE Sound == {n \in Nat : n <= max => PathsSound(g, source, n, paths[n])}
  <1>2. 0 \in Sound
    <2>1. paths[0] = {<<>>}
      BY <1>1 DEF PathsInTurn
    <2>2. IsFiniteSet({<<>>}) /\ {<<>>} \subseteq Seq(Hops(g))
      <3>1. <<>> \in Seq(Hops(g))
        OBVIOUS
      <3>2. IsFiniteSet({<<>>})
        BY FS_Singleton, Zenon
      <3>3. QED
        BY <3>1, <3>2
    <2>3. Steps(g, source, EndOf(source, <<>>), 0)
      <3> DEFINE w == [i \in 0 .. 0 |-> source]
      <3>1. w \in [0 .. 0 -> Entities(g)] /\ w[0] = source
        OBVIOUS
      <3>2. EndOf(source, <<>>) = source
        BY DEF EndOf
      <3> HIDE DEF w
      <3>3. \A i \in 1 .. 0 : GrainStep(g, w[i - 1], w[i])
        OBVIOUS
      <3>4. QED
        BY <3>1, <3>2, <3>3 DEF Steps
    <2>4. \A p \in {<<>>} : SafeWithin(g, source, 0, p)
      BY <2>3 DEF SafeWithin
    <2>5. QED
      BY <2>1, <2>2, <2>4 DEF PathsSound
  <1>3. ASSUME NEW n \in Nat, n \in Sound PROVE n + 1 \in Sound
    <2>1. SUFFICES ASSUME n + 1 <= max PROVE PathsSound(g, source, n + 1, paths[n + 1])
      OBVIOUS
    <2>2. n + 1 \in 1 .. max /\ (n + 1) - 1 = n /\ n <= max
      BY <2>1
    <2>3. paths[n + 1] = Walked(g, source, target, paths[n])
      BY <1>1, <2>2 DEF PathsInTurn
    <2>4. PathsSound(g, source, n, paths[n])
      BY <1>3, <2>2
    <2>5. QED
      BY <2>3, <2>4, WalkedSound
  <1> HIDE DEF Sound
  <1>4. \A n \in Nat : n \in Sound
    BY <1>2, <1>3, InductionOnSet
  <1>5. PathsSound(g, source, max, paths[max])
    BY <1>4 DEF Sound
  <1>6. Paths(g, source, target, max) \subseteq paths[max]
    BY <1>1 DEF PathsInTurn
  <1>7. ASSUME NEW p \in Paths(g, source, target, max), AllHaveColumns(Range(g.edges)), ~FansOut(p)
        PROVE  target \in Near(g, source, max)
    <2>1. EndOf(source, p) = target
      BY <1>1 DEF PathsInTurn, Arrived
    <2>2. PICK k \in 0 .. max : Steps(g, source, target, k)
      BY <1>5, <1>6, <1>7, <2>1 DEF PathsSound, SafeWithin
    <2>3. target \in Entities(g)
      BY <2>2 DEF Steps
    <2>4. QED
      BY <2>2, <2>3 DEF Near
  <1>8. IsFiniteSet(Paths(g, source, target, max))
    BY <1>5, <1>6, FS_Subset DEF PathsSound
  <1>9. QED
    BY <1>5, <1>6, <1>7, <1>8 DEF PathsSound

\* The least number of steps to an entity is that of steps to entities which differ, none of them the
\* last before the end.
LEMMA ShortestIsSimple ==
    ASSUME NEW g, NEW source, NEW target, NEW k \in Nat,
           \A j \in Nat : j < k => ~Steps(g, source, target, j),
           NEW w \in [0 .. k -> Entities(g)], w[0] = source, w[k] = target,
           \A i \in 1 .. k : GrainStep(g, w[i - 1], w[i])
    PROVE  \A i, j \in 0 .. k : i < j => w[i] # w[j]
  <1>1. SUFFICES ASSUME NEW i \in 0 .. k, NEW j \in 0 .. k, i < j, w[i] = w[j] PROVE FALSE
    OBVIOUS
  <1>2. PICK d \in Nat : d = j - i
    <2>1. j - i \in Nat
      BY <1>1
    <2>2. QED
      BY <2>1
  <1>3. d > 0 /\ k - d \in Nat /\ k - d < k /\ i <= k - d
    BY <1>1, <1>2
  <1> DEFINE v == [x \in 0 .. k - d |-> IF x <= i THEN w[x] ELSE w[x + d]]
  <1>4. v \in [0 .. k - d -> Entities(g)]
    BY <1>3
  <1>5. v[0] = source
    BY <1>3
  <1>6. v[k - d] = target
    <2>1. CASE k - d = i
      <3>1. k = j
        BY <1>2, <2>1
      <3>2. QED
        BY <1>1, <1>3, <2>1, <3>1
    <2>2. CASE k - d # i
      BY <1>3, <2>2
    <2>3. QED
      BY <2>1, <2>2
  <1>7. ASSUME NEW x \in 1 .. k - d PROVE GrainStep(g, v[x - 1], v[x])
    <2>1. x \in 0 .. k - d /\ x - 1 \in 0 .. k - d /\ x \in 1 .. k /\ x + d \in 1 .. k /\ (x + d) - 1 = (x - 1) + d
      BY <1>3
    <2>2. CASE x <= i
      BY <2>1, <2>2
    <2>3. CASE x > i + 1
      <3>1. v[x] = w[x + d] /\ v[x - 1] = w[(x - 1) + d]
        BY <2>1, <2>3
      <3>2. QED
        BY <2>1, <3>1
    <2>4. CASE x = i + 1
      <3>1. v[x] = w[x + d] /\ v[x - 1] = w[i]
        BY <2>1, <2>4
      <3>2. (x + d) - 1 = j
        BY <1>2, <2>4
      <3>3. QED
        BY <1>1, <2>1, <3>1, <3>2
    <2>5. QED
      BY <2>2, <2>3, <2>4
  <1> HIDE DEF v
  <1>8. Steps(g, source, target, k - d)
    BY <1>4, <1>5, <1>6, <1>7 DEF Steps
  <1>9. QED
    BY <1>3, <1>8

\* A step that keeps the grain is a hop that is no fan-out.
LEMMA StepIsHop ==
    ASSUME NEW g, NEW from, NEW to, GrainStep(g, from, to)
    PROVE  \E h \in Hops(g) : From(h) = from /\ To(h) = to /\ ~HopFansOut(h)
  BY FanOutLosesRows DEF GrainStep

\* A path in a search along the first n steps of a walk.
Along(g, source, w, n, p) ==
    /\ p \in Seq(Hops(g))
    /\ ~FansOut(p)
    /\ EndOf(source, p) = w[n]
    /\ Seen(source, p) \subseteq {w[i] : i \in 0 .. n}

\* What is within reach is found, by a route that keeps the grain.
LEMMA RoutesComplete ==
    ASSUME NEW g, NEW source, NEW max \in Nat,
           NEW target \in Near(g, source, max), source # target
    PROVE  \E p \in Paths(g, source, target, max) : ~FansOut(p)
  <1>1. PICK k \in 0 .. max : /\ Steps(g, source, target, k)
                              /\ \A j \in Nat : j < k => ~Steps(g, source, target, j)
    <2> DEFINE numbers == {k \in 0 .. max : Steps(g, source, target, k)}
    <2>1. numbers \in SUBSET Nat /\ numbers # {}
      BY DEF Near
    <2>2. PICK k \in numbers : \A j \in numbers : k <= j
      BY <2>1, LeastExists
    <2>3. ASSUME NEW j \in Nat, j < k PROVE ~Steps(g, source, target, j)
      BY <2>2, <2>3
    <2>4. QED
      BY <2>2, <2>3
  <1>2. PICK w \in [0 .. k -> Entities(g)] :
            w[0] = source /\ w[k] = target /\ \A i \in 1 .. k : GrainStep(g, w[i - 1], w[i])
    BY <1>1 DEF Steps
  <1>3. k \in Nat /\ \A i, j \in 0 .. k : i < j => w[i] # w[j]
    <2>1. k \in Nat
      OBVIOUS
    <2>2. QED
      BY <1>1, <1>2, <2>1, ShortestIsSimple
  <1>4. PICK paths : PathsInTurn(paths, g, source, target, max)
    BY PathsAre
  <1>5. /\ Paths(g, source, target, max) = {p \in paths[max] : Arrived(source, target, p)}
        /\ paths[0] = {<<>>}
        /\ \A n \in 1 .. max : paths[n] = Walked(g, source, target, paths[n - 1])
    BY <1>4 DEF PathsInTurn
  <1> DEFINE Follows == {n \in Nat : n <= k => \E p \in paths[n] : Along(g, source, w, n, p)}
  <1>6. 0 \in Follows
    <2>1. <<>> \in Seq(Hops(g)) /\ ~FansOut(<<>>) /\ EndOf(source, <<>>) = source
      BY DEF FansOut, EndOf
    <2>2. Seen(source, <<>>) = {source}
      BY DEF Seen
    <2>3. source \in {w[i] : i \in 0 .. 0}
      BY <1>2
    <2>4. Along(g, source, w, 0, <<>>)
      BY <1>2, <2>1, <2>2, <2>3 DEF Along
    <2>5. QED
      BY <1>5, <2>4
  <1>7. ASSUME NEW n \in Nat, n \in Follows PROVE n + 1 \in Follows
    <2>1. SUFFICES ASSUME n + 1 <= k PROVE \E p \in paths[n + 1] : Along(g, source, w, n + 1, p)
      OBVIOUS
    <2>2. /\ n + 1 \in 1 .. k /\ n + 1 \in 1 .. max /\ (n + 1) - 1 = n
          /\ n \in 0 .. k /\ n + 1 \in 0 .. k /\ k \in 0 .. k /\ n < k /\ n <= k
      BY <1>3, <2>1
    <2>3. PICK p \in paths[n] : Along(g, source, w, n, p)
      BY <1>7, <2>2
    <2>4. GrainStep(g, w[n], w[n + 1])
      BY <1>2, <2>2
    <2>5. PICK h \in Hops(g) : From(h) = w[n] /\ To(h) = w[n + 1] /\ ~HopFansOut(h)
      BY <2>4, StepIsHop
    <2>6. ~Arrived(source, target, p)
      BY <1>2, <1>3, <2>2, <2>3 DEF Along, Arrived
    <2>7. h \in Onward(g, source, p)
      <3>1. \A i \in 0 .. n : w[i] # w[n + 1]
        BY <1>3, <2>2
      <3>2. To(h) \notin Seen(source, p)
        BY <2>3, <2>5, <3>1 DEF Along
      <3>3. QED
        BY <2>3, <2>5, <3>2 DEF Onward, Along
    <2>8. Append(p, h) \in paths[n + 1]
      <3>1. paths[n + 1] = Walked(g, source, target, paths[(n + 1) - 1])
        BY <1>5, <2>2
      <3>2. paths[n + 1] = Walked(g, source, target, paths[n])
        BY ONLY <2>2, <3>1
      <3>3. p \in {x \in paths[n] : ~Arrived(source, target, x)}
        BY ONLY <2>3, <2>6
      <3>4. Append(p, h) \in Walked(g, source, target, paths[n])
        BY ONLY <2>7, <3>3 DEF Walked
      <3>5. QED
        BY ONLY <3>2, <3>4
    <2>9. Along(g, source, w, n + 1, Append(p, h))
      <3>1. p \in Seq(Hops(g)) /\ ~FansOut(p) /\ Seen(source, p) \subseteq {w[i] : i \in 0 .. n}
        BY <2>3 DEF Along
      <3>2. /\ Append(p, h) \in Seq(Hops(g)) /\ ~FansOut(Append(p, h))
            /\ Seen(source, Append(p, h)) = Seen(source, p) \union {To(h)}
        BY <2>5, <3>1, HopAdded
      <3>3. EndOf(source, Append(p, h)) = w[n + 1]
        BY <2>5, <3>1, HopEnds
      <3>4. {w[i] : i \in 0 .. n} \union {w[n + 1]} \subseteq {w[i] : i \in 0 .. n + 1}
        OBVIOUS
      <3>5. QED
        BY <2>5, <3>1, <3>2, <3>3, <3>4 DEF Along
    <2>10. QED
      BY <2>8, <2>9
  <1> HIDE DEF Follows
  <1>8. \A n \in Nat : n \in Follows
    BY <1>6, <1>7, InductionOnSet
  <1>9. PICK p \in paths[k] : Along(g, source, w, k, p)
    BY <1>3, <1>8 DEF Follows
  <1>10. Arrived(source, target, p)
    BY <1>2, <1>9 DEF Along, Arrived, EndOf
  <1> DEFINE Stays == {n \in Nat : k <= n /\ n <= max => p \in paths[n]}
  <1>11. 0 \in Stays
    <2>1. k <= 0 => k = 0
      OBVIOUS
    <2>2. QED
      BY <1>9, <2>1
  <1>12. ASSUME NEW n \in Nat, n \in Stays PROVE n + 1 \in Stays
    <2>1. SUFFICES ASSUME k <= n + 1, n + 1 <= max PROVE p \in paths[n + 1]
      OBVIOUS
    <2>2. n + 1 \in 1 .. max /\ (n + 1) - 1 = n /\ n <= max
      BY <2>1
    <2>3. CASE k = n + 1
      BY <1>9, <2>3
    <2>4. CASE k # n + 1
      <3>1. p \in paths[n]
        BY <1>12, <2>1, <2>2, <2>4
      <3>2. paths[n + 1] = Walked(g, source, target, paths[n])
        BY <1>5, <2>2
      <3>3. QED
        BY <1>10, <3>1, <3>2 DEF Walked
    <2>5. QED
      BY <2>3, <2>4
  <1> HIDE DEF Stays
  <1>13. \A n \in Nat : n \in Stays
    BY <1>11, <1>12, InductionOnSet
  <1>14. p \in paths[max]
    <2>1. k <= max
      OBVIOUS
    <2>2. QED
      BY <1>13, <2>1 DEF Stays
  <1>15. QED
    BY <1>5, <1>9, <1>10, <1>14 DEF Along

\* path() has one route or several for what is within reach, and for nothing else if all references have
\* columns.
LEMMA RouteOrRoutes ==
    ASSUME NEW g, WellFormed(g), NEW source \in Entities(g), NEW max \in Nat,
           NEW target, source # target
    PROVE  LET found == Route(g, source, target, {}, FALSE, max) \in {"path", "AmbiguousPathError"}
           IN  /\ target \in Near(g, source, max) => found
               /\ AllHaveColumns(Range(g.edges)) /\ found => target \in Near(g, source, max)
  <1> DEFINE candidates == Paths(g, source, target, max)
             safe == {p \in candidates : ~FansOut(p)}
  <1>1. Route(g, source, target, {}, FALSE, max) =
            CASE candidates = {} -> "RelationError"
              [] candidates # {} /\ safe = {} -> "FanOutError"
              [] Cardinality(safe) > 1 -> "AmbiguousPathError"
              [] Cardinality(safe) = 1 -> "path"
    <2>1. {p \in Paths(g, source, target, max) : {} \subseteq Labels(p)} = candidates
      OBVIOUS
    <2>2. {p \in candidates : FALSE \/ ~FansOut(p)} = safe
      OBVIOUS
    <2> HIDE DEF candidates, safe
    <2>3. QED
      BY <2>1, <2>2 DEF Route, candidates
  <1>2. IsFiniteSet(safe) /\ Cardinality(safe) \in Nat /\ (Cardinality(safe) = 0 <=> safe = {})
    <2>1. IsFiniteSet(candidates)
      BY RoutesSound
    <2>2. IsFiniteSet(safe)
      BY <2>1, FS_Subset
    <2>3. QED
      BY <2>2, FS_CardinalityType, FS_EmptySet
  <1>3. /\ target \in Near(g, source, max) => safe # {}
        /\ AllHaveColumns(Range(g.edges)) /\ safe # {} => target \in Near(g, source, max)
    BY RoutesSound, RoutesComplete
  <1>4. safe # {} => candidates # {}
    OBVIOUS
  <1> HIDE DEF candidates, safe
  <1>5. CASE safe = {}
    <2>1. ~(Cardinality(safe) > 1) /\ Cardinality(safe) # 1
      <3>1. Cardinality(safe) = 0
        BY <1>2, <1>5
      <3>2. QED
        BY <3>1
    <2>2. CASE candidates = {}
      <3>1. Route(g, source, target, {}, FALSE, max) = "RelationError"
        BY <1>1, <1>5, <2>1, <2>2, Zenon
      <3>2. QED
        BY <1>3, <1>5, <3>1
    <2>3. CASE candidates # {}
      <3>1. Route(g, source, target, {}, FALSE, max) = "FanOutError"
        BY <1>1, <1>5, <2>1, <2>3
      <3>2. QED
        BY <1>3, <1>5, <3>1
    <2>4. QED
      BY <2>2, <2>3
  <1>6. CASE safe # {}
    <2>1. Cardinality(safe) > 1 \/ Cardinality(safe) = 1
      BY <1>2, <1>6
    <2>2. Route(g, source, target, {}, FALSE, max) \in {"path", "AmbiguousPathError"}
      BY <1>1, <1>4, <1>6, <2>1
    <2>3. QED
      BY <1>3, <1>6, <2>2
  <1>7. QED
    BY <1>5, <1>6

\* reachable() and ambiguous() together.
LEMMA ReachableIsNear ==
    ASSUME NEW g, WellFormed(g), NEW source \in Entities(g), NEW max \in Nat
    PROVE  LET offered == Reachable(g, source, max) \union Ambiguous(g, source, max)
               near == Near(g, source, max) \ {source}
           IN  /\ near \subseteq offered
               /\ AllHaveColumns(Range(g.edges)) => offered \subseteq near
  <1> DEFINE HasRoute(t) == Route(g, source, t, {}, FALSE, max) \in {"path", "AmbiguousPathError"}
  <1>1. ASSUME NEW t \in Entities(g) \ {source}
        PROVE  /\ t \in Near(g, source, max) => HasRoute(t)
               /\ AllHaveColumns(Range(g.edges)) /\ HasRoute(t) => t \in Near(g, source, max)
    BY RouteOrRoutes
  <1>2. Near(g, source, max) \subseteq Entities(g)
    BY DEF Near
  <1>3. Reachable(g, source, max) \union Ambiguous(g, source, max) = {t \in Entities(g) \ {source} : HasRoute(t)}
    BY DEF Reachable, Ambiguous
  <1> HIDE DEF HasRoute
  <1>4. QED
    BY <1>1, <1>2, <1>3

-------------------------------------------------------------------------------
(* The theorems about graphs *)

\* The references that were read.
RefsRead == refs \in Seq(Refs)

\* They are a sequence of those there are.
LEMMA RefsAreRead == Spec => []RefsRead
  <1>1. Init => RefsRead
    BY DEF Init, RefsRead
  <1>2. RefsRead /\ [Next]_vars => RefsRead'
    <2>1. ASSUME RefsRead, NEW ref \in Refs, ReadReference(ref) PROVE RefsRead'
      BY <2>1 DEF RefsRead, ReadReference
    <2>2. ASSUME RefsRead, UNCHANGED refs PROVE RefsRead'
      BY <2>2 DEF RefsRead
    <2>3. ASSUME [Next]_vars PROVE UNCHANGED refs \/ \E ref \in Refs : ReadReference(ref)
      BY <2>3 DEF Next, ReadJoin, ReadRow, vars
    <2>4. QED
      BY <2>1, <2>2, <2>3
  <1>3. QED
    BY <1>1, <1>2, PTL DEF Spec

\* A graph that is accepted is well-formed.
LEMMA AcceptedGraph ==
    ASSUME RefsRead, GraphOK(Graph)
    PROVE  WellFormed(Graph)
  <1>1. Len(refs) \in Nat /\ DOMAIN refs = 1 .. Len(refs)
    BY DEF RefsRead
  <1>2. DOMAIN Graph.edges = DOMAIN refs
    BY DEF Graph, GraphOf
  <1>3. Graph.edges \in Surjection(DOMAIN refs, Range(Graph.edges))
    <2>1. Graph.edges = [i \in DOMAIN refs |-> EdgeOf(refs[i])]
      BY DEF Graph, GraphOf
    <2>2. QED
      BY <2>1 DEF Surjection, Range
  <1>4. IsFiniteSet(DOMAIN refs)
    BY <1>1, FS_Interval
  <1>5. IsFiniteSet(Range(Graph.edges))
    BY <1>3, <1>4, FS_Surjection
  <1>6. QED
    BY <1>5 DEF WellFormed, GraphOK, EdgesOK

\* Over any references, for any limit on the hops.
THEOREM SharedOut == Spec => []ReachableOrAmbiguous
  <1>1. RefsRead => ReachableOrAmbiguous
    <2>1. SUFFICES ASSUME RefsRead, GraphOK(Graph), NEW source \in Entities(Graph), NEW max \in 1 .. MaxHops
                   PROVE  LET offered == Reachable(Graph, source, max) \union Ambiguous(Graph, source, max)
                              near == Near(Graph, source, max) \ {source}
                          IN  /\ near \subseteq offered
                              /\ AllHaveColumns(Range(Graph.edges)) => offered \subseteq near
      BY DEF ReachableOrAmbiguous
    <2>2. max \in Nat
      OBVIOUS
    <2>3. PICK g : g = Graph
      OBVIOUS
    <2>4. WellFormed(g) /\ source \in Entities(g)
      BY <2>1, <2>3, AcceptedGraph
    <2>5. QED
      BY <2>2, <2>3, <2>4, ReachableIsNear
  <1>2. QED
    BY <1>1, RefsAreRead, PTL

\* Over any references; a route may have any number of hops.
THEOREM FanOutIsExact == Spec => []GrainExact
  <1>1. RefsRead => GrainExact
    <2>1. SUFFICES ASSUME RefsRead, GraphOK(Graph), NEW source \in Entities(Graph), NEW target \in Entities(Graph),
                          NEW path \in Paths(Graph, source, target, MaxHops),
                          AllHaveColumns({path[i].edge : i \in DOMAIN path})
                   PROVE  FansOut(path) <=> Multiplies(path)
      BY DEF GrainExact
    <2>2. PICK g : g = Graph
      OBVIOUS
    <2>3. WellFormed(g) /\ source \in Entities(g) /\ path \in Paths(g, source, target, MaxHops)
      BY <2>1, <2>2, AcceptedGraph
    <2>4. path \in Seq(Hops(g))
      BY <2>3, BoundsAssumption, RoutesSound
    <2>5. Len(path) \in Nat /\ DOMAIN path = 1 .. Len(path) /\ \A i \in DOMAIN path : path[i] \in Hops(g)
      BY <2>4
    <2>6. Joinable(path)
      BY <2>1, <2>5 DEF AllHaveColumns, Joinable, Hops
    <2>7. QED
      BY <2>6, FanOutIsMultiplication
  <1>2. QED
    BY <1>1, RefsAreRead, PTL

-------------------------------------------------------------------------------
(* The search of _check_acyclic *)

Colourings(g) == [Entities(g) -> Colours]

\* No cycle was met so far; one was, which is the end of the search.
Plain(g) == [Entities(g) -> {"new", "open", "done"}]
Stuck(g) == [n \in Entities(g) |-> "cycle"]

New(colour) == {n \in DOMAIN colour : colour[n] = "new"}

\* The edges are a sequence, between entities.
Edged(g) ==
    /\ Len(g.edges) \in Nat /\ DOMAIN g.edges = 1 .. Len(g.edges)
    /\ \A i \in DOMAIN g.edges : g.edges[i].child \in Entities(g) /\ g.edges[i].parent \in Entities(g)

\* Along every edge rank grows.
Climbs(g, rank) == \A i \in DOMAIN g.edges : rank[g.edges[i].child] < rank[g.edges[i].parent]

\* Below top, rank orders what is done; the parents of what is done are done.
Sorts(g, colour, rank, top) ==
    \A n \in Entities(g) : colour[n] = "done" =>
        /\ rank[n] < top
        /\ \A i \in DOMAIN g.edges : g.edges[i].child = n =>
            colour[g.edges[i].parent] = "done" /\ rank[g.edges[i].parent] < rank[n]

Sorted(g, colour) == \E rank \in [Entities(g) -> Nat], top \in Nat : Sorts(g, colour, rank, top)

\* What a search may do that comes to `after` from `before`, where below are the nodes that were open.
Advances(g, before, after) ==
    /\ \A n \in Entities(g) : before[n] = "done" => after[n] = "done"
    /\ \A n \in Entities(g) : before[n] = "open" <=> after[n] = "open"

\* What a visit of node does where it may nest n calls: it meets a cycle only if no rank climbs from what
\* is open, opens nothing for good, and, if there are fewer new nodes than calls, finishes node in order.
EndsWell(g, n, node, colour, after) ==
    /\ after \in Plain(g) \union {Stuck(g)}
    /\ \A rank \in [Entities(g) -> Nat] :
        Climbs(g, rank) /\ (\A m \in Entities(g) : colour[m] = "open" => rank[m] < rank[node])
        => after # Stuck(g)
    /\ after # Stuck(g) => Advances(g, colour, after)
    /\ after # Stuck(g) /\ Sorted(g, colour) /\ Cardinality(New(colour)) < n
       => Sorted(g, after) /\ after[node] = "done"

VisitsWell(g, n, visit) ==
    /\ visit \in [Entities(g) -> [Colourings(g) -> Colourings(g)]]
    /\ \A node \in Entities(g) : visit[node][Stuck(g)] = Stuck(g)
    /\ \A node \in Entities(g), colour \in Plain(g) : EndsWell(g, n, node, colour, visit[node][colour])

\* Colours of either kind are colours; where there is an entity, no colouring is of both.
LEMMA Kinds ==
    ASSUME NEW g
    PROVE  /\ Plain(g) \subseteq Colourings(g) /\ Stuck(g) \in Colourings(g)
           /\ Entities(g) # {} => Stuck(g) \notin Plain(g)
  BY DEF Plain, Stuck, Colourings, Colours

\* One turn of the loop over the references of node.
Turn(g, inner, node, i, colour) ==
    IF g.edges[i].child = node THEN inner[g.edges[i].parent][colour] ELSE colour

\* The loop, as the colours after each of its turns.
Turns(g, inner, node, colour, after) ==
    after = [i \in 0 .. Len(g.edges) |->
                IF i = 0 THEN [colour EXCEPT ![node] = "open"]
                ELSE IF g.edges[i].child = node THEN inner[g.edges[i].parent][after[i - 1]]
                                                ELSE after[i - 1]]

\* What the function of the loop is, said of each turn.
LEMMA TurnsAre ==
    ASSUME NEW g, NEW inner, NEW node, NEW colour, NEW after, Len(g.edges) \in Nat,
           Turns(g, inner, node, colour, after)
    PROVE  /\ after = [i \in 0 .. Len(g.edges) |-> after[i]]
           /\ after[0] = [colour EXCEPT ![node] = "open"]
           /\ \A i \in 1 .. Len(g.edges) : after[i] = Turn(g, inner, node, i, after[i - 1])
  <1> DEFINE start == [colour EXCEPT ![node] = "open"]
             Body(i) == IF i = 0 THEN start ELSE Turn(g, inner, node, i, after[i - 1])
  <1>1. after = [i \in 0 .. Len(g.edges) |-> Body(i)]
    BY DEF Turns, Turn
  <1>2. /\ after = [i \in 0 .. Len(g.edges) |-> after[i]]
        /\ \A i \in 0 .. Len(g.edges) : after[i] = Body(i)
    <2> HIDE DEF Body
    <2>1. QED
      BY <1>1
  <1>3. /\ 0 \in 0 .. Len(g.edges) /\ Body(0) = start
        /\ \A i \in 1 .. Len(g.edges) :
            i \in 0 .. Len(g.edges) /\ Body(i) = Turn(g, inner, node, i, after[i - 1])
    OBVIOUS
  <1> HIDE DEF Body
  <1>4. QED
    BY <1>2, <1>3

\* And the other way.
LEMMA TurnsMade ==
    ASSUME NEW g, NEW inner, NEW node, NEW colour, NEW after, Len(g.edges) \in Nat,
           after = [i \in 0 .. Len(g.edges) |-> after[i]],
           after[0] = [colour EXCEPT ![node] = "open"],
           \A i \in 1 .. Len(g.edges) : after[i] = Turn(g, inner, node, i, after[i - 1])
    PROVE  Turns(g, inner, node, colour, after)
  <1> DEFINE start == [colour EXCEPT ![node] = "open"]
             Body(i) == IF i = 0 THEN start ELSE Turn(g, inner, node, i, after[i - 1])
  <1>1. \A i \in 0 .. Len(g.edges) : after[i] = Body(i)
    <2>1. \A i \in 0 .. Len(g.edges) : i = 0 \/ i \in 1 .. Len(g.edges)
      OBVIOUS
    <2>2. QED
      BY <2>1
  <1>2. after = [i \in 0 .. Len(g.edges) |-> Body(i)]
    <2> HIDE DEF Body
    <2>1. [i \in 0 .. Len(g.edges) |-> after[i]] = [i \in 0 .. Len(g.edges) |-> Body(i)]
      BY <1>1
    <2>2. QED
      BY <2>1
  <1>3. QED
    BY <1>2 DEF Turns, Turn

\* The loop over the references of node comes to its end, with these colours after each turn.
LoopOf(g, inner, node, colour, after) ==
    /\ after \in [0 .. Len(g.edges) -> Colourings(g)]
    /\ after[0] = [colour EXCEPT ![node] = "open"]
    /\ \A i \in 1 .. Len(g.edges) : after[i] = Turn(g, inner, node, i, after[i - 1])
    /\ ParentsVisited(g, inner, node, colour) = after[Len(g.edges)]

\* It always does.
LEMMA LoopEnds ==
    ASSUME NEW g, Edged(g), NEW inner, inner \in [Entities(g) -> [Colourings(g) -> Colourings(g)]],
           NEW node, node \in Entities(g), NEW colour, colour \in Colourings(g)
    PROVE  \E after : LoopOf(g, inner, node, colour, after)
  <1>1. PICK C : C = Colourings(g)
    OBVIOUS
  <1>2. PICK start : start = [colour EXCEPT ![node] = "open"]
    OBVIOUS
  <1>3. start \in C
    BY <1>1, <1>2 DEF Colourings, Colours
  <1>4. PICK len \in Nat : len = Len(g.edges) /\ DOMAIN g.edges = 1 .. len
    BY DEF Edged
  <1>5. ASSUME NEW i \in 1 .. len, NEW c \in C PROVE Turn(g, inner, node, i, c) \in C
    BY <1>1, <1>4, <1>5 DEF Edged, Turn
  <1>6. PICK step : step = [i \in 1 .. len |-> [c \in C |-> Turn(g, inner, node, i, c)]]
    OBVIOUS
  <1>7. step \in [1 .. len -> [C -> C]]
    BY ONLY <1>5, <1>6
  <1>8. PICK f \in [0 .. len -> C] : f[0] = start /\ \A n \in 1 .. len : f[n] = step[n][f[n - 1]]
    BY ONLY <1>3, <1>7, len \in Nat, IterationExists
  <1>9. ASSUME NEW n \in 1 .. len PROVE f[n] = Turn(g, inner, node, n, f[n - 1])
    <2>1. n - 1 \in 0 .. len
      OBVIOUS
    <2>2. f[n - 1] \in C
      BY ONLY <2>1, f \in [0 .. len -> C]
    <2>3. step[n][f[n - 1]] = Turn(g, inner, node, n, f[n - 1])
      BY ONLY <1>6, <1>9, <2>2
    <2>4. QED
      BY <1>8, <2>3
  <1>10. Turns(g, inner, node, colour, f)
    <2>1. f = [i \in 0 .. len |-> f[i]]
      BY ONLY f \in [0 .. len -> C]
    <2>2. QED
      BY ONLY <1>2, <1>4, <1>8, <1>9, <2>1, len \in Nat, TurnsMade
  <1>11. PICK h : /\ Turns(g, inner, node, colour, h)
                  /\ ParentsVisited(g, inner, node, colour) = h[Len(g.edges)]
    <2> DEFINE all == CHOOSE x : Turns(g, inner, node, colour, x)
    <2>1. Turns(g, inner, node, colour, all)
      BY <1>10, Zenon
    <2>2. ParentsVisited(g, inner, node, colour) = all[Len(g.edges)]
      BY Zenon DEF ParentsVisited, Turns
    <2>3. QED
      BY <2>1, <2>2, Zenon
  <1>13. /\ h = [i \in 0 .. len |-> h[i]]
         /\ h[0] = start
         /\ \A i \in 1 .. len : h[i] = Turn(g, inner, node, i, h[i - 1])
    <2>1. Len(g.edges) \in Nat /\ Turns(g, inner, node, colour, h)
      BY <1>4, <1>11
    <2>2. /\ h = [i \in 0 .. Len(g.edges) |-> h[i]]
          /\ h[0] = [colour EXCEPT ![node] = "open"]
          /\ \A i \in 1 .. Len(g.edges) : h[i] = Turn(g, inner, node, i, h[i - 1])
      BY ONLY <2>1, TurnsAre
    <2>3. QED
      BY ONLY <1>2, <1>4, <2>2, Zenon
  <1> DEFINE Typed == {n \in Nat : n <= len => h[n] \in C}
  <1>14. 0 \in Typed
    BY <1>3, <1>13
  <1>15. ASSUME NEW n \in Nat, n \in Typed PROVE n + 1 \in Typed
    <2>1. SUFFICES ASSUME n + 1 <= len PROVE h[n + 1] \in C
      OBVIOUS
    <2>2. n + 1 \in 1 .. len /\ (n + 1) - 1 = n /\ h[n] \in C
      BY <1>15, <2>1
    <2>3. QED
      BY <1>5, <1>13, <2>2
  <1> HIDE DEF Typed
  <1>16. \A n \in Nat : n \in Typed
    BY <1>14, <1>15, InductionOnSet
  <1>17. \A n \in 0 .. len : h[n] \in C
    BY <1>16 DEF Typed
  <1>18. h \in [0 .. len -> C]
    BY ONLY <1>13, <1>17
  <1>19. QED
    BY <1>1, <1>2, <1>4, <1>11, <1>13, <1>18 DEF LoopOf

\* What opening a node leaves.
LEMMA NodeOpened ==
    ASSUME NEW g, NEW node \in Entities(g), NEW colour \in Plain(g), colour[node] = "new",
           NEW start, start = [colour EXCEPT ![node] = "open"]
    PROVE  /\ start \in Plain(g)
           /\ \A n \in Entities(g) : n # node => start[n] = colour[n]
           /\ start[node] = "open"
           /\ Sorted(g, colour) => Sorted(g, start)
  <1>1. /\ start \in Plain(g)
        /\ \A n \in Entities(g) : n # node => start[n] = colour[n]
        /\ start[node] = "open"
    BY DEF Plain
  <1>2. ASSUME NEW rank \in [Entities(g) -> Nat], NEW top \in Nat, Sorts(g, colour, rank, top)
        PROVE  Sorts(g, start, rank, top)
    <2>1. \A n \in Entities(g) : start[n] = "done" <=> colour[n] = "done"
      BY <1>1
    <2>2. \A n : n \notin Entities(g) => start[n] = colour[n]
      BY DEF Plain
    <2>3. QED
      BY <1>1, <1>2, <2>1, <2>2 DEF Sorts
  <1>3. QED
    BY <1>1, <1>2 DEF Sorted

\* What visit does, colour by colour of the node it is called with.
LEMMA VisitedIs ==
    ASSUME NEW g, Edged(g), NEW inner, inner \in [Entities(g) -> [Colourings(g) -> Colourings(g)]]
    PROVE  /\ Visited(g, inner) \in [Entities(g) -> [Colourings(g) -> Colourings(g)]]
           /\ \A node \in Entities(g), colour \in Colourings(g) :
                LET after == Visited(g, inner)[node][colour]
                    loop == ParentsVisited(g, inner, node, colour)
                IN  /\ colour[node] \in {"done", "cycle"} => after = colour
                    /\ colour[node] = "open" => after = Stuck(g)
                    /\ colour[node] = "new" =>
                        after = IF loop[node] = "cycle" THEN loop ELSE Left(loop, node)
  <1> DEFINE Result(node, colour) ==
                CASE colour[node] \in {"done", "cycle"} -> colour
                  [] colour[node] = "open" -> Stuck(g)
                  [] colour[node] = "new" ->
                        LET after == ParentsVisited(g, inner, node, colour)
                        IN  IF after[node] = "cycle" THEN after ELSE Left(after, node)
  <1>1. Visited(g, inner) = [node \in Entities(g) |-> [colour \in Colourings(g) |-> Result(node, colour)]]
    BY DEF Visited, Colourings, Stuck
  <1>2. ASSUME NEW node \in Entities(g), NEW colour \in Colourings(g)
        PROVE  /\ colour[node] \in {"done", "cycle"} => Result(node, colour) = colour
               /\ colour[node] = "open" => Result(node, colour) = Stuck(g)
               /\ colour[node] = "new" =>
                    Result(node, colour) = IF ParentsVisited(g, inner, node, colour)[node] = "cycle"
                                           THEN ParentsVisited(g, inner, node, colour)
                                           ELSE Left(ParentsVisited(g, inner, node, colour), node)
               /\ colour[node] \in {"done", "cycle", "open", "new"}
    BY DEF Colourings, Colours
  <1>3. ASSUME NEW node \in Entities(g), NEW colour \in Colourings(g)
        PROVE  Result(node, colour) \in Colourings(g)
    <2> HIDE DEF Result
    <2>1. Len(g.edges) \in Nat
      BY DEF Edged
    <2>2. ParentsVisited(g, inner, node, colour) \in Colourings(g)
      <3>1. PICK after : LoopOf(g, inner, node, colour, after)
        BY LoopEnds
      <3>2. Len(g.edges) \in 0 .. Len(g.edges)
        BY <2>1
      <3>3. QED
        BY <3>1, <3>2 DEF LoopOf
    <2>3. Left(ParentsVisited(g, inner, node, colour), node) \in Colourings(g)
      BY <2>2 DEF Left, Colourings, Colours
    <2>4. QED
      BY <1>2, <2>2, <2>3, Kinds
  <1> HIDE DEF Result
  <1>4. QED
    BY <1>1, <1>2, <1>3

\* What holds after k turns of the loop over the references of node, with the colours c.
LoopsWell(g, n, node, colour, k, c) ==
    /\ c \in Plain(g) \union {Stuck(g)}
    /\ \A rank \in [Entities(g) -> Nat] :
        Climbs(g, rank) /\ (\A m \in Entities(g) : colour[m] = "open" => rank[m] < rank[node])
        => c # Stuck(g)
    /\ c # Stuck(g) =>
        \A m \in Entities(g) : /\ colour[m] = "done" => c[m] = "done"
                               /\ c[m] = "open" <=> colour[m] = "open" \/ m = node
    /\ c # Stuck(g) /\ Sorted(g, colour) /\ Cardinality(New(colour)) < n + 1 =>
        /\ Sorted(g, c)
        /\ \A j \in 1 .. k : g.edges[j].child = node => c[g.edges[j].parent] = "done"

\* The nodes that are new after some turns are fewer than before the loop.
LEMMA FewerNew ==
    ASSUME NEW g, IsFiniteSet(Entities(g)), NEW node, node \in Entities(g),
           NEW before, before \in Plain(g), before[node] = "new", NEW after, after \in Plain(g),
           \A m \in Entities(g) : /\ before[m] = "done" => after[m] = "done"
                                  /\ after[m] = "open" <=> before[m] = "open" \/ m = node,
           NEW n, n \in Nat, Cardinality(New(before)) < n + 1
    PROVE  Cardinality(New(after)) < n
  <1>1. /\ New(before) \subseteq Entities(g) /\ node \in New(before)
        /\ New(after) \subseteq New(before) \ {node}
    BY DEF New, Plain
  <1>2. IsFiniteSet(New(before))
    BY <1>1, FS_Subset
  <1>3. /\ IsFiniteSet(New(before) \ {node})
        /\ Cardinality(New(before) \ {node}) = Cardinality(New(before)) - 1
    BY <1>1, <1>2, FS_RemoveElement
  <1>4. IsFiniteSet(New(after)) /\ Cardinality(New(after)) <= Cardinality(New(before) \ {node})
    BY <1>1, <1>3, FS_Subset
  <1>5. Cardinality(New(before)) \in Nat /\ Cardinality(New(after)) \in Nat
    BY <1>2, <1>4, FS_CardinalityType
  <1>6. QED
    BY ONLY <1>3, <1>4, <1>5, n \in Nat, Cardinality(New(before)) < n + 1

\* Each turn keeps it.
LEMMA TurnWell ==
    ASSUME NEW g, Edged(g), IsFiniteSet(Entities(g)), NEW n, n \in Nat,
           NEW inner, VisitsWell(g, n, inner),
           NEW node, node \in Entities(g), NEW colour, colour \in Plain(g), colour[node] = "new",
           NEW k, k \in Nat, k + 1 \in DOMAIN g.edges,
           NEW c, LoopsWell(g, n, node, colour, k, c)
    PROVE  LoopsWell(g, n, node, colour, k + 1, Turn(g, inner, node, k + 1, c))
  <1>1. \A j \in 1 .. k + 1 : j \in 1 .. k \/ j = k + 1
    OBVIOUS
  <1>2. CASE g.edges[k + 1].child # node
    <2>1. Turn(g, inner, node, k + 1, c) = c
      BY <1>2 DEF Turn
    <2>2. ASSUME \A j \in 1 .. k : g.edges[j].child = node => c[g.edges[j].parent] = "done"
          PROVE  \A j \in 1 .. k + 1 : g.edges[j].child = node => c[g.edges[j].parent] = "done"
      BY <1>1, <1>2, <2>2
    <2>3. QED
      BY <2>1, <2>2 DEF LoopsWell
  <1>3. CASE g.edges[k + 1].child = node
    <2>1. PICK p : p = g.edges[k + 1].parent
      OBVIOUS
    <2>2. PICK d : d = Turn(g, inner, node, k + 1, c)
      OBVIOUS
    <2>3. p \in Entities(g) /\ d = inner[p][c]
      BY <1>3, <2>1, <2>2 DEF Edged, Turn
    <2>4. CASE c = Stuck(g)
      <3>1. d = Stuck(g)
        BY <2>3, <2>4 DEF VisitsWell
      <3>2. QED
        BY <2>2, <2>4, <3>1 DEF LoopsWell
    <2>5. CASE c # Stuck(g)
      <3>1. c \in Plain(g)
        BY <2>5 DEF LoopsWell
      <3>2. /\ d \in Plain(g) \union {Stuck(g)}
            /\ \A rank \in [Entities(g) -> Nat] :
                Climbs(g, rank) /\ (\A m \in Entities(g) : c[m] = "open" => rank[m] < rank[p])
                => d # Stuck(g)
            /\ d # Stuck(g) => Advances(g, c, d)
            /\ d # Stuck(g) /\ Sorted(g, c) /\ Cardinality(New(c)) < n => Sorted(g, d) /\ d[p] = "done"
        BY <2>3, <3>1 DEF VisitsWell, EndsWell
      <3>3. \A m \in Entities(g) : /\ colour[m] = "done" => c[m] = "done"
                                   /\ c[m] = "open" <=> colour[m] = "open" \/ m = node
        BY <2>5 DEF LoopsWell
      <3>4. ASSUME NEW rank \in [Entities(g) -> Nat], Climbs(g, rank),
                   \A m \in Entities(g) : colour[m] = "open" => rank[m] < rank[node]
            PROVE  d # Stuck(g)
        <4>1. rank[node] < rank[p]
          BY <1>3, <2>1, <3>4 DEF Climbs
        <4>2. rank[node] \in Nat /\ rank[p] \in Nat /\ \A m \in Entities(g) : rank[m] \in Nat
          BY <2>3
        <4>3. \A m \in Entities(g) : c[m] = "open" => rank[m] < rank[p]
          BY <3>3, <3>4, <4>1, <4>2
        <4>4. QED
          BY <3>2, <3>4, <4>3
      <3>5. ASSUME d # Stuck(g)
            PROVE  \A m \in Entities(g) : /\ colour[m] = "done" => d[m] = "done"
                                          /\ d[m] = "open" <=> colour[m] = "open" \/ m = node
        BY <3>2, <3>3, <3>5 DEF Advances
      <3>6. ASSUME d # Stuck(g), Sorted(g, colour), Cardinality(New(colour)) < n + 1
            PROVE  /\ Sorted(g, d)
                   /\ \A j \in 1 .. k + 1 : g.edges[j].child = node => d[g.edges[j].parent] = "done"
        <4>1. /\ Sorted(g, c)
              /\ \A j \in 1 .. k : g.edges[j].child = node => c[g.edges[j].parent] = "done"
          BY <2>5, <3>6 DEF LoopsWell
        <4>2. Cardinality(New(c)) < n
          BY <3>1, <3>3, <3>6, FewerNew
        <4>3. Sorted(g, d) /\ d[p] = "done" /\ Advances(g, c, d)
          BY <3>2, <3>6, <4>1, <4>2
        <4>4. ASSUME NEW j \in 1 .. k + 1, g.edges[j].child = node PROVE d[g.edges[j].parent] = "done"
          <5>1. CASE j = k + 1
            BY <2>1, <4>3, <5>1
          <5>2. CASE j \in 1 .. k
            <6>1. j \in DOMAIN g.edges
              BY <4>4 DEF Edged
            <6>2. g.edges[j].parent \in Entities(g)
              BY <6>1 DEF Edged
            <6>3. QED
              BY <4>1, <4>3, <4>4, <5>2, <6>2 DEF Advances
          <5>3. QED
            BY <1>1, <5>1, <5>2
        <4>5. QED
          BY <4>3, <4>4
      <3>7. QED
        BY <2>2, <3>2, <3>4, <3>5, <3>6 DEF LoopsWell
    <2>6. QED
      BY <2>4, <2>5
  <1>4. QED
    BY <1>2, <1>3

\* And it holds when the loop has ended.
LEMMA LoopWell ==
    ASSUME NEW g, Edged(g), IsFiniteSet(Entities(g)), NEW n, n \in Nat,
           NEW inner, VisitsWell(g, n, inner),
           NEW node, node \in Entities(g), NEW colour, colour \in Plain(g), colour[node] = "new"
    PROVE  LoopsWell(g, n, node, colour, Len(g.edges), ParentsVisited(g, inner, node, colour))
  <1>1. PICK after : LoopOf(g, inner, node, colour, after)
    <2>1. inner \in [Entities(g) -> [Colourings(g) -> Colourings(g)]]
      BY DEF VisitsWell
    <2>2. colour \in Colourings(g)
      BY Kinds
    <2>3. QED
      BY <2>1, <2>2, LoopEnds
  <1>2. Len(g.edges) \in Nat /\ DOMAIN g.edges = 1 .. Len(g.edges)
    BY DEF Edged
  <1>3. LoopsWell(g, n, node, colour, 0, after[0])
    <2>1. after[0] = [colour EXCEPT ![node] = "open"]
      BY <1>1 DEF LoopOf
    <2>2. /\ after[0] \in Plain(g)
          /\ \A m \in Entities(g) : m # node => after[0][m] = colour[m]
          /\ after[0][node] = "open"
          /\ Sorted(g, colour) => Sorted(g, after[0])
      BY <2>1, NodeOpened
    <2>3. after[0] # Stuck(g)
      BY <2>2, Kinds
    <2>4. \A m \in Entities(g) : /\ colour[m] = "done" => after[0][m] = "done"
                                 /\ after[0][m] = "open" <=> colour[m] = "open" \/ m = node
      BY <2>2
    <2>5. 1 .. 0 = {}
      OBVIOUS
    <2>6. QED
      BY <2>2, <2>3, <2>4, <2>5 DEF LoopsWell
  <1> DEFINE Looped == {k \in Nat : k <= Len(g.edges) => LoopsWell(g, n, node, colour, k, after[k])}
  <1>4. 0 \in Looped
    BY <1>3
  <1>5. ASSUME NEW k \in Nat, k \in Looped PROVE k + 1 \in Looped
    <2>1. SUFFICES ASSUME k + 1 <= Len(g.edges)
                   PROVE  LoopsWell(g, n, node, colour, k + 1, after[k + 1])
      OBVIOUS
    <2>2. k + 1 \in 1 .. Len(g.edges) /\ (k + 1) - 1 = k /\ k <= Len(g.edges)
      BY <1>2, <2>1
    <2>3. after[k + 1] = Turn(g, inner, node, k + 1, after[k])
      BY <1>1, <2>2 DEF LoopOf
    <2>4. LoopsWell(g, n, node, colour, k, after[k])
      BY <1>5, <2>2
    <2>5. QED
      BY <1>2, <2>2, <2>3, <2>4, TurnWell
  <1> HIDE DEF Looped
  <1>6. \A k \in Nat : k \in Looped
    BY <1>4, <1>5, InductionOnSet
  <1>7. LoopsWell(g, n, node, colour, Len(g.edges), after[Len(g.edges)])
    BY <1>2, <1>6 DEF Looped
  <1>8. QED
    BY <1>1, <1>7 DEF LoopOf

\* What leaving a node leaves.
LEMMA NodeLeft ==
    ASSUME NEW g, Edged(g), NEW node, node \in Entities(g),
           NEW colour, colour \in Plain(g), colour[node] = "open", NEW left, left = Left(colour, node)
    PROVE  /\ left \in Plain(g)
           /\ \A m \in Entities(g) : m # node => left[m] = colour[m]
           /\ left[node] = "done"
           /\ Sorted(g, colour)
              /\ (\A j \in DOMAIN g.edges : g.edges[j].child = node => colour[g.edges[j].parent] = "done")
              => Sorted(g, left)
  <1>1. /\ left \in Plain(g)
        /\ \A m \in Entities(g) : m # node => left[m] = colour[m]
        /\ left[node] = "done"
    BY DEF Plain, Left
  <1>2. ASSUME NEW rank \in [Entities(g) -> Nat], NEW top \in Nat, Sorts(g, colour, rank, top),
               \A j \in DOMAIN g.edges : g.edges[j].child = node => colour[g.edges[j].parent] = "done"
        PROVE  Sorted(g, left)
    <2>1. PICK after : after = [rank EXCEPT ![node] = top]
      OBVIOUS
    <2>2. /\ after \in [Entities(g) -> Nat] /\ after[node] = top
          /\ \A m \in Entities(g) : m # node => after[m] = rank[m]
      BY <2>1
    <2>3. ASSUME NEW m \in Entities(g), colour[m] = "done"
          PROVE  /\ m # node /\ left[m] = "done" /\ after[m] = rank[m]
                 /\ rank[m] \in Nat /\ rank[m] < top
      BY <1>1, <1>2, <2>2, <2>3 DEF Sorts
    <2>4. ASSUME NEW m \in Entities(g), left[m] = "done"
          PROVE  /\ after[m] < top + 1
                 /\ \A j \in DOMAIN g.edges : g.edges[j].child = m =>
                     left[g.edges[j].parent] = "done" /\ after[g.edges[j].parent] < after[m]
      <3>1. CASE m = node
        <4>1. after[m] < top + 1
          BY <2>2, <3>1
        <4>2. ASSUME NEW j \in DOMAIN g.edges, g.edges[j].child = m
              PROVE  left[g.edges[j].parent] = "done" /\ after[g.edges[j].parent] < after[m]
          <5>1. g.edges[j].parent \in Entities(g) /\ colour[g.edges[j].parent] = "done"
            BY <1>2, <3>1, <4>2 DEF Edged
          <5>2. QED
            BY <2>2, <2>3, <3>1, <5>1
        <4>3. QED
          BY <4>1, <4>2
      <3>2. CASE m # node
        <4>1. colour[m] = "done"
          BY <1>1, <2>4, <3>2
        <4>2. after[m] < top + 1
          BY <2>3, <4>1
        <4>3. ASSUME NEW j \in DOMAIN g.edges, g.edges[j].child = m
              PROVE  left[g.edges[j].parent] = "done" /\ after[g.edges[j].parent] < after[m]
          <5>1. /\ g.edges[j].parent \in Entities(g) /\ colour[g.edges[j].parent] = "done"
                /\ rank[g.edges[j].parent] < rank[m]
            BY <1>2, <4>1, <4>3 DEF Edged, Sorts
          <5>2. QED
            BY <2>3, <4>1, <5>1
        <4>4. QED
          BY <4>2, <4>3
      <3>3. QED
        BY <3>1, <3>2
    <2>5. Sorts(g, left, after, top + 1)
      BY <2>4 DEF Sorts
    <2>6. top + 1 \in Nat
      OBVIOUS
    <2>7. QED
      BY <2>2, <2>5, <2>6 DEF Sorted
  <1>3. QED
    BY <1>1, <1>2 DEF Sorted

\* One more call around what does well does well.
LEMMA VisitedWell ==
    ASSUME NEW g, Edged(g), IsFiniteSet(Entities(g)), NEW n, n \in Nat, NEW inner, VisitsWell(g, n, inner)
    PROVE  VisitsWell(g, n + 1, Visited(g, inner))
  <1>1. inner \in [Entities(g) -> [Colourings(g) -> Colourings(g)]]
    BY DEF VisitsWell
  <1>2. PICK visit : visit = Visited(g, inner)
    OBVIOUS
  <1>3. visit \in [Entities(g) -> [Colourings(g) -> Colourings(g)]]
    BY <1>1, <1>2, VisitedIs
  <1>4. ASSUME NEW node \in Entities(g), NEW colour \in Colourings(g)
        PROVE  /\ colour[node] \in {"done", "cycle"} => visit[node][colour] = colour
               /\ colour[node] = "open" => visit[node][colour] = Stuck(g)
               /\ colour[node] = "new" =>
                    visit[node][colour] = IF ParentsVisited(g, inner, node, colour)[node] = "cycle"
                                          THEN ParentsVisited(g, inner, node, colour)
                                          ELSE Left(ParentsVisited(g, inner, node, colour), node)
    BY <1>1, <1>2, VisitedIs
  <1>5. ASSUME NEW node \in Entities(g) PROVE visit[node][Stuck(g)] = Stuck(g)
    <2>1. Stuck(g)[node] = "cycle" /\ Stuck(g) \in Colourings(g)
      BY Kinds DEF Stuck
    <2>2. QED
      BY <1>4, <2>1
  <1>6. ASSUME NEW node \in Entities(g), NEW colour \in Plain(g)
        PROVE  EndsWell(g, n + 1, node, colour, visit[node][colour])
    <2>1. colour \in Colourings(g) /\ colour[node] \in {"new", "open", "done"} /\ Stuck(g) \notin Plain(g)
      BY Kinds DEF Plain
    <2>2. CASE colour[node] = "done"
      <3>1. visit[node][colour] = colour
        BY <1>4, <2>1, <2>2
      <3>2. QED
        BY <2>1, <2>2, <3>1 DEF EndsWell, Advances
    <2>3. CASE colour[node] = "open"
      <3>1. visit[node][colour] = Stuck(g)
        BY <1>4, <2>1, <2>3
      <3>2. ASSUME NEW rank \in [Entities(g) -> Nat],
                   \A m \in Entities(g) : colour[m] = "open" => rank[m] < rank[node]
            PROVE  FALSE
        <4>1. rank[node] < rank[node] /\ rank[node] \in Nat
          BY <2>3, <3>2
        <4>2. QED
          BY <4>1
      <3>3. QED
        BY <3>1, <3>2 DEF EndsWell
    <2>4. CASE colour[node] = "new"
      <3>1. PICK c : c = ParentsVisited(g, inner, node, colour)
        OBVIOUS
      <3>2. visit[node][colour] = IF c[node] = "cycle" THEN c ELSE Left(c, node)
        BY <1>4, <2>1, <2>4, <3>1
      <3>3. LoopsWell(g, n, node, colour, Len(g.edges), c)
        BY <2>4, <3>1, LoopWell
      <3>4. CASE c = Stuck(g)
        <4>1. c[node] = "cycle"
          BY <3>4 DEF Stuck
        <4>2. QED
          BY <3>2, <3>3, <3>4, <4>1 DEF LoopsWell, EndsWell
      <3>5. CASE c # Stuck(g)
        <4>1. /\ c \in Plain(g)
              /\ \A m \in Entities(g) : /\ colour[m] = "done" => c[m] = "done"
                                        /\ c[m] = "open" <=> colour[m] = "open" \/ m = node
          BY <3>3, <3>5 DEF LoopsWell
        <4>2. c[node] = "open"
          BY <4>1
        <4>3. PICK left : left = Left(c, node)
          OBVIOUS
        <4>4. visit[node][colour] = left
          BY <3>2, <4>2, <4>3
        <4>5. /\ left \in Plain(g)
              /\ \A m \in Entities(g) : m # node => left[m] = c[m]
              /\ left[node] = "done"
              /\ Sorted(g, c)
                 /\ (\A j \in DOMAIN g.edges : g.edges[j].child = node => c[g.edges[j].parent] = "done")
                 => Sorted(g, left)
          BY <4>1, <4>2, <4>3, NodeLeft
        <4>6. Advances(g, colour, left)
          BY <2>4, <4>1, <4>5 DEF Advances
        <4>7. ASSUME Sorted(g, colour), Cardinality(New(colour)) < n + 1 PROVE Sorted(g, left)
          <5>1. /\ Sorted(g, c)
                /\ \A j \in 1 .. Len(g.edges) : g.edges[j].child = node => c[g.edges[j].parent] = "done"
            BY <3>3, <3>5, <4>7 DEF LoopsWell
          <5>2. DOMAIN g.edges = 1 .. Len(g.edges)
            BY DEF Edged
          <5>3. QED
            BY <4>5, <5>1, <5>2
        <4>8. left # Stuck(g)
          BY <2>1, <4>5
        <4>9. QED
          BY <4>4, <4>5, <4>6, <4>7, <4>8 DEF EndsWell
      <3>6. QED
        BY <3>4, <3>5
    <2>5. QED
      BY <2>1, <2>2, <2>3, <2>4
  <1>7. QED
    BY <1>2, <1>3, <1>5, <1>6 DEF VisitsWell

\* visit, nested no times.
NotVisited(g) == [node \in Entities(g) |-> [colour \in [Entities(g) -> Colours] |-> colour]]

\* It does well where there is nothing new.
LEMMA NotVisitedWell ==
    ASSUME NEW g, IsFiniteSet(Entities(g)), NotVisited(g) \in [Entities(g) -> [Colourings(g) -> Colourings(g)]]
    PROVE  VisitsWell(g, 0, NotVisited(g))
  <1>1. ASSUME NEW node \in Entities(g), NEW colour \in Colourings(g)
        PROVE  NotVisited(g)[node][colour] = colour
    BY DEF NotVisited, Colourings
  <1>2. ASSUME NEW node \in Entities(g), NEW colour \in Plain(g)
        PROVE  EndsWell(g, 0, node, colour, colour)
    <2>1. Stuck(g) \notin Plain(g)
      BY Kinds
    <2>2. ~(Cardinality(New(colour)) < 0)
      <3>1. New(colour) \subseteq Entities(g)
        BY DEF New, Plain
      <3>2. Cardinality(New(colour)) \in Nat
        BY <3>1, FS_Subset, FS_CardinalityType
      <3>3. QED
        BY <3>2
    <2>3. QED
      BY <2>1, <2>2 DEF EndsWell, Advances
  <1>3. QED
    BY <1>1, <1>2, Kinds DEF VisitsWell

\* The nested visits, as they are after each nesting.
Nested(g, visit) ==
    visit = [n \in 0 .. Cardinality(Entities(g)) + 1 |->
                IF n = 0 THEN NotVisited(g) ELSE Visited(g, visit[n - 1])]

\* There are such visits, the last of them visit.
LEMMA NestedExist ==
    ASSUME NEW g, Edged(g), IsFiniteSet(Entities(g))
    PROVE  \E visit : /\ visit[0] = NotVisited(g)
                      /\ \A n \in 1 .. Cardinality(Entities(g)) + 1 : visit[n] = Visited(g, visit[n - 1])
                      /\ Visit(g) = visit[Cardinality(Entities(g)) + 1]
  <1>1. PICK D : D = [Entities(g) -> [Colourings(g) -> Colourings(g)]]
    OBVIOUS
  <1>2. PICK base : base = NotVisited(g)
    OBVIOUS
  <1>3. base \in D
    BY <1>1, <1>2 DEF NotVisited, Colourings
  <1>4. PICK max \in Nat : max = Cardinality(Entities(g)) + 1
    BY FS_CardinalityType
  <1>5. ASSUME NEW v \in D PROVE Visited(g, v) \in D
    BY <1>1, VisitedIs
  <1>6. PICK step : step = [n \in 1 .. max |-> [v \in D |-> Visited(g, v)]]
    OBVIOUS
  <1>7. step \in [1 .. max -> [D -> D]]
    BY ONLY <1>5, <1>6
  <1>8. PICK f \in [0 .. max -> D] : f[0] = base /\ \A n \in 1 .. max : f[n] = step[n][f[n - 1]]
    BY ONLY <1>3, <1>7, max \in Nat, IterationExists
  <1>9. ASSUME NEW n \in 1 .. max PROVE f[n] = Visited(g, f[n - 1])
    <2>1. n - 1 \in 0 .. max
      OBVIOUS
    <2>2. f[n - 1] \in D
      BY ONLY <2>1, f \in [0 .. max -> D]
    <2>3. step[n][f[n - 1]] = Visited(g, f[n - 1])
      BY ONLY <1>6, <1>9, <2>2
    <2>4. QED
      BY <1>8, <2>3
  <1>10. Nested(g, f)
    <2> DEFINE Body(n) == IF n = 0 THEN base ELSE Visited(g, f[n - 1])
    <2>1. \A n \in 0 .. max : f[n] = Body(n)
      <3>1. \A n \in 0 .. max : n = 0 \/ n \in 1 .. max
        OBVIOUS
      <3>2. QED
        BY <1>8, <1>9, <3>1
    <2>2. f = [n \in 0 .. max |-> Body(n)]
      <3> HIDE DEF Body
      <3>1. f = [n \in 0 .. max |-> f[n]]
        BY ONLY f \in [0 .. max -> D]
      <3>2. [n \in 0 .. max |-> f[n]] = [n \in 0 .. max |-> Body(n)]
        BY <2>1
      <3>3. QED
        BY <3>1, <3>2
    <2>3. QED
      BY <1>2, <1>4, <2>2 DEF Nested
  <1>11. PICK h : Nested(g, h) /\ Visit(g) = h[Cardinality(Entities(g)) + 1]
    <2> DEFINE all == CHOOSE x : Nested(g, x)
    <2>1. Nested(g, all)
      BY <1>10, Zenon
    <2>2. Visit(g) = all[Cardinality(Entities(g)) + 1]
      BY Zenon DEF Visit, Nested, NotVisited
    <2>3. QED
      BY <2>1, <2>2, Zenon
  <1>12. h = [n \in 0 .. max |-> IF n = 0 THEN base ELSE Visited(g, h[n - 1])]
    BY <1>2, <1>4, <1>11 DEF Nested
  <1>13. h[0] = base /\ \A n \in 1 .. max : h[n] = Visited(g, h[n - 1])
    <2>1. 0 \in 0 .. max /\ \A n \in 1 .. max : n \in 0 .. max /\ n # 0
      OBVIOUS
    <2>2. QED
      BY <1>12, <2>1
  <1>14. QED
    BY <1>2, <1>4, <1>11, <1>13

\* visit does well.
LEMMA VisitWell ==
    ASSUME NEW g, Edged(g), IsFiniteSet(Entities(g))
    PROVE  VisitsWell(g, Cardinality(Entities(g)) + 1, Visit(g))
  <1>1. PICK visit : /\ visit[0] = NotVisited(g)
                     /\ \A n \in 1 .. Cardinality(Entities(g)) + 1 : visit[n] = Visited(g, visit[n - 1])
                     /\ Visit(g) = visit[Cardinality(Entities(g)) + 1]
    BY NestedExist
  <1>2. PICK max \in Nat : max = Cardinality(Entities(g)) + 1
    BY FS_CardinalityType
  <1> DEFINE Well == {n \in Nat : n <= max => VisitsWell(g, n, visit[n])}
  <1>3. 0 \in Well
    <2>1. NotVisited(g) \in [Entities(g) -> [Colourings(g) -> Colourings(g)]]
      BY DEF NotVisited, Colourings
    <2>2. QED
      BY <1>1, <2>1, NotVisitedWell
  <1>4. ASSUME NEW n \in Nat, n \in Well PROVE n + 1 \in Well
    <2>1. SUFFICES ASSUME n + 1 <= max PROVE VisitsWell(g, n + 1, visit[n + 1])
      OBVIOUS
    <2>2. n + 1 \in 1 .. max /\ (n + 1) - 1 = n /\ n <= max
      BY <2>1
    <2>3. visit[n + 1] = Visited(g, visit[n])
      BY <1>1, <1>2, <2>2
    <2>4. VisitsWell(g, n, visit[n])
      BY <1>4, <2>2
    <2>5. QED
      BY <2>3, <2>4, VisitedWell
  <1> HIDE DEF Well
  <1>5. \A n \in Nat : n \in Well
    BY <1>3, <1>4, InductionOnSet
  <1>6. VisitsWell(g, max, visit[max])
    BY <1>5 DEF Well
  <1>7. QED
    BY <1>1, <1>2, <1>6

\* Every entity has its turn in the order.
LEMMA OrderIsOnto ==
    ASSUME NEW g, IsFiniteSet(Entities(g))
    PROVE  /\ Order(g) \in [1 .. Cardinality(Entities(g)) -> Entities(g)]
           /\ \A n \in Entities(g) : \E i \in 1 .. Cardinality(Entities(g)) : Order(g)[i] = n
  <1>1. PICK max : max = Cardinality(Entities(g))
    OBVIOUS
  <1>2. PICK f : f \in Bijection(1 .. max, Entities(g))
    BY <1>1, FS_CardinalityType DEF ExistsBijection
  <1>3. /\ f \in [1 .. max -> Entities(g)]
        /\ \A n \in Entities(g) : \E i \in DOMAIN f : f[i] = n
    BY <1>2 DEF Bijection, Surjection
  <1>4. /\ Order(g) \in [1 .. max -> Entities(g)]
        /\ \A n \in Entities(g) : \E i \in DOMAIN Order(g) : Order(g)[i] = n
    BY <1>1, <1>3, Zenon DEF Order
  <1>5. QED
    BY <1>1, <1>4

\* The search from each entity in turn, as the colours after each.
Searches(g, after) ==
    after = [i \in 0 .. Cardinality(Entities(g)) |->
                IF i = 0 THEN [n \in Entities(g) |-> "new"] ELSE Visit(g)[Order(g)[i]][after[i - 1]]]

\* It is done from each.
LEMMA SearchesExist ==
    ASSUME NEW g, Edged(g), IsFiniteSet(Entities(g))
    PROVE  \E after : /\ after[0] = [n \in Entities(g) |-> "new"]
                      /\ \A i \in 1 .. Cardinality(Entities(g)) : after[i] = Visit(g)[Order(g)[i]][after[i - 1]]
                      /\ FindsCycle(g) <=> \E n \in Entities(g) : after[Cardinality(Entities(g))][n] = "cycle"
  <1>1. PICK D : D = Colourings(g)
    OBVIOUS
  <1>2. PICK base : base = [n \in Entities(g) |-> "new"]
    OBVIOUS
  <1>3. base \in D
    BY <1>1, <1>2 DEF Colourings, Colours
  <1>4. PICK max \in Nat : max = Cardinality(Entities(g))
    BY FS_CardinalityType
  <1>5. PICK visit : visit = Visit(g)
    OBVIOUS
  <1>6. PICK order : order = Order(g)
    OBVIOUS
  <1>7. ASSUME NEW n \in 1 .. max, NEW c \in D PROVE visit[order[n]][c] \in D
    <2>1. visit \in [Entities(g) -> [D -> D]]
      BY <1>1, <1>5, VisitWell DEF VisitsWell
    <2>2. order[n] \in Entities(g)
      BY <1>4, <1>6, OrderIsOnto
    <2>3. QED
      BY <2>1, <2>2
  <1>8. PICK step : step = [n \in 1 .. max |-> [c \in D |-> visit[order[n]][c]]]
    OBVIOUS
  <1>9. step \in [1 .. max -> [D -> D]]
    BY ONLY <1>7, <1>8
  <1>10. PICK f \in [0 .. max -> D] : f[0] = base /\ \A n \in 1 .. max : f[n] = step[n][f[n - 1]]
    BY ONLY <1>3, <1>9, max \in Nat, IterationExists
  <1>11. ASSUME NEW n \in 1 .. max PROVE f[n] = visit[order[n]][f[n - 1]]
    <2>1. n - 1 \in 0 .. max
      OBVIOUS
    <2>2. f[n - 1] \in D
      BY ONLY <2>1, f \in [0 .. max -> D]
    <2>3. step[n][f[n - 1]] = visit[order[n]][f[n - 1]]
      BY ONLY <1>8, <1>11, <2>2
    <2>4. QED
      BY <1>10, <2>3
  <1>12. Searches(g, f)
    <2> DEFINE Body(n) == IF n = 0 THEN base ELSE visit[order[n]][f[n - 1]]
    <2>1. \A n \in 0 .. max : f[n] = Body(n)
      <3>1. \A n \in 0 .. max : n = 0 \/ n \in 1 .. max
        OBVIOUS
      <3>2. QED
        BY <1>10, <1>11, <3>1
    <2>2. f = [n \in 0 .. max |-> Body(n)]
      <3> HIDE DEF Body
      <3>1. f = [n \in 0 .. max |-> f[n]]
        BY ONLY f \in [0 .. max -> D]
      <3>2. [n \in 0 .. max |-> f[n]] = [n \in 0 .. max |-> Body(n)]
        BY <2>1
      <3>3. QED
        BY <3>1, <3>2
    <2>3. QED
      BY <1>2, <1>4, <1>5, <1>6, <2>2 DEF Searches
  <1>13. PICK h : /\ Searches(g, h)
                  /\ FindsCycle(g) <=> \E n \in Entities(g) : h[Cardinality(Entities(g))][n] = "cycle"
    <2> DEFINE all == CHOOSE x : Searches(g, x)
    <2>1. Searches(g, all)
      BY <1>12, Zenon
    <2>2. FindsCycle(g) = \E n \in Entities(g) : all[Cardinality(Entities(g))][n] = "cycle"
      BY Zenon DEF FindsCycle, Searches
    <2>3. QED
      BY <2>1, <2>2, Zenon
  <1>14. h = [n \in 0 .. max |-> IF n = 0 THEN base ELSE visit[order[n]][h[n - 1]]]
    BY <1>2, <1>4, <1>5, <1>6, <1>13 DEF Searches
  <1>15. h[0] = base /\ \A n \in 1 .. max : h[n] = visit[order[n]][h[n - 1]]
    <2>1. 0 \in 0 .. max /\ \A n \in 1 .. max : n \in 0 .. max /\ n # 0
      OBVIOUS
    <2>2. QED
      BY <1>14, <2>1
  <1>16. QED
    BY <1>2, <1>4, <1>5, <1>6, <1>13, <1>15

\* What holds when the search from the first i entities has come to the colours c.
SearchesWell(g, i, c) ==
    /\ c \in Plain(g) \union {Stuck(g)}
    /\ \A rank \in [Entities(g) -> Nat] : Climbs(g, rank) => c # Stuck(g)
    /\ c # Stuck(g) =>
        /\ \A n \in Entities(g) : c[n] # "open"
        /\ Sorted(g, c)
        /\ \A j \in 1 .. i : c[Order(g)[j]] = "done"

\* It holds before the search, and after that from each.
LEMMA SearchWell ==
    ASSUME NEW g, Edged(g), IsFiniteSet(Entities(g)), Entities(g) # {}
    PROVE  /\ SearchesWell(g, 0, [n \in Entities(g) |-> "new"])
           /\ \A i \in Nat, c \in Colourings(g) :
                SearchesWell(g, i, c) /\ i + 1 \in 1 .. Cardinality(Entities(g))
                => SearchesWell(g, i + 1, Visit(g)[Order(g)[i + 1]][c])
  <1>1. Stuck(g) \notin Plain(g)
    BY Kinds
  <1>2. SearchesWell(g, 0, [n \in Entities(g) |-> "new"])
    <2>1. PICK c : c = [n \in Entities(g) |-> "new"]
      OBVIOUS
    <2>2. c \in Plain(g) /\ \A n \in Entities(g) : c[n] = "new"
      BY <2>1 DEF Plain
    <2>3. PICK rank \in [Entities(g) -> Nat] : rank = [n \in Entities(g) |-> 0]
      OBVIOUS
    <2>4. Sorts(g, c, rank, 0)
      BY <2>2 DEF Sorts
    <2>5. Sorted(g, c)
      BY <2>3, <2>4 DEF Sorted
    <2>6. 1 .. 0 = {}
      OBVIOUS
    <2>7. QED
      BY <1>1, <2>1, <2>2, <2>5, <2>6 DEF SearchesWell
  <1>3. ASSUME NEW i \in Nat, NEW c \in Colourings(g), SearchesWell(g, i, c),
               i + 1 \in 1 .. Cardinality(Entities(g))
        PROVE  SearchesWell(g, i + 1, Visit(g)[Order(g)[i + 1]][c])
    <2>1. PICK node : node = Order(g)[i + 1]
      OBVIOUS
    <2>2. node \in Entities(g)
      BY <1>3, <2>1, OrderIsOnto
    <2>3. PICK d : d = Visit(g)[node][c]
      OBVIOUS
    <2>4. VisitsWell(g, Cardinality(Entities(g)) + 1, Visit(g))
      BY VisitWell
    <2>5. CASE c = Stuck(g)
      <3>1. d = Stuck(g)
        BY <2>2, <2>3, <2>4, <2>5 DEF VisitsWell
      <3>2. QED
        BY <1>3, <2>1, <2>3, <2>5, <3>1 DEF SearchesWell
    <2>6. CASE c # Stuck(g)
      <3>1. /\ c \in Plain(g) /\ Sorted(g, c)
            /\ \A n \in Entities(g) : c[n] # "open"
            /\ \A j \in 1 .. i : c[Order(g)[j]] = "done"
        BY <1>3, <2>6 DEF SearchesWell
      <3>2. EndsWell(g, Cardinality(Entities(g)) + 1, node, c, d)
        BY <2>2, <2>3, <2>4, <3>1 DEF VisitsWell
      <3>3. Cardinality(New(c)) < Cardinality(Entities(g)) + 1
        <4>1. New(c) \subseteq Entities(g)
          BY <3>1 DEF New, Plain
        <4>2. IsFiniteSet(New(c)) /\ Cardinality(New(c)) <= Cardinality(Entities(g))
          BY <4>1, FS_Subset
        <4>3. Cardinality(New(c)) \in Nat /\ Cardinality(Entities(g)) \in Nat
          BY <4>2, FS_CardinalityType
        <4>4. QED
          BY <4>2, <4>3
      <3>4. \A rank \in [Entities(g) -> Nat] : Climbs(g, rank) => d # Stuck(g)
        BY <3>1, <3>2 DEF EndsWell
      <3>5. d # Stuck(g) => Sorted(g, d) /\ d[node] = "done" /\ Advances(g, c, d)
        BY <3>1, <3>2, <3>3 DEF EndsWell
      <3>6. d # Stuck(g) => \A n \in Entities(g) : d[n] # "open"
        BY <3>1, <3>5 DEF Advances
      <3>7. ASSUME d # Stuck(g), NEW j \in 1 .. i + 1 PROVE d[Order(g)[j]] = "done"
        <4>1. CASE j = i + 1
          BY <2>1, <3>5, <3>7, <4>1
        <4>2. CASE j \in 1 .. i
          <5>1. j \in 1 .. Cardinality(Entities(g))
            BY <1>3, <4>2, FS_CardinalityType
          <5>2. Order(g)[j] \in Entities(g)
            BY <5>1, OrderIsOnto
          <5>3. QED
            BY <3>1, <3>5, <3>7, <4>2, <5>2 DEF Advances
        <4>3. QED
          BY <4>1, <4>2
      <3>8. d \in Plain(g) \union {Stuck(g)}
        BY <3>2 DEF EndsWell
      <3>9. QED
        BY <2>1, <2>3, <3>4, <3>5, <3>6, <3>7, <3>8 DEF SearchesWell
    <2>7. QED
      BY <2>5, <2>6
  <1>4. QED
    BY <1>2, <1>3

\* When the search is over, it met a cycle or everything is done in order.
LEMMA SearchedWell ==
    ASSUME NEW g, Edged(g), IsFiniteSet(Entities(g)), Entities(g) # {}
    PROVE  /\ FindsCycle(g) => \A rank \in [Entities(g) -> Nat] : ~Climbs(g, rank)
           /\ ~FindsCycle(g) => \E rank \in [Entities(g) -> Nat] : Climbs(g, rank)
  <1>1. PICK max \in Nat : max = Cardinality(Entities(g))
    BY FS_CardinalityType
  <1>2. PICK after : /\ after[0] = [n \in Entities(g) |-> "new"]
                     /\ \A i \in 1 .. max : after[i] = Visit(g)[Order(g)[i]][after[i - 1]]
                     /\ FindsCycle(g) <=> \E n \in Entities(g) : after[max][n] = "cycle"
    BY <1>1, SearchesExist
  <1> DEFINE Well == {i \in Nat : i <= max => SearchesWell(g, i, after[i])}
  <1>3. 0 \in Well
    BY <1>2, SearchWell
  <1>4. ASSUME NEW i \in Nat, i \in Well PROVE i + 1 \in Well
    <2>1. SUFFICES ASSUME i + 1 <= max PROVE SearchesWell(g, i + 1, after[i + 1])
      OBVIOUS
    <2>2. i + 1 \in 1 .. max /\ (i + 1) - 1 = i /\ i <= max
      BY <2>1
    <2>3. after[i + 1] = Visit(g)[Order(g)[i + 1]][after[i]]
      BY <1>2, <2>2
    <2>4. SearchesWell(g, i, after[i])
      BY <1>4, <2>2
    <2>5. after[i] \in Colourings(g)
      BY <2>4, Kinds DEF SearchesWell
    <2>6. QED
      BY <1>1, <2>2, <2>3, <2>4, <2>5, SearchWell
  <1> HIDE DEF Well
  <1>5. \A i \in Nat : i \in Well
    BY <1>3, <1>4, InductionOnSet
  <1>6. SearchesWell(g, max, after[max])
    BY <1>5 DEF Well
  <1>7. CASE after[max] = Stuck(g)
    <2>1. FindsCycle(g)
      BY <1>2, <1>7 DEF Stuck
    <2>2. QED
      BY <1>6, <1>7, <2>1 DEF SearchesWell
  <1>8. CASE after[max] # Stuck(g)
    <2>1. after[max] \in Plain(g)
      BY <1>6, <1>8 DEF SearchesWell
    <2>2. ~FindsCycle(g)
      BY <1>2, <2>1 DEF Plain
    <2>3. \A n \in Entities(g) : after[max][n] = "done"
      <3>1. \A j \in 1 .. max : after[max][Order(g)[j]] = "done"
        BY <1>6, <1>8 DEF SearchesWell
      <3>2. QED
        BY <1>1, <3>1, OrderIsOnto
    <2>4. PICK rank \in [Entities(g) -> Nat], top \in Nat : Sorts(g, after[max], rank, top)
      BY <1>6, <1>8 DEF SearchesWell, Sorted
    <2>5. PICK turned \in [Entities(g) -> Nat] : turned = [n \in Entities(g) |-> top - rank[n]]
      <3>1. \A n \in Entities(g) : rank[n] \in Nat /\ rank[n] < top
        BY <2>3, <2>4 DEF Sorts
      <3>2. \A n \in Entities(g) : top - rank[n] \in Nat
        BY <3>1
      <3>3. QED
        BY <3>2
    <2>6. Climbs(g, turned)
      <3>1. ASSUME NEW i \in DOMAIN g.edges
            PROVE  turned[g.edges[i].child] < turned[g.edges[i].parent]
        <4>1. PICK child \in Entities(g), parent \in Entities(g) :
                child = g.edges[i].child /\ parent = g.edges[i].parent
          BY DEF Edged
        <4>2. rank[parent] < rank[child]
          BY <2>3, <2>4, <4>1 DEF Sorts
        <4>3. rank[parent] \in Nat /\ rank[child] \in Nat
          OBVIOUS
        <4>4. QED
          BY <2>5, <4>1, <4>2, <4>3
      <3>2. QED
        BY <3>1 DEF Climbs
    <2>7. QED
      BY <2>2, <2>6
  <1>9. QED
    BY <1>7, <1>8

\* A rank that climbs, counted out, is an order of the entities.
LEMMA RankedIsAcyclic ==
    ASSUME NEW g, Edged(g), IsFiniteSet(Entities(g)), NEW rank, rank \in [Entities(g) -> Nat], Climbs(g, rank)
    PROVE  Acyclic(g)
  <1> DEFINE UpTo(n) == {m \in Entities(g) : rank[m] <= rank[n]}
  <1>1. ASSUME NEW n \in Entities(g) PROVE Cardinality(UpTo(n)) \in 1 .. Cardinality(Entities(g))
    <2>1. UpTo(n) \subseteq Entities(g) /\ n \in UpTo(n)
      OBVIOUS
    <2> HIDE DEF UpTo
    <2>2. IsFiniteSet(UpTo(n)) /\ Cardinality(UpTo(n)) <= Cardinality(Entities(g))
      BY <2>1, FS_Subset
    <2>3. Cardinality(UpTo(n)) # 0
      BY <2>1, <2>2, FS_EmptySet
    <2>4. Cardinality(UpTo(n)) \in Nat /\ Cardinality(Entities(g)) \in Nat
      BY <2>2, FS_CardinalityType
    <2>5. QED
      BY <2>2, <2>3, <2>4
  <1>2. ASSUME NEW child \in Entities(g), NEW parent \in Entities(g), rank[child] < rank[parent]
        PROVE  Cardinality(UpTo(child)) < Cardinality(UpTo(parent))
    <2>1. UpTo(child) \subseteq UpTo(parent) /\ parent \in UpTo(parent) /\ parent \notin UpTo(child)
      <3>1. \A m \in Entities(g) : rank[m] \in Nat
        OBVIOUS
      <3>2. QED
        BY <1>2, <3>1
    <2>2. UpTo(parent) \subseteq Entities(g)
      OBVIOUS
    <2>3. Cardinality(UpTo(child)) \in Nat /\ Cardinality(UpTo(parent)) \in Nat
      BY <1>1
    <2> HIDE DEF UpTo
    <2>4. IsFiniteSet(UpTo(parent))
      BY <2>2, FS_Subset
    <2>5. /\ Cardinality(UpTo(child)) <= Cardinality(UpTo(parent))
          /\ Cardinality(UpTo(parent)) # Cardinality(UpTo(child))
      BY <2>1, <2>4, FS_Subset
    <2>6. QED
      BY <2>3, <2>5
  <1> HIDE DEF UpTo
  <1>3. PICK order : order = [n \in Entities(g) |-> Cardinality(UpTo(n))]
    OBVIOUS
  <1>4. order \in [Entities(g) -> 1 .. Cardinality(Entities(g))]
    BY <1>1, <1>3
  <1>5. ASSUME NEW e \in Range(g.edges) PROVE order[e.child] < order[e.parent]
    <2>1. PICK i \in DOMAIN g.edges : e = g.edges[i]
      BY DEF Range
    <2>2. e.child \in Entities(g) /\ e.parent \in Entities(g)
      BY <2>1 DEF Edged
    <2>3. rank[e.child] < rank[e.parent]
      BY <2>1 DEF Climbs
    <2>4. QED
      BY <1>2, <1>3, <2>2, <2>3
  <1>6. QED
    BY <1>4, <1>5 DEF Acyclic

\* The search meets a cycle exactly if there is one.
LEMMA SearchIsExact ==
    ASSUME NEW g, Edged(g), IsFiniteSet(Entities(g))
    PROVE  FindsCycle(g) <=> ~Acyclic(g)
  <1>1. CASE Entities(g) = {}
    <2>1. ~FindsCycle(g)
      <3>1. PICK after : FindsCycle(g) <=> \E n \in Entities(g) : after[Cardinality(Entities(g))][n] = "cycle"
        BY SearchesExist
      <3>2. QED
        BY <1>1, <3>1
    <2>2. PICK rank \in [Entities(g) -> Nat] : rank = [n \in Entities(g) |-> 0]
      OBVIOUS
    <2>3. Climbs(g, rank)
      BY <1>1 DEF Climbs, Edged
    <2>4. QED
      BY <2>1, <2>3, RankedIsAcyclic
  <1>2. CASE Entities(g) # {}
    <2>1. ASSUME Acyclic(g) PROVE ~FindsCycle(g)
      <3>1. PICK rank \in [Entities(g) -> 1 .. Cardinality(Entities(g))] :
                \A e \in Range(g.edges) : rank[e.child] < rank[e.parent]
        BY <2>1 DEF Acyclic
      <3>2. rank \in [Entities(g) -> Nat]
        BY <3>1
      <3>3. Climbs(g, rank)
        BY <3>1 DEF Climbs, Range
      <3>4. QED
        BY <1>2, <3>2, <3>3, SearchedWell
    <2>2. ASSUME ~FindsCycle(g) PROVE Acyclic(g)
      BY <1>2, <2>2, SearchedWell, RankedIsAcyclic
    <2>3. QED
      BY <2>1, <2>2
  <1>3. QED
    BY <1>1, <1>2

\* Over any references between finitely many entities, _check_acyclic refuses exactly those that no order
\* of the entities satisfies.
THEOREM CyclesAreFound == Spec => []AcyclicAgrees
  <1>1. RefsRead => AcyclicAgrees
    <2>1. SUFFICES ASSUME RefsRead, EdgesOK(Graph) PROVE FindsCycle(Graph) <=> ~Acyclic(Graph)
      BY DEF AcyclicAgrees
    <2>2. PICK g : g = Graph
      OBVIOUS
    <2>3. Len(refs) \in Nat /\ DOMAIN refs = 1 .. Len(refs)
      BY <2>1 DEF RefsRead
    <2>4. g.edges = [i \in DOMAIN refs |-> EdgeOf(refs[i])] /\ Entities(g) = DOMAIN Keys
      BY <2>2 DEF Graph, GraphOf, Entities
    <2>5. DOMAIN g.edges = 1 .. Len(refs) /\ Len(g.edges) = Len(refs)
      BY <2>3, <2>4
    <2>6. ASSUME NEW i \in DOMAIN g.edges
          PROVE  g.edges[i].child \in Entities(g) /\ g.edges[i].parent \in Entities(g)
      <3>1. g.edges[i] \in Range(g.edges)
        BY DEF Range
      <3>2. EdgeOK(g, g.edges[i])
        BY <2>1, <2>2, <3>1 DEF EdgesOK
      <3>3. QED
        BY <3>2 DEF EdgeOK
    <2>7. Edged(g)
      BY <2>3, <2>5, <2>6 DEF Edged
    <2>8. IsFiniteSet(Entities(g))
      BY <2>4, KeysAssumption
    <2>9. QED
      BY <2>2, <2>7, <2>8, SearchIsExact
  <1>2. QED
    BY <1>1, RefsAreRead, PTL

-------------------------------------------------------------------------------
(* What a view is computed from, one join after the other *)

\* The rows after each of the first m joins.
RowsUpTo(rows, d, contents, row, m) ==
    rows = [n \in 0 .. m |->
              IF n = 0 THEN {Found(d, row)} ELSE Joined(d, contents, d.joins[n], rows[n - 1])]

\* They exist for every number of joins.
LEMMA RowsExist ==
    ASSUME NEW d, NEW contents, NEW row
    PROVE  \A m \in Nat : \E rows : RowsUpTo(rows, d, contents, row, m)
  <1> DEFINE Start == {Found(d, row)}
             After(n, found) == Joined(d, contents, d.joins[n], found)
             UpTo(rows, m) == rows = [n \in 0 .. m |-> IF n = 0 THEN Start ELSE After(n, rows[n - 1])]
             Reached == {m \in Nat : \E rows : UpTo(rows, m)}
  <1> HIDE DEF Start, After
  <1>1. 0 \in Reached
    <2>1. PICK f : f = [n \in 0 .. 0 |-> Start]
      OBVIOUS
    <2>2. f = [n \in 0 .. 0 |-> IF n = 0 THEN Start ELSE After(n, f[n - 1])]
      BY <2>1
    <2>3. QED
      BY <2>2
  <1>2. ASSUME NEW m \in Nat, m \in Reached PROVE m + 1 \in Reached
    <2>1. PICK f : UpTo(f, m)
      BY <1>2
    <2>2. PICK g : g = [n \in 0 .. m + 1 |-> IF n = m + 1 THEN After(m + 1, f[m]) ELSE f[n]]
      OBVIOUS
    <2>3. ASSUME NEW n \in 0 .. m + 1 PROVE g[n] = IF n = 0 THEN Start ELSE After(n, g[n - 1])
      BY <2>1, <2>2, <2>3
    <2>4. g = [n \in 0 .. m + 1 |-> g[n]]
      BY <2>2
    <2>5. UpTo(g, m + 1)
      BY <2>3, <2>4
    <2>6. QED
      BY <2>5
  <1> HIDE DEF Reached
  <1>3. \A m \in Nat : m \in Reached
    BY <1>1, <1>2, InductionOnSet
  <1>4. QED
    BY <1>3 DEF Reached, RowsUpTo, Start, After

\* Those of a view: each from the one before.
InTurn(rows, d, contents, row) ==
    /\ ViewRows(d, contents, row) = rows[Len(d.joins)]
    /\ rows[0] = {Found(d, row)}
    /\ \A n \in 1 .. Len(d.joins) : rows[n] = Joined(d, contents, d.joins[n], rows[n - 1])

\* The rows of a view are those after its last join.
LEMMA ViewRowsAre ==
    ASSUME NEW d, Len(d.joins) \in Nat, NEW contents, NEW row
    PROVE  \E rows : InTurn(rows, d, contents, row)
  <1> DEFINE all == CHOOSE rows : RowsUpTo(rows, d, contents, row, Len(d.joins))
  <1>1. RowsUpTo(all, d, contents, row, Len(d.joins))
    BY RowsExist
  <1>2. ViewRows(d, contents, row) = all[Len(d.joins)]
    BY Zenon DEF ViewRows, RowsUpTo
  <1> HIDE DEF all
  <1>3. /\ all[0] = {Found(d, row)}
        /\ \A n \in 1 .. Len(d.joins) : all[n] = Joined(d, contents, d.joins[n], all[n - 1])
    <2>1. \A n \in 0 .. Len(d.joins) :
              all[n] = IF n = 0 THEN {Found(d, row)} ELSE Joined(d, contents, d.joins[n], all[n - 1])
      BY <1>1 DEF RowsUpTo
    <2>2. QED
      BY <2>1
  <1>4. QED
    BY <1>2, <1>3 DEF InTurn

-------------------------------------------------------------------------------
(* Grain *)

\* A join that covers a key which holds finds at most one row.
LEMMA MatchIsUnique ==
    ASSUME NEW d, NEW contents, NEW join, NEW found,
           CoversKey(d, join),
           KeyHolds(ComponentOf(d, join.component), contents[join.component]),
           NEW r \in Matching(d, contents, join, found), NEW s \in Matching(d, contents, join, found)
    PROVE  r = s
  <1> DEFINE left == found[LeftOf(d, join)]
             matching == IF left = None THEN {} ELSE {x \in contents[join.component] : Matches(join, left, x)}
             key == ComponentOf(d, join.component).key
             KeyOf(x) == [i \in DOMAIN key |-> x[key[i]]]
  <1>1. Matching(d, contents, join, found) = IF matching = {} /\ join.type = "left" THEN {None} ELSE matching
    BY DEF Matching
  <1>2. CASE r \in matching /\ s \in matching
    <2>1. /\ r \in contents[join.component] /\ s \in contents[join.component]
          /\ \A p \in join.on : left[p[1]] = r[p[2]] /\ left[p[1]] = s[p[2]]
      BY <1>2 DEF Matches
    <2>2. key # <<>> /\ {p[2] : p \in join.on} = {key[i] : i \in DOMAIN key}
      BY DEF CoversKey, ToSet
    <2>3. \A i \in DOMAIN key : r[key[i]] = s[key[i]]
      BY <2>1, <2>2
    <2>4. KeyOf(r) = KeyOf(s)
      BY <2>3
    <2>5. QED
      BY <2>1, <2>2, <2>4, Zenon DEF KeyHolds
  <1>3. QED
    BY <1>1, <1>2

\* A join that keeps the grain of one row at most leaves one row at most.
LEMMA JoinedIsUnique ==
    ASSUME NEW d, NEW contents, NEW join, NEW rows, \A f, g \in rows : f = g,
           CoversKey(d, join), KeyHolds(ComponentOf(d, join.component), contents[join.component])
    PROVE  \A x, y \in Joined(d, contents, join, rows) : x = y
  <1>1. SUFFICES ASSUME NEW x \in Joined(d, contents, join, rows), NEW y \in Joined(d, contents, join, rows)
                 PROVE  x = y
    OBVIOUS
  <1>2. PICK f \in rows : \E r \in Matching(d, contents, join, f) : x = With(f, join.component, r)
    BY Zenon DEF Joined
  <1>3. PICK g \in rows : \E s \in Matching(d, contents, join, g) : y = With(g, join.component, s)
    BY Zenon DEF Joined
  <1>4. f = g
    BY <1>2, <1>3
  <1>5. \A r, s \in Matching(d, contents, join, f) : r = s
    BY MatchIsUnique
  <1>6. QED
    BY <1>2, <1>3, <1>4, <1>5

\* What the manifest of a dataset that is accepted says of each of its joins.
LEMMA AcceptedJoins ==
    ASSUME joins \in Seq(Joins), Accepted
    PROVE  /\ Dataset.joins = joins /\ Len(joins) \in Nat /\ DOMAIN joins = 1 .. Len(joins)
           /\ Dataset.base \in NamesOf(Dataset)
           /\ \A n \in 1 .. Len(joins) : JoinOK(Dataset, n)
  <1>1. Dataset.joins = joins /\ Dataset.sql = {}
    BY DEF Dataset
  <1>2. JoinsOK(Dataset)
    BY <1>1 DEF Accepted, DatasetOK
  <1>3. Len(joins) \in Nat /\ DOMAIN joins = 1 .. Len(joins)
    OBVIOUS
  <1>4. QED
    BY <1>1, <1>2, <1>3 DEF JoinsOK

\* The contents of a component are some of its tables, and its key holds.
LEMMA ContentsOfComponents ==
    ASSUME NEW c \in Contents, NEW name \in NamesOf(Dataset)
    PROVE  /\ KeyHolds(ComponentOf(Dataset, name), c[name])
           /\ c[name] \in Tables[name]
  <1>1. Dataset.components = Components
    BY DEF Dataset
  <1>2. \A i \in DOMAIN Components : /\ c[Components[i].name] \in Tables[Components[i].name]
                                     /\ KeyHolds(Components[i], c[Components[i].name])
    BY DEF Contents
  <1>3. PICK k \in DOMAIN Components : Components[k].name = name
    BY <1>1 DEF NamesOf
  <1> DEFINE i == CHOOSE j \in DOMAIN Components : Components[j].name = name
  <1>4. i \in DOMAIN Components /\ Components[i].name = name
    BY <1>3
  <1>5. ComponentOf(Dataset, name) = Components[i]
    BY <1>1 DEF ComponentOf
  <1> HIDE DEF i
  <1>6. QED
    BY <1>2, <1>4, <1>5

\* _check_joins looks at keys only, and that is enough: without fan_out the view of an accepted
\* dataset has one row at most for a row of its base, over all contents whose keys hold.
LEMMA GrainKept ==
    ASSUME joins \in Seq(Joins), Accepted, \A n \in DOMAIN joins : ~joins[n].fanOut,
           NEW c \in Contents, NEW row
    PROVE  Cardinality(ViewRows(Dataset, c, row)) <= 1
  <1>1. /\ Dataset.joins = joins /\ Len(joins) \in Nat /\ DOMAIN joins = 1 .. Len(joins)
        /\ \A n \in 1 .. Len(joins) : JoinOK(Dataset, n)
    BY AcceptedJoins
  <1>2. PICK rows : /\ ViewRows(Dataset, c, row) = rows[Len(joins)]
                    /\ rows[0] = {Found(Dataset, row)}
                    /\ \A n \in 1 .. Len(joins) : rows[n] = Joined(Dataset, c, joins[n], rows[n - 1])
    <2>1. PICK d : d = Dataset
      OBVIOUS
    <2>2. d.joins = joins /\ Len(d.joins) \in Nat
      BY <1>1, <2>1
    <2>3. PICK rows : InTurn(rows, d, c, row)
      BY <2>2, ViewRowsAre
    <2>4. QED
      BY <2>1, <2>2, <2>3 DEF InTurn
  <1> DEFINE Unique == {n \in Nat : n <= Len(joins) => \A x, y \in rows[n] : x = y}
  <1>3. 0 \in Unique
    BY <1>2
  <1>4. ASSUME NEW n \in Nat, n \in Unique PROVE n + 1 \in Unique
    <2>1. SUFFICES ASSUME n + 1 <= Len(joins) PROVE \A x, y \in rows[n + 1] : x = y
      OBVIOUS
    <2>2. /\ n + 1 \in 1 .. Len(joins) /\ n + 1 \in DOMAIN joins /\ (n + 1) - 1 = n /\ n <= Len(joins)
      BY <1>1, <2>1
    <2>3. JoinOK(Dataset, n + 1) /\ ~joins[n + 1].fanOut
      BY <1>1, <2>2
    <2>4. joins[n + 1].component \in NamesOf(Dataset) /\ CoversKey(Dataset, joins[n + 1])
      BY <1>1, <2>3 DEF JoinOK, KeepsGrain
    <2>5. \A f, g \in rows[n] : f = g
      BY <1>4, <2>2
    <2>6. rows[n + 1] = Joined(Dataset, c, joins[n + 1], rows[n])
      BY <1>2, <2>2
    <2>7. QED
      BY <2>4, <2>5, <2>6, ContentsOfComponents, JoinedIsUnique
  <1> HIDE DEF Unique
  <1>5. \A n \in Nat : n \in Unique
    BY <1>3, <1>4, InductionOnSet
  <1>6. \A x, y \in ViewRows(Dataset, c, row) : x = y
    BY <1>1, <1>2, <1>5 DEF Unique
  <1>7. QED
    BY <1>6, OneAtMost

-------------------------------------------------------------------------------
(* Orphans *)

\* The orphans of the first m joins.
CountUpTo(count, d, contents, m) ==
    count = [n \in 0 .. m |-> IF n = 0 THEN 0 ELSE count[n - 1] + Orphans(d, contents, d.joins[n])]

\* They can be counted for every number of joins.
LEMMA CountExists ==
    ASSUME NEW d, NEW contents
    PROVE  \A m \in Nat : \E count : CountUpTo(count, d, contents, m)
  <1> DEFINE After(n, found) == found + Orphans(d, contents, d.joins[n])
             UpTo(count, m) == count = [n \in 0 .. m |-> IF n = 0 THEN 0 ELSE After(n, count[n - 1])]
             Reached == {m \in Nat : \E count : UpTo(count, m)}
  <1> HIDE DEF After
  <1>1. 0 \in Reached
    <2>1. PICK f : f = [n \in 0 .. 0 |-> 0]
      OBVIOUS
    <2>2. f = [n \in 0 .. 0 |-> IF n = 0 THEN 0 ELSE After(n, f[n - 1])]
      BY <2>1
    <2>3. QED
      BY <2>2
  <1>2. ASSUME NEW m \in Nat, m \in Reached PROVE m + 1 \in Reached
    <2>1. PICK f : UpTo(f, m)
      BY <1>2
    <2>2. PICK g : g = [n \in 0 .. m + 1 |-> IF n = m + 1 THEN After(m + 1, f[m]) ELSE f[n]]
      OBVIOUS
    <2>3. ASSUME NEW n \in 0 .. m + 1 PROVE g[n] = IF n = 0 THEN 0 ELSE After(n, g[n - 1])
      BY <2>1, <2>2, <2>3
    <2>4. g = [n \in 0 .. m + 1 |-> g[n]]
      BY <2>2
    <2>5. UpTo(g, m + 1)
      BY <2>3, <2>4
    <2>6. QED
      BY <2>5
  <1> HIDE DEF Reached
  <1>3. \A m \in Nat : m \in Reached
    BY <1>1, <1>2, InductionOnSet
  <1>4. QED
    BY <1>3 DEF Reached, CountUpTo, After

\* If they are natural numbers whose sum is 0, each of them is 0.
LEMMA NoOrphanInAny ==
    ASSUME NEW d, Len(d.joins) \in Nat, NEW contents,
           \A n \in 1 .. Len(d.joins) : Orphans(d, contents, d.joins[n]) \in Nat,
           OrphanCount(d, contents) = 0
    PROVE  \A n \in 1 .. Len(d.joins) : Orphans(d, contents, d.joins[n]) = 0
  <1> DEFINE all == CHOOSE count : CountUpTo(count, d, contents, Len(d.joins))
             O(n) == Orphans(d, contents, d.joins[n])
             last == Len(d.joins)
  <1>1. last \in Nat /\ CountUpTo(all, d, contents, last)
    BY CountExists
  <1>2. all[last] = 0
    BY Zenon DEF OrphanCount, CountUpTo
  <1> HIDE DEF all
  <1>3. \A n \in 0 .. last : all[n] = IF n = 0 THEN 0 ELSE all[n - 1] + O(n)
    BY <1>1 DEF CountUpTo
  <1>4. \A n \in 1 .. last : O(n) \in Nat
    OBVIOUS
  <1> HIDE DEF O
  <1> DEFINE Counted == {n \in Nat : n <= last => all[n] \in Nat}
             Zero == {n \in Nat : n <= last => all[last - n] = 0}
  <1>5. \A n \in Nat : n \in Counted
    <2>1. 0 \in Counted
      BY <1>3
    <2>2. ASSUME NEW n \in Nat, n \in Counted PROVE n + 1 \in Counted
      <3>1. SUFFICES ASSUME n + 1 <= last PROVE all[n + 1] \in Nat
        OBVIOUS
      <3>2. n + 1 \in 1 .. last /\ n + 1 \in 0 .. last /\ (n + 1) - 1 = n /\ n + 1 # 0 /\ n <= last
        BY <3>1
      <3>3. all[n + 1] = all[n] + O(n + 1)
        BY <1>3, <3>2
      <3>4. QED
        BY <1>4, <2>2, <3>2, <3>3
    <2> HIDE DEF Counted
    <2>3. QED
      BY <2>1, <2>2, InductionOnSet
  <1>6. \A n \in 1 .. last : all[n] = all[n - 1] + O(n) /\ all[n - 1] \in Nat /\ O(n) \in Nat
    BY <1>3, <1>4, <1>5
  <1>7. \A n \in Nat : n \in Zero
    <2>1. 0 \in Zero
      BY <1>2
    <2>2. ASSUME NEW n \in Nat, n \in Zero PROVE n + 1 \in Zero
      <3>1. SUFFICES ASSUME n + 1 <= last PROVE all[last - (n + 1)] = 0
        OBVIOUS
      <3>2. last - n \in 1 .. last
        BY <1>1, <3>1
      <3>3. PICK k \in 1 .. last : k = last - n
        BY <3>2
      <3>4. k - 1 = last - (n + 1) /\ all[k] = 0
        BY <1>1, <2>2, <3>1, <3>3
      <3>5. QED
        BY <1>6, <3>4
    <2> HIDE DEF Zero
    <2>3. QED
      BY <2>1, <2>2, InductionOnSet
  <1>8. ASSUME NEW n \in 1 .. last PROVE O(n) = 0
    <2>1. last - n \in Nat /\ last - n <= last /\ last - (last - n) = n
      OBVIOUS
    <2>2. all[n] = 0
      BY <1>7, <2>1
    <2>3. QED
      BY <1>6, <2>2
  <1>9. QED
    BY <1>8 DEF O

\* The orphans of a join over finite tables are a number, and if an inner join has none, each row of
\* the one table has a match in the other.
LEMMA OrphansCounted ==
    ASSUME NEW d, NEW contents, NEW join, IsFiniteSet(contents[LeftOf(d, join)])
    PROVE  /\ Orphans(d, contents, join) \in Nat
           /\ Orphans(d, contents, join) = 0 /\ join.type = "inner" =>
                  \A l \in contents[LeftOf(d, join)] : \E r \in contents[join.component] : Matches(join, l, r)
  <1> DEFINE lost == Lost(contents[LeftOf(d, join)], contents[join.component], join)
             KeyOf(l) == [c \in {p[1] : p \in join.on} |-> l[c]]
             keys == {KeyOf(l) : l \in lost}
  <1>1. IsFiniteSet(lost)
    BY FS_Subset DEF Lost
  <1> HIDE DEF KeyOf
  <1>2. IsFiniteSet(keys)
    <2> DEFINE f == [l \in lost |-> KeyOf(l)]
    <2>1. f \in Surjection(lost, keys)
      BY DEF Surjection
    <2>2. QED
      BY <1>1, <2>1, FS_Surjection
  <1>3. Cardinality(keys) \in Nat /\ (Cardinality(keys) = 0 <=> keys = {})
    BY <1>2, FS_CardinalityType, FS_EmptySet
  <1>4. Orphans(d, contents, join) = IF join.type # "inner" THEN 0 ELSE Cardinality(keys)
    BY Zenon DEF Orphans, KeyOf
  <1>5. keys = {} => lost = {}
    OBVIOUS
  <1>6. lost = {} => \A l \in contents[LeftOf(d, join)] : \E r \in contents[join.component] : Matches(join, l, r)
    BY DEF Lost
  <1> HIDE DEF lost, keys
  <1>7. QED
    BY <1>3, <1>4, <1>5, <1>6

\* The row of each component that a row of the view is made of: one of its rows, or NULL after a left join.
FoundIn(d, c, n, found) ==
    /\ DOMAIN found = JoinedBy(d, n)
    /\ \A name \in JoinedBy(d, n) : found[name] \in c[name] \/ (found[name] = None /\ LeftJoined(name))

\* A row is joined by a join that has no orphans, unless it starts from a component that was left joined.
LEMMA JoinKeeps ==
    ASSUME NEW d, NEW c, NEW n \in Nat, NEW join, join = d.joins[n + 1], JoinOK(d, n + 1),
           join.type = "inner" => ~LeftJoined(LeftOf(d, join)),
           join.type = "inner" =>
               \A l \in c[LeftOf(d, join)] : \E r \in c[join.component] : Matches(join, l, r),
           join.type = "left" => LeftJoined(join.component),
           None \notin c[LeftOf(d, join)],
           NEW found, FoundIn(d, c, n, found)
    PROVE  /\ Matching(d, c, join, found) # {}
           /\ \A r \in Matching(d, c, join, found) : FoundIn(d, c, n + 1, With(found, join.component, r))
  <1>1. /\ LeftOf(d, join) \in JoinedBy(d, n) /\ join.component \notin JoinedBy(d, n)
        /\ join.type \in {"inner", "left"}
    <2>1. (n + 1) - 1 = n
      OBVIOUS
    <2>2. QED
      BY <2>1 DEF JoinOK
  <1>2. JoinedBy(d, n + 1) = JoinedBy(d, n) \union {join.component}
    <2>1. {d.joins[i].component : i \in 1 .. n + 1}
            = {d.joins[i].component : i \in 1 .. n} \union {d.joins[n + 1].component}
      <3>1. 1 .. n + 1 = 1 .. n \union {n + 1}
        OBVIOUS
      <3>2. QED
        BY <3>1
    <2>2. QED
      BY <2>1 DEF JoinedBy
  <1> DEFINE left == found[LeftOf(d, join)]
             matching == IF left = None THEN {} ELSE {r \in c[join.component] : Matches(join, left, r)}
  <1>3. Matching(d, c, join, found) = IF matching = {} /\ join.type = "left" THEN {None} ELSE matching
    BY DEF Matching
  <1>4. Matching(d, c, join, found) # {}
    <2>1. CASE join.type = "left"
      BY <1>3, <2>1
    <2>2. CASE join.type = "inner"
      <3>1. left \in c[LeftOf(d, join)]
        BY <1>1, <2>2 DEF FoundIn
      <3>2. PICK r \in c[join.component] : Matches(join, left, r)
        BY <2>2, <3>1
      <3>3. left # None
        BY <3>1
      <3>4. matching # {}
        BY <3>2, <3>3
      <3>5. QED
        BY <1>3, <3>4
    <2>3. QED
      BY <1>1, <2>1, <2>2
  <1>5. ASSUME NEW r \in Matching(d, c, join, found)
        PROVE  r \in c[join.component] \/ (r = None /\ join.type = "left")
    BY <1>3, <1>5
  <1>6. ASSUME NEW r \in Matching(d, c, join, found), NEW g, g = With(found, join.component, r)
        PROVE  FoundIn(d, c, n + 1, g)
    <2>1. /\ DOMAIN g = JoinedBy(d, n) \union {join.component}
          /\ g[join.component] = r
          /\ \A name \in JoinedBy(d, n) : g[name] = found[name]
      BY <1>1, <1>6 DEF FoundIn, With
    <2>2. QED
      BY <1>2, <1>5, <2>1 DEF FoundIn
  <1>7. QED
    BY <1>4, <1>6

\* With no orphans counted each row of the base stays in the view, through any number of joins.
LEMMA RowKept ==
    ASSUME joins \in Seq(Joins), Accepted,
           \A n \in DOMAIN joins : joins[n].type = "inner" => ~LeftJoined(LeftOf(Dataset, joins[n])),
           NEW c \in Contents, OrphanCount(Dataset, c) = 0, NEW row \in c[Dataset.base]
    PROVE  ViewRows(Dataset, c, row) # {}
  <1>1. PICK d : d = Dataset
    OBVIOUS
  <1>2. /\ d.joins = joins /\ Len(joins) \in Nat /\ DOMAIN joins = 1 .. Len(joins)
        /\ d.base \in NamesOf(d)
        /\ \A n \in 1 .. Len(joins) : JoinOK(d, n)
    BY <1>1, AcceptedJoins
  <1>3. \A name \in NamesOf(d) : IsFiniteSet(c[name]) /\ None \notin c[name]
    <2>1. NamesOf(d) = Names
      BY <1>1 DEF NamesOf, Names, Dataset
    <2>2. \A name \in NamesOf(d) : c[name] \in Tables[name]
      BY <1>1, ContentsOfComponents
    <2>3. QED
      BY <2>1, <2>2, TablesAssumption
  <1>4. \A n \in 0 .. Len(joins) : JoinedBy(d, n) \subseteq NamesOf(d)
    BY <1>2 DEF JoinedBy, JoinOK
  <1>5. ASSUME NEW n \in 1 .. Len(joins) PROVE LeftOf(d, joins[n]) \in NamesOf(d)
    BY <1>2, <1>4, <1>5 DEF JoinOK
  <1>6. ASSUME NEW n \in 1 .. Len(joins)
        PROVE  /\ Orphans(d, c, joins[n]) \in Nat
               /\ Orphans(d, c, joins[n]) = 0 /\ joins[n].type = "inner" =>
                    \A l \in c[LeftOf(d, joins[n])] : \E r \in c[joins[n].component] : Matches(joins[n], l, r)
    BY <1>3, <1>5, <1>6, OrphansCounted
  <1>7. \A n \in 1 .. Len(joins) : Orphans(d, c, joins[n]) = 0
    BY <1>1, <1>2, <1>6, NoOrphanInAny
  <1>8. PICK rows : InTurn(rows, d, c, row)
    BY <1>2, ViewRowsAre
  <1>9. /\ ViewRows(d, c, row) = rows[Len(joins)]
        /\ rows[0] = {Found(d, row)}
        /\ \A n \in 1 .. Len(joins) : rows[n] = Joined(d, c, joins[n], rows[n - 1])
    BY <1>2, <1>8 DEF InTurn
  <1> DEFINE Stays == {n \in Nat : n <= Len(joins) => rows[n] # {} /\ \A f \in rows[n] : FoundIn(d, c, n, f)}
  <1>10. 0 \in Stays
    <2>1. JoinedBy(d, 0) = {d.base}
      BY DEF JoinedBy
    <2>2. FoundIn(d, c, 0, Found(d, row))
      BY <1>1, <2>1 DEF FoundIn, Found
    <2>3. QED
      BY <1>9, <2>2
  <1>11. ASSUME NEW n \in Nat, n \in Stays PROVE n + 1 \in Stays
    <2>1. SUFFICES ASSUME n + 1 <= Len(joins)
                   PROVE  rows[n + 1] # {} /\ \A f \in rows[n + 1] : FoundIn(d, c, n + 1, f)
      OBVIOUS
    <2>2. /\ n + 1 \in 1 .. Len(joins) /\ n + 1 \in DOMAIN joins /\ (n + 1) - 1 = n /\ n <= Len(joins)
      BY <1>2, <2>1
    <2>3. PICK join : join = joins[n + 1]
      OBVIOUS
    <2>4. rows[n + 1] = Joined(d, c, join, rows[n])
      BY <1>9, <2>2, <2>3
    <2>5. rows[n] # {} /\ \A f \in rows[n] : FoundIn(d, c, n, f)
      BY <1>11, <2>2
    <2>6. /\ join = d.joins[n + 1] /\ JoinOK(d, n + 1)
          /\ join.type = "inner" => ~LeftJoined(LeftOf(d, join))
          /\ None \notin c[LeftOf(d, join)]
      BY <1>1, <1>2, <1>3, <1>5, <2>2, <2>3
    <2>7. join.type = "inner" =>
              \A l \in c[LeftOf(d, join)] : \E r \in c[join.component] : Matches(join, l, r)
      BY <1>6, <1>7, <2>2, <2>3
    <2>8. join.type = "left" => LeftJoined(join.component)
      BY <2>2, <2>3 DEF LeftJoined
    <2>9. ASSUME NEW f \in rows[n]
          PROVE  /\ Matching(d, c, join, f) # {}
                 /\ \A r \in Matching(d, c, join, f) : FoundIn(d, c, n + 1, With(f, join.component, r))
      BY <2>5, <2>6, <2>7, <2>8, <2>9, JoinKeeps
    <2>10. rows[n + 1] # {}
      <3>1. PICK f \in rows[n] : TRUE
        BY <2>5
      <3>2. PICK r \in Matching(d, c, join, f) : TRUE
        BY <2>9, <3>1
      <3>3. With(f, join.component, r) \in Joined(d, c, join, rows[n])
        BY <3>1, <3>2 DEF Joined
      <3>4. QED
        BY <2>4, <3>3
    <2>11. ASSUME NEW g \in rows[n + 1] PROVE FoundIn(d, c, n + 1, g)
      <3>1. PICK f \in rows[n] : \E r \in Matching(d, c, join, f) : g = With(f, join.component, r)
        BY <2>4, <2>11, Zenon DEF Joined
      <3>2. QED
        BY <2>9, <3>1
    <2>12. QED
      BY <2>10, <2>11
  <1> HIDE DEF Stays
  <1>12. \A n \in Nat : n \in Stays
    BY <1>10, <1>11, InductionOnSet
  <1>13. QED
    BY <1>1, <1>2, <1>9, <1>12 DEF Stays

-------------------------------------------------------------------------------
(* The theorems about datasets *)

\* The joins that were read.
JoinsRead == joins \in Seq(Joins)

\* They are a sequence of those there are.
LEMMA JoinsAreRead == Spec => []JoinsRead
  <1>1. Init => JoinsRead
    BY DEF Init, JoinsRead
  <1>2. JoinsRead /\ [Next]_vars => JoinsRead'
    <2>1. ASSUME JoinsRead, NEW join \in Joins, ReadJoin(join) PROVE JoinsRead'
      BY <2>1 DEF JoinsRead, ReadJoin
    <2>2. ASSUME JoinsRead, UNCHANGED joins PROVE JoinsRead'
      BY <2>2 DEF JoinsRead
    <2>3. ASSUME [Next]_vars PROVE UNCHANGED joins \/ \E join \in Joins : ReadJoin(join)
      BY <2>3 DEF Next, ReadReference, ReadRow, vars
    <2>4. QED
      BY <2>1, <2>2, <2>3
  <1>3. QED
    BY <1>1, <1>2, PTL DEF Spec

\* Whatever joins a manifest declares and however many.
THEOREM ViewsKeepTheirGrain == Spec => []JoinsKeepGrain
  <1>1. JoinsRead => JoinsKeepGrain
    BY GrainKept DEF JoinsKeepGrain, JoinsRead
  <1>2. QED
    BY <1>1, JoinsAreRead, PTL

\* Whatever joins a manifest declares, however many, over tables of any size.
THEOREM RowsAreKept == Spec => []RowsKeptUnlessLeft
  <1>1. JoinsRead => RowsKeptUnlessLeft
    <2>1. SUFFICES ASSUME joins \in Seq(Joins), Accepted,
                          \A n \in DOMAIN joins : joins[n].type = "inner" => ~LeftJoined(LeftOf(Dataset, joins[n])),
                          NEW c \in Contents, OrphanCount(Dataset, c) = 0
                   PROVE  Kept(c)
      BY DEF RowsKeptUnlessLeft, JoinsRead
    <2>2. QED
      BY <2>1, RowKept DEF Kept
  <1>2. QED
    BY <1>1, JoinsAreRead, PTL

-------------------------------------------------------------------------------
(* Bags and their counts *)

Bag(bag) == IsFiniteSet(DOMAIN bag) /\ bag \in [DOMAIN bag -> Nat \ {0}]

\* What is in a bag of some of its members.
Part(bag, some) == [x \in some |-> bag[x]]

\* The copies of its members.
Copies(bag) == UNION {{x} \X (1 .. bag[x]) : x \in DOMAIN bag}

\* A part of a bag is one.
LEMMA PartIsBag ==
    ASSUME NEW bag, Bag(bag), NEW some, some \subseteq DOMAIN bag
    PROVE  /\ Bag(Part(bag, some)) /\ DOMAIN Part(bag, some) = some
           /\ \A x \in some : Part(bag, some)[x] = bag[x]
  <1>1. IsFiniteSet(some)
    BY FS_Subset DEF Bag
  <1>2. QED
    BY <1>1 DEF Bag, Part

\* The copies are those of the members.
LEMMA CopyOf ==
    ASSUME NEW bag, Bag(bag)
    PROVE  \A p : p \in Copies(bag) <=>
               /\ p = <<p[1], p[2]>> /\ p[1] \in DOMAIN bag /\ p[2] \in 1 .. bag[p[1]]
  BY DEF Copies

\* The count of a bag is that of its copies, a number.
LEMMA CountIs ==
    ASSUME NEW bag, Bag(bag)
    PROVE  /\ IsFiniteSet(Copies(bag)) /\ Verify!Count(bag) = Cardinality(Copies(bag))
           /\ Verify!Count(bag) \in Nat
  <1> DEFINE pairs == [x \in DOMAIN bag |-> {x} \X (1 .. bag[x])]
             Pairs == {{x} \X (1 .. bag[x]) : x \in DOMAIN bag}
  <1>1. IsFiniteSet(Pairs)
    <2>1. pairs \in Surjection(DOMAIN bag, Pairs)
      BY DEF Surjection
    <2>2. IsFiniteSet(DOMAIN bag)
      BY DEF Bag
    <2> HIDE DEF pairs, Pairs
    <2>3. QED
      BY <2>1, <2>2, FS_Surjection
  <1>2. ASSUME NEW T \in Pairs PROVE IsFiniteSet(T)
    <2>1. PICK x \in DOMAIN bag : T = {x} \X (1 .. bag[x])
      OBVIOUS
    <2>2. IsFiniteSet({x})
      BY FS_Singleton
    <2>3. IsFiniteSet(1 .. bag[x])
      <3>1. bag[x] \in Int
        BY DEF Bag
      <3>2. QED
        BY <3>1, FS_Interval
    <2>4. QED
      BY <2>1, <2>2, <2>3, FS_Product
  <1>3. IsFiniteSet(UNION Pairs)
    <2> HIDE DEF Pairs
    <2>1. QED
      BY <1>1, <1>2, FS_UNION
  <1>4. Copies(bag) = UNION Pairs /\ Verify!Count(bag) = Cardinality(UNION Pairs)
    <2>1. \A S : Verify!Cardinality(S) = Cardinality(S)
      BY Zenon DEF Verify!Cardinality, Cardinality
    <2>2. Verify!Count(bag) = Verify!Cardinality(UNION Pairs)
      BY DEF Verify!Count
    <2>3. QED
      BY <2>1, <2>2 DEF Copies
  <1> HIDE DEF Pairs
  <1>5. QED
    BY <1>3, <1>4, FS_CardinalityType

\* A bag of nothing counts nothing; one of one member counts its copies.
LEMMA CountOne ==
    ASSUME NEW bag, Bag(bag)
    PROVE  /\ Verify!Count(Part(bag, {})) = 0
           /\ \A x \in DOMAIN bag : Verify!Count(Part(bag, {x})) = bag[x]
  <1>1. Verify!Count(Part(bag, {})) = 0
    <2>1. Bag(Part(bag, {})) /\ DOMAIN Part(bag, {}) = {}
      BY PartIsBag
    <2>2. Copies(Part(bag, {})) = {}
      BY <2>1 DEF Copies
    <2>3. QED
      BY <2>1, <2>2, CountIs, FS_EmptySet
  <1>2. ASSUME NEW x \in DOMAIN bag PROVE Verify!Count(Part(bag, {x})) = bag[x]
    <2>1. Bag(Part(bag, {x})) /\ DOMAIN Part(bag, {x}) = {x} /\ Part(bag, {x})[x] = bag[x]
      BY PartIsBag
    <2>2. Copies(Part(bag, {x})) = {x} \X (1 .. bag[x])
      BY <2>1 DEF Copies
    <2>3. PICK n \in Nat : n = bag[x]
      BY DEF Bag
    <2>4. IsFiniteSet(1 .. n) /\ Cardinality(1 .. n) = n
      BY FS_Interval
    <2>5. IsFiniteSet({x}) /\ Cardinality({x}) = 1
      BY FS_Singleton
    <2>6. Cardinality({x} \X (1 .. n)) = Cardinality({x}) * Cardinality(1 .. n)
      BY <2>4, <2>5, FS_Product
    <2>7. 1 * n = n
      OBVIOUS
    <2>8. QED
      BY <2>1, <2>2, <2>3, <2>4, <2>5, <2>6, <2>7, CountIs
  <1>3. QED
    BY <1>1, <1>2

\* The counts of a part and of the rest add up.
LEMMA CountSplits ==
    ASSUME NEW bag, Bag(bag), NEW some, some \subseteq DOMAIN bag
    PROVE  Verify!Count(bag) = Verify!Count(Part(bag, some)) + Verify!Count(Part(bag, DOMAIN bag \ some))
  <1>1. PICK one : one = Part(bag, some)
    OBVIOUS
  <1>2. PICK two : two = Part(bag, DOMAIN bag \ some)
    OBVIOUS
  <1>3. /\ Bag(one) /\ DOMAIN one = some /\ \A x \in some : one[x] = bag[x]
        /\ Bag(two) /\ DOMAIN two = DOMAIN bag \ some /\ \A x \in DOMAIN bag \ some : two[x] = bag[x]
    BY <1>1, <1>2, PartIsBag
  <1>4. Copies(bag) = Copies(one) \union Copies(two) /\ Copies(one) \intersect Copies(two) = {}
    BY <1>3 DEF Copies
  <1>5. /\ IsFiniteSet(Copies(one)) /\ Verify!Count(one) = Cardinality(Copies(one)) /\ Verify!Count(one) \in Nat
        /\ IsFiniteSet(Copies(two)) /\ Verify!Count(two) = Cardinality(Copies(two)) /\ Verify!Count(two) \in Nat
        /\ Verify!Count(bag) = Cardinality(Copies(bag))
    BY <1>3, CountIs
  <1>6. Cardinality(Copies(one) \union Copies(two))
            = Cardinality(Copies(one)) + Cardinality(Copies(two)) - Cardinality(Copies(one) \intersect Copies(two))
    BY <1>5, FS_Union
  <1>7. Cardinality(Copies(one) \intersect Copies(two)) = 0
    BY <1>4, FS_EmptySet
  <1>8. QED
    BY <1>1, <1>2, <1>4, <1>5, <1>6, <1>7

\* Part by part: one member more.
LEMMA CountTakes ==
    ASSUME NEW bag, Bag(bag), NEW some, some \subseteq DOMAIN bag, NEW x, x \in some
    PROVE  /\ Verify!Count(Part(bag, some)) = bag[x] + Verify!Count(Part(bag, some \ {x}))
           /\ Verify!Count(Part(bag, some)) \in Nat /\ bag[x] \in Nat /\ bag[x] >= 1
           /\ Verify!Count(Part(bag, some \ {x})) \in Nat
  <1>1. PICK part : part = Part(bag, some)
    OBVIOUS
  <1>2. Bag(part) /\ DOMAIN part = some /\ part[x] = bag[x]
    BY <1>1, PartIsBag
  <1>3. Part(part, {x}) = Part(bag, {x}) /\ Part(part, some \ {x}) = Part(bag, some \ {x})
    BY <1>1 DEF Part
  <1>4. Verify!Count(part) = Verify!Count(Part(part, {x})) + Verify!Count(Part(part, some \ {x}))
    BY <1>2, CountSplits
  <1>5. Verify!Count(Part(bag, {x})) = bag[x]
    BY CountOne
  <1>6. Bag(Part(bag, some \ {x}))
    BY PartIsBag
  <1>7. QED
    BY <1>1, <1>2, <1>3, <1>4, <1>5, <1>6, CountIs DEF Bag

\* A bag whose members are renamed counts the same.
LEMMA CountRenamed ==
    ASSUME NEW bag, Bag(bag), NEW other, Bag(other),
           NEW f, f \in Bijection(DOMAIN bag, DOMAIN other), \A x \in DOMAIN bag : other[f[x]] = bag[x]
    PROVE  Verify!Count(bag) = Verify!Count(other)
  <1>1. /\ f \in [DOMAIN bag -> DOMAIN other]
        /\ \A x, y \in DOMAIN bag : f[x] = f[y] => x = y
        /\ \A y \in DOMAIN other : \E x \in DOMAIN bag : f[x] = y
    BY DEF Bijection, Injection, Surjection, IsInjective
  <1>2. PICK g : g = [p \in Copies(bag) |-> <<f[p[1]], p[2]>>]
    OBVIOUS
  <1>3. ASSUME NEW p \in Copies(bag)
        PROVE  p = <<p[1], p[2]>> /\ p[1] \in DOMAIN bag /\ g[p] = <<f[p[1]], p[2]>> /\ g[p] \in Copies(other)
    <2>1. p = <<p[1], p[2]>> /\ p[1] \in DOMAIN bag /\ p[2] \in 1 .. bag[p[1]]
      BY CopyOf
    <2>2. g[p] = <<f[p[1]], p[2]>> /\ f[p[1]] \in DOMAIN other /\ other[f[p[1]]] = bag[p[1]]
      BY <1>1, <1>2, <2>1
    <2>3. g[p] \in Copies(other)
      BY <2>1, <2>2, CopyOf
    <2>4. QED
      BY <2>1, <2>2, <2>3
  <1>4. g \in [Copies(bag) -> Copies(other)]
    BY <1>2, <1>3
  <1>5. ASSUME NEW p \in Copies(bag), NEW q \in Copies(bag), g[p] = g[q] PROVE p = q
    <2>1. f[p[1]] = f[q[1]] /\ p[2] = q[2]
      BY <1>3, <1>5
    <2>2. p[1] = q[1]
      BY <1>1, <1>3, <2>1
    <2>3. QED
      BY <1>3, <2>1, <2>2
  <1>6. ASSUME NEW q \in Copies(other) PROVE \E p \in Copies(bag) : g[p] = q
    <2>1. q = <<q[1], q[2]>> /\ q[1] \in DOMAIN other /\ q[2] \in 1 .. other[q[1]]
      BY CopyOf
    <2>2. PICK x \in DOMAIN bag : f[x] = q[1]
      BY <1>1, <2>1
    <2>3. PICK p : p = <<x, q[2]>>
      OBVIOUS
    <2>4. p[1] = x /\ p[2] = q[2] /\ p = <<p[1], p[2]>> /\ p[2] \in 1 .. bag[p[1]]
      BY <2>1, <2>2, <2>3
    <2>5. p \in Copies(bag)
      BY <2>4, CopyOf
    <2>6. QED
      BY <1>2, <2>1, <2>2, <2>4, <2>5
  <1>7. g \in Bijection(Copies(bag), Copies(other))
    BY <1>4, <1>5, <1>6 DEF Bijection, Injection, Surjection, IsInjective
  <1>8. QED
    BY <1>7, CountIs, FS_Bijection DEF ExistsBijection

-------------------------------------------------------------------------------
(* The theorems about comparisons *)

\* A bag of rows that can be compared.
IsRows(rows) ==
    /\ Bag(rows)
    /\ \A row \in DOMAIN rows : /\ row = [column \in {"key", "value"} |-> row[column]]
                                /\ row["value"] \in Int \union {None}

\* The rows that were read.
RowsRead == compared \in [{"reference", "view"} -> {compared["reference"], compared["view"]}]
            /\ \A side \in {"reference", "view"} : IsRows(compared[side])

\* One row more leaves a bag of rows.
LEMMA RowAdded ==
    ASSUME NEW rows, IsRows(rows), NEW row \in RowsToCompare
    PROVE  IsRows(rows (+) SetToBag({row}))
  <1>1. PICK more : more = rows (+) SetToBag({row})
    OBVIOUS
  <1>2. DOMAIN SetToBag({row}) = {row} /\ SetToBag({row})[row] = 1
    BY DEF SetToBag
  <1>3. more = [e \in DOMAIN rows \union {row} |-> (IF e \in DOMAIN rows THEN rows[e] ELSE 0)
                                                   + (IF e \in {row} THEN SetToBag({row})[e] ELSE 0)]
    BY <1>1, <1>2 DEF (+)
  <1>4. DOMAIN more = DOMAIN rows \union {row}
    BY <1>3
  <1>5. ASSUME NEW e \in DOMAIN more PROVE more[e] \in Nat \ {0}
    <2>1. e \in DOMAIN rows => rows[e] \in Nat \ {0}
      BY DEF IsRows, Bag
    <2>2. e \in DOMAIN rows \/ e = row
      BY <1>4
    <2>3. QED
      BY <1>2, <1>3, <1>4, <2>1, <2>2
  <1>6. IsFiniteSet(DOMAIN more)
    BY <1>4, FS_AddElement DEF IsRows, Bag
  <1>7. more \in [DOMAIN more -> Nat \ {0}]
    BY <1>3, <1>5
  <1>8. QED
    BY <1>1, <1>4, <1>6, <1>7, RowsAssumption DEF IsRows, Bag

\* They are bags of rows.
LEMMA RowsAreRead == Spec => []RowsRead
  <1>1. Init => RowsRead
    <2>1. SUFFICES ASSUME Init PROVE RowsRead
      OBVIOUS
    <2>2. Bag(EmptyBag) /\ DOMAIN EmptyBag = {}
      BY FS_EmptySet DEF EmptyBag, SetToBag, Bag
    <2>3. IsRows(EmptyBag)
      BY <2>2 DEF IsRows
    <2>4. QED
      BY <2>1, <2>3 DEF Init, RowsRead
  <1>2. RowsRead /\ [Next]_vars => RowsRead'
    <2>1. ASSUME RowsRead, NEW side \in DOMAIN compared, NEW row \in RowsToCompare, ReadRow(side, row)
          PROVE  RowsRead'
      <3>1. compared' = [compared EXCEPT ![side] = compared[side] (+) SetToBag({row})]
        BY <2>1 DEF ReadRow
      <3>2. side \in {"reference", "view"} /\ IsRows(compared[side] (+) SetToBag({row}))
        BY <2>1, RowAdded DEF RowsRead
      <3>3. QED
        BY <2>1, <3>1, <3>2 DEF RowsRead
    <2>2. ASSUME RowsRead, UNCHANGED compared PROVE RowsRead'
      BY <2>2 DEF RowsRead
    <2>3. ASSUME [Next]_vars
          PROVE  UNCHANGED compared \/ \E side \in DOMAIN compared, row \in RowsToCompare : ReadRow(side, row)
      BY <2>3 DEF Next, ReadReference, ReadJoin, vars
    <2>4. QED
      BY <2>1, <2>2, <2>3
  <1>3. QED
    BY <1>1, <1>2, PTL DEF Spec

\* A batch of rows is a part of them.
LEMMA BatchIs ==
    ASSUME NEW relation, IsRows(relation.rows), NEW keys
    PROVE  /\ IsRows(Verify!Batch(relation, "key", keys))
           /\ \A row : row \in DOMAIN Verify!Batch(relation, "key", keys)
                        <=> row \in DOMAIN relation.rows /\ row["key"] \in keys
           /\ \A row \in DOMAIN Verify!Batch(relation, "key", keys) :
                Verify!Batch(relation, "key", keys)[row] = relation.rows[row]
  <1>1. Verify!Batch(relation, "key", keys)
            = Part(relation.rows, {row \in DOMAIN relation.rows : row["key"] \in keys})
    BY DEF Verify!Batch, Verify!Restrict, Part
  <1>2. QED
    BY <1>1, PartIsBag DEF IsRows

\* Each key is in a batch.
LEMMA KeyInBatch ==
    ASSUME NEW original, NEW view, NEW size, NEW row, row \in DOMAIN original.rows \union DOMAIN view.rows
    PROVE  \E keys \in Verify!Batches(Verify!KeysOf(original, view, "key"), size) \union {{None}} :
            row["key"] \in keys
  <1>1. PICK all : all = Verify!KeysOf(original, view, "key")
    OBVIOUS
  <1>2. row["key"] = None \/ row["key"] \in all
    BY <1>1 DEF Verify!KeysOf
  <1>3. ASSUME NEW k \in all PROVE \E keys \in Verify!Batches(all, size) : k \in keys
    <2> DEFINE position == CHOOSE f \in [all -> 1 .. Verify!Cardinality(all)] : Verify!IsInjective(f)
               BatchOf(x) == (position[x] - 1) \div size
    <2>1. Verify!Batches(all, size) = {{l \in all : BatchOf(l) = BatchOf(x)} : x \in all}
      BY DEF Verify!Batches
    <2> HIDE DEF position, BatchOf
    <2>2. k \in {l \in all : BatchOf(l) = BatchOf(k)}
      BY <1>3
    <2>3. QED
      BY <1>3, <2>1, <2>2
  <1>4. QED
    BY <1>1, <1>2, <1>3

\* Counted by all of their columns, rows are themselves.
LEMMA OverAll ==
    ASSUME NEW rows, IsRows(rows)
    PROVE  Verify!Over(rows, {"key", "value"}) = rows
  <1>1. PICK part : part = [row \in DOMAIN rows |-> Verify!Restrict(row, {"key", "value"})]
    OBVIOUS
  <1>2. ASSUME NEW row \in DOMAIN rows PROVE part[row] = row
    BY <1>1 DEF IsRows, Verify!Restrict
  <1>3. DOMAIN part = DOMAIN rows /\ Verify!Range(part) = DOMAIN rows
    BY <1>1, <1>2 DEF Verify!Range
  <1>4. ASSUME NEW value \in DOMAIN rows
        PROVE  Verify!Count(Verify!Restrict(rows, {row \in DOMAIN rows : part[row] = value})) = rows[value]
    <2>1. {row \in DOMAIN rows : part[row] = value} = {value}
      BY <1>2
    <2>2. Verify!Restrict(rows, {value}) = Part(rows, {value})
      BY DEF Verify!Restrict, Part
    <2>3. QED
      BY <2>1, <2>2, CountOne DEF IsRows
  <1>5. Verify!Over(rows, {"key", "value"})
            = [value \in DOMAIN rows |->
                Verify!Count(Verify!Restrict(rows, {row \in DOMAIN rows : part[row] = value}))]
    BY <1>1, <1>3 DEF Verify!Over, Verify!CountBy
  <1>6. rows = [value \in DOMAIN rows |-> rows[value]]
    BY DEF IsRows, Bag
  <1>7. [value \in DOMAIN rows |->
            Verify!Count(Verify!Restrict(rows, {row \in DOMAIN rows : part[row] = value}))]
        = [value \in DOMAIN rows |-> rows[value]]
    BY <1>4
  <1>8. QED
    BY <1>5, <1>6, <1>7

\* Rows whose batches are equal are equal.
LEMMA BatchesEqual ==
    ASSUME NEW original, NEW one, one = original.rows, IsRows(one),
           NEW view, NEW two, two = view.rows, IsRows(two), NEW size,
           \A keys \in Verify!Batches(Verify!KeysOf(original, view, "key"), size) \union {{None}} :
                Verify!Batch(original, "key", keys) = Verify!Batch(view, "key", keys)
    PROVE  one = two
  <1>1. ASSUME NEW row, row \in DOMAIN one \union DOMAIN two
        PROVE  row \in DOMAIN one /\ row \in DOMAIN two /\ one[row] = two[row]
    <2>1. PICK keys : /\ row["key"] \in keys
                      /\ Verify!Batch(original, "key", keys) = Verify!Batch(view, "key", keys)
      BY <1>1, KeyInBatch
    <2>2. PICK batch : batch = Verify!Batch(original, "key", keys) /\ batch = Verify!Batch(view, "key", keys)
      BY <2>1
    <2>3. /\ row \in DOMAIN batch <=> row \in DOMAIN one /\ row["key"] \in keys
          /\ row \in DOMAIN batch => batch[row] = one[row]
      BY ONLY <2>2, one = original.rows, IsRows(one), BatchIs
    <2>4. /\ row \in DOMAIN batch <=> row \in DOMAIN two /\ row["key"] \in keys
          /\ row \in DOMAIN batch => batch[row] = two[row]
      BY ONLY <2>2, two = view.rows, IsRows(two), BatchIs
    <2>5. QED
      BY <1>1, <2>1, <2>3, <2>4
  <1>2. DOMAIN one = DOMAIN two
    BY <1>1
  <1>3. one = [row \in DOMAIN one |-> one[row]] /\ two = [row \in DOMAIN two |-> two[row]]
    BY DEF IsRows, Bag
  <1>4. QED
    BY <1>1, <1>2, <1>3

\* Over any rows, for any size of the batches, compare_batched gives the verdict of one comparison.
THEOREM BatchesAreExact == Spec => []BatchedVerdictExact
  <1>1. RowsRead => BatchedVerdictExact
    <2>1. SUFFICES ASSUME RowsRead, NEW size
                   PROVE  Verify!BatchesAgree(Relation("reference"), Relation("view"), {"key", "value"}, "key", size)
                            <=> Equal
      BY DEF BatchedVerdictExact
    <2>2. PICK one : one = compared["reference"]
      OBVIOUS
    <2>3. PICK two : two = compared["view"]
      OBVIOUS
    <2>4. IsRows(one) /\ IsRows(two)
      BY <2>1, <2>2, <2>3 DEF RowsRead
    <2>5. PICK r : r = Relation("reference")
      OBVIOUS
    <2>6. PICK v : v = Relation("view")
      OBVIOUS
    <2>7. one = r.rows /\ two = v.rows /\ (one = two => r = v)
      BY <2>2, <2>3, <2>5, <2>6 DEF Relation
    <2>8. ASSUME NEW keys
          PROVE  /\ Verify!Over(Verify!Batch(r, "key", keys), {"key", "value"}) = Verify!Batch(r, "key", keys)
                 /\ Verify!Over(Verify!Batch(v, "key", keys), {"key", "value"}) = Verify!Batch(v, "key", keys)
      BY <2>4, <2>7, BatchIs, OverAll
    <2>9. ASSUME Verify!BatchesAgree(r, v, {"key", "value"}, "key", size) PROVE one = two
      <3>1. ASSUME NEW keys \in Verify!Batches(Verify!KeysOf(r, v, "key"), size) \union {{None}}
            PROVE  Verify!Batch(r, "key", keys) = Verify!Batch(v, "key", keys)
        BY <2>8, <2>9 DEF Verify!BatchesAgree
      <3>2. QED
        BY <2>4, <2>7, <3>1, BatchesEqual
    <2>10. ASSUME one = two PROVE Verify!BatchesAgree(r, v, {"key", "value"}, "key", size)
      <3>1. r = v
        BY <2>7, <2>10
      <3>2. QED
        BY <3>1 DEF Verify!BatchesAgree
    <2>11. QED
      BY <2>2, <2>3, <2>5, <2>6, <2>9, <2>10 DEF Equal
  <1>2. QED
    BY <1>1, RowsAreRead, PTL

-------------------------------------------------------------------------------
(* Bags of few numbers *)

\* A finite set of integers has a least and a greatest.
LEMMA BoundsExist ==
    ASSUME NEW S, S \subseteq Int, IsFiniteSet(S), S # {}
    PROVE  /\ \E x \in S : \A y \in S : x <= y
           /\ \E x \in S : \A y \in S : x >= y
  <1> DEFINE Bounded(T) == /\ \E x \in T : \A y \in T : x <= y
                           /\ \E x \in T : \A y \in T : x >= y
             Sized == {n \in Nat : \A T \in SUBSET Int :
                            IsFiniteSet(T) /\ T # {} /\ Cardinality(T) = n => Bounded(T)}
  <1>1. 0 \in Sized
    BY FS_EmptySet
  <1>2. ASSUME NEW n \in Nat, n \in Sized PROVE n + 1 \in Sized
    <2>1. SUFFICES ASSUME NEW T \in SUBSET Int, IsFiniteSet(T), T # {}, Cardinality(T) = n + 1
                   PROVE  Bounded(T)
      OBVIOUS
    <2>2. PICK z \in T : TRUE
      BY <2>1
    <2>3. PICK U : U = T \ {z}
      OBVIOUS
    <2>4. IsFiniteSet(U) /\ Cardinality(U) = n
      <3>1. IsFiniteSet(T \ {z}) /\ Cardinality(T \ {z}) = Cardinality(T) - 1
        BY <2>1, <2>2, FS_RemoveElement
      <3>2. QED
        BY <2>1, <2>3, <3>1
    <2>5. U \in SUBSET Int /\ z \in Int /\ T = U \union {z}
      BY <2>1, <2>2, <2>3
    <2>6. CASE U = {}
      <3>1. T = {z} /\ z <= z /\ z >= z
        BY <2>5, <2>6
      <3>2. QED
        BY <3>1
    <2>7. CASE U # {}
      <3>1. Bounded(U)
        BY <1>2, <2>4, <2>5, <2>7
      <3>2. PICK low \in U : \A y \in U : low <= y
        BY <3>1
      <3>3. PICK high \in U : \A y \in U : high >= y
        BY <3>1
      <3>4. \E x \in T : \A y \in T : x <= y
        <4>1. CASE z <= low
          <5>1. \A y \in T : z <= y
            BY <2>5, <3>2, <4>1
          <5>2. QED
            BY <5>1
        <4>2. CASE ~(z <= low)
          <5>1. low \in T /\ \A y \in T : low <= y
            BY <2>5, <3>2, <4>2
          <5>2. QED
            BY <5>1
        <4>3. QED
          BY <4>1, <4>2
      <3>5. \E x \in T : \A y \in T : x >= y
        <4>1. CASE z >= high
          <5>1. \A y \in T : z >= y
            BY <2>5, <3>3, <4>1
          <5>2. QED
            BY <5>1
        <4>2. CASE ~(z >= high)
          <5>1. high \in T /\ \A y \in T : high >= y
            BY <2>5, <3>3, <4>2
          <5>2. QED
            BY <5>1
        <4>3. QED
          BY <4>1, <4>2
      <3>6. QED
        BY <3>4, <3>5
    <2>8. QED
      BY <2>6, <2>7
  <1> HIDE DEF Sized
  <1>3. \A n \in Nat : n \in Sized
    BY <1>1, <1>2, InductionOnSet
  <1>4. Cardinality(S) \in Sized
    BY <1>3, FS_CardinalityType
  <1>5. QED
    BY <1>4 DEF Sized

\* The sum over some of the members, as the recursion takes them.
Taken(values, some, sum) ==
    IF some = {} THEN 0
    ELSE LET v == CHOOSE x \in some : TRUE
         IN  v * values[v] + sum[some \ {v}]

SumsUp(values, sum) == sum = [some \in SUBSET DOMAIN values |-> Taken(values, some, sum)]

\* There are such sums.
LEMMA SumsExist ==
    ASSUME NEW values, IsFiniteSet(DOMAIN values)
    PROVE  \E sum : SumsUp(values, sum)
  <1> DEFINE Right(n, sum) == /\ sum = [some \in SUBSET DOMAIN values |-> sum[some]]
                              /\ \A some \in SUBSET DOMAIN values : Cardinality(some) <= n =>
                                    sum[some] = Taken(values, some, sum)
             Upto == {n \in Nat : \E sum : Right(n, sum)}
  <1>1. \A some \in SUBSET DOMAIN values : IsFiniteSet(some) /\ Cardinality(some) \in Nat
                                           /\ Cardinality(some) <= Cardinality(DOMAIN values)
    BY FS_Subset, FS_CardinalityType
  <1>2. 0 \in Upto
    <2>1. PICK sum : sum = [some \in SUBSET DOMAIN values |-> 0]
      OBVIOUS
    <2>2. ASSUME NEW some \in SUBSET DOMAIN values, Cardinality(some) <= 0
          PROVE  sum[some] = Taken(values, some, sum)
      <3>1. Cardinality(some) = 0
        BY <1>1, <2>2
      <3>2. some = {}
        BY <1>1, <3>1, FS_EmptySet
      <3>3. QED
        BY <2>1, <3>2 DEF Taken
    <2>3. sum = [some \in SUBSET DOMAIN values |-> sum[some]]
      BY <2>1
    <2>4. QED
      BY <2>2, <2>3
  <1>3. ASSUME NEW n \in Nat, n \in Upto PROVE n + 1 \in Upto
    <2>1. PICK sum : /\ sum = [some \in SUBSET DOMAIN values |-> sum[some]]
                     /\ \A some \in SUBSET DOMAIN values : Cardinality(some) <= n =>
                            sum[some] = Taken(values, some, sum)
      BY <1>3
    <2>2. PICK more : more = [some \in SUBSET DOMAIN values |-> Taken(values, some, sum)]
      OBVIOUS
    <2>3. ASSUME NEW some \in SUBSET DOMAIN values, Cardinality(some) <= n + 1
          PROVE  more[some] = Taken(values, some, more)
      <3>1. more[some] = Taken(values, some, sum)
        BY <2>2
      <3>2. CASE some = {}
        BY <3>1, <3>2 DEF Taken
      <3>3. CASE some # {}
        <4>1. PICK v : v = CHOOSE x \in some : TRUE
          OBVIOUS
        <4>2. v \in some
          BY <3>3, <4>1
        <4>3. some \ {v} \in SUBSET DOMAIN values /\ Cardinality(some \ {v}) = Cardinality(some) - 1
          BY <1>1, <4>2, FS_RemoveElement
        <4>4. Cardinality(some \ {v}) <= n
          BY <1>1, <2>3, <4>3
        <4>5. more[some \ {v}] = sum[some \ {v}]
          BY <2>1, <2>2, <4>3, <4>4
        <4>6. QED
          BY <3>1, <3>3, <4>1, <4>5 DEF Taken
      <3>4. QED
        BY <3>2, <3>3
    <2>4. more = [some \in SUBSET DOMAIN values |-> more[some]]
      BY <2>2
    <2>5. Right(n + 1, more)
      BY <2>3, <2>4
    <2> HIDE DEF Right
    <2>6. QED
      BY <2>5
  <1> HIDE DEF Upto
  <1>4. \A n \in Nat : n \in Upto
    BY <1>2, <1>3, InductionOnSet
  <1>5. Cardinality(DOMAIN values) \in Upto
    BY <1>4, FS_CardinalityType
  <1>6. PICK sum : /\ sum = [some \in SUBSET DOMAIN values |-> sum[some]]
                   /\ \A some \in SUBSET DOMAIN values : Cardinality(some) <= Cardinality(DOMAIN values) =>
                            sum[some] = Taken(values, some, sum)
    BY <1>5 DEF Upto
  <1>7. \A some \in SUBSET DOMAIN values : sum[some] = Taken(values, some, sum)
    BY <1>1, <1>6
  <1>8. [some \in SUBSET DOMAIN values |-> sum[some]] = [some \in SUBSET DOMAIN values |-> Taken(values, some, sum)]
    BY <1>7
  <1>9. QED
    BY <1>6, <1>8 DEF SumsUp

\* They take the members in any order.
LEMMA SumTakes ==
    ASSUME NEW values, Bag(values), DOMAIN values \subseteq Int, NEW sum, SumsUp(values, sum)
    PROVE  /\ sum[{}] = 0
           /\ \A some \in SUBSET DOMAIN values :
                sum[some] \in Int /\ \A v \in some : sum[some] = v * values[v] + sum[some \ {v}]
  <1> DEFINE S == SUBSET DOMAIN values
  <1>1. \A some \in S : IsFiniteSet(some) /\ Cardinality(some) \in Nat
    BY FS_Subset, FS_CardinalityType DEF Bag
  <1>2. PICK times \in [DOMAIN values -> Int] : \A v \in DOMAIN values : times[v] = v * values[v]
    <2>1. \A v \in DOMAIN values : v * values[v] \in Int
      <3>1. \A v \in DOMAIN values : v \in Int /\ values[v] \in Int
        BY DEF Bag
      <3>2. QED
        BY <3>1
    <2>2. PICK times : times = [v \in DOMAIN values |-> v * values[v]]
      OBVIOUS
    <2>3. QED
      BY <2>1, <2>2
  <1>3. \A some \in S : sum[some] = Taken(values, some, sum)
    BY DEF SumsUp
  <1>4. sum[{}] = 0
    BY <1>3 DEF Taken
  <1>5. ASSUME NEW some \in S, some # {}
        PROVE  \E v \in some : sum[some] = times[v] + sum[some \ {v}]
    <2>1. PICK v : v = CHOOSE x \in some : TRUE
      OBVIOUS
    <2>2. v \in some
      BY <1>5, <2>1
    <2>3. sum[some] = v * values[v] + sum[some \ {v}]
      BY <1>3, <1>5, <2>1 DEF Taken
    <2>4. QED
      BY <1>2, <2>2, <2>3
  <1> DEFINE Well(some) == sum[some] \in Int /\ \A v \in some : sum[some] = times[v] + sum[some \ {v}]
             Sized == {n \in Nat : \A some \in S : Cardinality(some) <= n => Well(some)}
  <1>6. 0 \in Sized
    <2>1. SUFFICES ASSUME NEW some \in S, Cardinality(some) <= 0 PROVE Well(some)
      OBVIOUS
    <2>2. Cardinality(some) = 0
      BY <1>1, <2>1
    <2>3. some = {}
      BY <1>1, <2>2, FS_EmptySet
    <2>4. QED
      BY <1>4, <2>3
  <1>7. ASSUME NEW n \in Nat, n \in Sized PROVE n + 1 \in Sized
    <2>1. SUFFICES ASSUME NEW some \in S, Cardinality(some) <= n + 1, some # {} PROVE Well(some)
      <3>1. Well({})
        BY <1>4
      <3> HIDE DEF Well
      <3>2. QED
        BY <2>1, <3>1
    <2>2. ASSUME NEW v \in some PROVE some \ {v} \in S /\ Cardinality(some \ {v}) <= n
      <3>1. Cardinality(some \ {v}) = Cardinality(some) - 1
        BY <1>1, FS_RemoveElement
      <3>2. QED
        BY <1>1, <2>1, <3>1
    <2>3. \A v \in some : Well(some \ {v})
      BY <1>7, <2>2
    <2>4. PICK u \in some : sum[some] = times[u] + sum[some \ {u}]
      BY <1>5, <2>1
    <2>5. \A v \in some : times[v] \in Int
      BY <1>2
    <2>6. sum[some] \in Int
      BY <2>3, <2>4, <2>5
    <2>7. ASSUME NEW v \in some, v # u PROVE sum[some] = times[v] + sum[some \ {v}]
      <3>1. v \in some \ {u} /\ u \in some \ {v} /\ (some \ {u}) \ {v} = (some \ {v}) \ {u}
        BY <2>7
      <3>2. PICK rest : rest = (some \ {u}) \ {v}
        OBVIOUS
      <3>3. sum[some \ {u}] = times[v] + sum[rest] /\ sum[some \ {v}] = times[u] + sum[rest]
        BY <2>3, <3>1, <3>2
      <3>4. sum[rest] \in Int
        <4>1. rest \in S /\ IsFiniteSet(some \ {u}) /\ Cardinality(some \ {u}) <= n
          BY <1>1, <2>2, <3>2
        <4>2. Cardinality(rest) <= Cardinality(some \ {u}) /\ Cardinality(rest) \in Nat
              /\ Cardinality(some \ {u}) \in Nat
          BY <1>1, <3>2, <4>1, FS_Subset
        <4>3. QED
          BY <1>7, <4>1, <4>2
      <3>5. QED
        BY <2>4, <2>5, <3>3, <3>4
    <2>8. QED
      BY <2>4, <2>6, <2>7
  <1> HIDE DEF Sized
  <1>8. \A n \in Nat : n \in Sized
    BY <1>6, <1>7, InductionOnSet
  <1>9. \A some \in S : Well(some)
    <2>1. SUFFICES ASSUME NEW some \in S
                   PROVE  Well(some)
      OBVIOUS
    <2>2. Cardinality(some) \in Nat /\ Cardinality(some) \in Sized
      BY <1>1, <1>8
    <2>3. Cardinality(some) <= Cardinality(some)
      BY <2>2
    <2> HIDE DEF Well, S
    <2>4. QED
      BY <2>2, <2>3 DEF Sized
  <1>10. QED
    BY <1>2, <1>4, <1>9
\* SUM is the last of such sums.
LEMMA SumIs ==
    ASSUME NEW values, Bag(values), DOMAIN values \subseteq Int
    PROVE  \E sum : SumsUp(values, sum) /\ Verify!Sum(values) = sum[DOMAIN values]
  <1>1. PICK f : SumsUp(values, f)
    BY SumsExist DEF Bag
  <1> DEFINE all == CHOOSE sum : SumsUp(values, sum)
  <1>2. SumsUp(values, all)
    BY <1>1, Zenon
  <1>3. Verify!Sum(values) = all[DOMAIN values]
    BY Zenon DEF Verify!Sum, SumsUp, Taken
  <1> HIDE DEF all
  <1>4. QED
    BY <1>2, <1>3

\* How often a number is among c numbers, at most three, whose least is a, greatest z and sum s.
Times(c, a, z, s, x) ==
    (IF x = a THEN 1 ELSE 0) + (IF c >= 2 /\ x = z THEN 1 ELSE 0) + (IF c = 3 /\ x = s - a - z THEN 1 ELSE 0)

\* Up to three numbers are told by their count, their least, their greatest and their sum.
LEMMA FewAreTold ==
    ASSUME NEW values, Bag(values), DOMAIN values \subseteq Int, DOMAIN values # {}, Verify!Count(values) <= 3,
           NEW x, x \in Int
    PROVE  (IF x \in DOMAIN values THEN values[x] ELSE 0)
                = Times(Verify!Count(values), Verify!Min(DOMAIN values), Verify!Max(DOMAIN values),
                        Verify!Sum(values), x)
  <1>1. PICK all : all = DOMAIN values
    OBVIOUS
  <1>2. PICK a : a = Verify!Min(all)
    OBVIOUS
  <1>3. PICK z : z = Verify!Max(all)
    OBVIOUS
  <1>4. all \subseteq Int /\ all # {} /\ IsFiniteSet(all)
    BY <1>1 DEF Bag
  <1>5. a \in all /\ \A y \in all : a <= y
    <2>1. \E y \in all : \A w \in all : y <= w
      BY <1>4, BoundsExist
    <2>2. QED
      BY <1>2, <2>1 DEF Verify!Min
  <1>6. z \in all /\ \A y \in all : z >= y
    <2>1. \E y \in all : \A w \in all : y >= w
      BY <1>4, BoundsExist
    <2>2. QED
      BY <1>3, <2>1 DEF Verify!Max
  <1>7. PICK sum : SumsUp(values, sum) /\ Verify!Sum(values) = sum[all]
    BY <1>1, SumIs
  <1> DEFINE times == [v \in all |-> v * values[v]]
  <1>a. \A v \in all :
            /\ times[v] \in Int
            /\ values[v] = 1 => times[v] = v
            /\ values[v] = 2 => times[v] = v + v
            /\ values[v] = 3 => times[v] = v + v + v
    <2>1. SUFFICES ASSUME NEW v \in all
                   PROVE  /\ v * values[v] \in Int
                          /\ values[v] = 1 => v * values[v] = v
                          /\ values[v] = 2 => v * values[v] = v + v
                          /\ values[v] = 3 => v * values[v] = v + v + v
      OBVIOUS
    <2>2. v \in Int /\ values[v] \in Int
      BY <1>1 DEF Bag
    <2>3. v * values[v] \in Int
      BY <2>2
    <2>4. v * 1 = v /\ v * 2 = v + v /\ v * 3 = v + v + v
      BY <2>2
    <2>5. QED
      BY <2>3, <2>4
  <1>8. /\ sum[{}] = 0
        /\ \A some \in SUBSET all :
            sum[some] \in Int /\ \A v \in some : sum[some] = times[v] + sum[some \ {v}]
    <2>1. \A v \in all : times[v] = v * values[v]
      OBVIOUS
    <2> HIDE DEF times
    <2>2. QED
      BY <1>1, <1>7, <2>1, SumTakes
  <1> HIDE DEF times
  <1>9. PICK count : count = [some \in SUBSET all |-> Verify!Count(Part(values, some))]
    OBVIOUS
  <1>10. /\ count[{}] = 0
         /\ \A some \in SUBSET all : \A v \in some :
                /\ count[some] = values[v] + count[some \ {v}]
                /\ count[some \ {v}] \in Nat /\ values[v] \in Nat /\ values[v] >= 1
    <2>1. count[{}] = 0
      BY <1>9, CountOne
    <2>2. ASSUME NEW some \in SUBSET all, NEW v \in some
          PROVE  /\ count[some] = values[v] + count[some \ {v}]
                 /\ count[some \ {v}] \in Nat /\ values[v] \in Nat /\ values[v] >= 1
      <3>1. count[some] = Verify!Count(Part(values, some))
            /\ count[some \ {v}] = Verify!Count(Part(values, some \ {v}))
        BY <1>9
      <3>2. QED
        BY <1>1, <3>1, CountTakes
    <2>3. QED
      BY <2>1, <2>2
  <1>b. ASSUME NEW some, some \subseteq all, NEW v, v \in some
        PROVE  /\ count[some] = values[v] + count[some \ {v}]
               /\ sum[some] = times[v] + sum[some \ {v}]
               /\ values[v] \in Nat /\ values[v] >= 1 /\ count[some \ {v}] \in Nat
               /\ v \in Int /\ times[v] \in Int /\ sum[some \ {v}] \in Int
               /\ values[v] = 1 => times[v] = v
               /\ values[v] = 2 => times[v] = v + v
               /\ values[v] = 3 => times[v] = v + v + v
    <2>1. some \in SUBSET all /\ some \ {v} \in SUBSET all /\ v \in all /\ v \in Int
      BY <1>4, <1>b
    <2>2. /\ count[some] = values[v] + count[some \ {v}]
          /\ values[v] \in Nat /\ values[v] >= 1 /\ count[some \ {v}] \in Nat
      BY <1>10, <1>b, <2>1
    <2>3. sum[some] = times[v] + sum[some \ {v}] /\ sum[some \ {v}] \in Int
      BY <1>8, <1>b, <2>1
    <2>4. QED
      BY <1>a, <2>1, <2>2, <2>3
  <1>11. PICK c : c = count[all]
    OBVIOUS
  <1>12. c = Verify!Count(values) /\ c <= 3
    <2>1. Part(values, all) = values
      BY <1>1 DEF Bag, Part
    <2>2. QED
      BY <1>9, <1>11, <2>1
  <1>13. PICK s : s = sum[all]
    OBVIOUS
  <1>14. c = values[a] + count[all \ {a}] /\ s = times[a] + sum[all \ {a}]
         /\ values[a] \in Nat /\ values[a] >= 1 /\ count[all \ {a}] \in Nat /\ a \in Int
         /\ times[a] \in Int
         /\ (values[a] = 1 => times[a] = a) /\ (values[a] = 2 => times[a] = a + a)
         /\ (values[a] = 3 => times[a] = a + a + a)
    <2>1. all \in SUBSET all /\ a \in all
      BY <1>5
    <2>2. QED
      BY ONLY <1>11, <1>13, <1>b, <2>1
  <1>15. SUFFICES (IF x \in all THEN values[x] ELSE 0) = Times(c, a, z, s, x)
    BY <1>1, <1>2, <1>3, <1>7, <1>12, <1>13
  <1>16. CASE all \ {a} = {}
    <2>1. all = {a} /\ z = a
      BY <1>5, <1>6, <1>16
    <2>2. c = values[a] /\ s = times[a] /\ c \in 1 .. 3
      <3>1. count[all \ {a}] = 0 /\ sum[all \ {a}] = 0
        BY <1>8, <1>10, <1>16
      <3>2. QED
        BY <1>12, <1>14, <3>1
    <2>4. c = 3 => s - a - z = a
      BY <1>14, <2>1, <2>2
    <2>5. c \in 1 .. 3
      BY <2>2
    <2>6. CASE x = a
      <3>1. (IF x \in all THEN values[x] ELSE 0) = c
        BY <2>1, <2>2, <2>6
      <3>2. Times(c, a, z, s, x) = c
        BY ONLY <1>14, <2>1, <2>4, <2>5, <2>6 DEF Times
      <3>3. QED
        BY <3>1, <3>2
    <2>7. CASE x # a
      <3>1. (IF x \in all THEN values[x] ELSE 0) = 0
        BY <2>1, <2>7
      <3>2. Times(c, a, z, s, x) = 0
        BY ONLY <2>1, <2>4, <2>7 DEF Times
      <3>3. QED
        BY <3>1, <3>2
    <2>8. QED
      BY <2>6, <2>7
  <1>17. CASE all \ {a} # {}
    <2>1. z # a /\ z \in all \ {a}
      <3>1. PICK b \in all \ {a} : TRUE
        BY <1>17
      <3>2. a <= b /\ z >= b /\ b # a /\ a \in Int /\ b \in Int /\ z \in Int
        BY <1>4, <1>5, <1>6, <3>1
      <3>3. QED
        BY <1>6, <3>2
    <2>2. PICK rest : rest = (all \ {a}) \ {z}
      OBVIOUS
    <2>3. count[all \ {a}] = values[z] + count[rest] /\ sum[all \ {a}] = times[z] + sum[rest]
          /\ values[z] \in Nat /\ values[z] >= 1 /\ count[rest] \in Nat /\ z \in Int
          /\ times[z] \in Int /\ (values[z] = 1 => times[z] = z) /\ (values[z] = 2 => times[z] = z + z)
      <3>1. PICK some : some = all \ {a}
        OBVIOUS
      <3>2. some \subseteq all /\ z \in some /\ rest = some \ {z}
        BY <2>1, <2>2, <3>1
      <3>3. /\ count[some] = values[z] + count[some \ {z}] /\ sum[some] = times[z] + sum[some \ {z}]
            /\ values[z] \in Nat /\ values[z] >= 1 /\ count[some \ {z}] \in Nat /\ z \in Int
            /\ times[z] \in Int
            /\ values[z] = 1 => times[z] = z
            /\ values[z] = 2 => times[z] = z + z
        BY <1>b, <3>2
      <3>4. QED
        BY <3>1, <3>2, <3>3
    <2>4. CASE rest = {}
      <3>1. all = {a, z} /\ c = values[a] + values[z]
        <4>1. all = {a, z}
          BY <1>5, <1>6, <2>2, <2>4
        <4>2. count[rest] = 0
          BY <1>10, <2>4
        <4>3. QED
          BY <1>14, <2>3, <4>1, <4>2
      <3>2. s = times[a] + times[z]
        BY <1>8, <1>14, <2>3, <2>4
      <3>3. CASE values[a] = 1 /\ values[z] = 1
        BY ONLY <1>14, <2>1, <2>3, <3>1, <3>3, x \in Int DEF Times
      <3>4. CASE values[a] = 2 /\ values[z] = 1
        <4>1. c = 3 /\ s - a - z = a
          BY <1>14, <2>3, <3>1, <3>2, <3>4
        <4>2. QED
          BY ONLY <1>14, <2>1, <2>3, <3>1, <3>4, <4>1, x \in Int DEF Times
      <3>5. CASE values[a] = 1 /\ values[z] = 2
        <4>1. c = 3 /\ s - a - z = z
          BY <1>14, <2>3, <3>1, <3>2, <3>5
        <4>2. QED
          BY ONLY <1>14, <2>1, <2>3, <3>1, <3>5, <4>1, x \in Int DEF Times
      <3>6. \/ values[a] = 1 /\ values[z] = 1
            \/ values[a] = 2 /\ values[z] = 1
            \/ values[a] = 1 /\ values[z] = 2
        BY <1>12, <1>14, <2>3, <3>1
      <3>7. QED
        BY <3>3, <3>4, <3>5, <3>6
    <2>5. CASE rest # {}
      <3>1. PICK b \in rest : TRUE
        BY <2>5
      <3>2. count[rest] = values[b] + count[rest \ {b}] /\ sum[rest] = times[b] + sum[rest \ {b}]
            /\ values[b] \in Nat /\ values[b] >= 1 /\ count[rest \ {b}] \in Nat /\ b \in Int
            /\ times[b] \in Int /\ (values[b] = 1 => times[b] = b)
        <4>1. rest \subseteq all
          BY <2>2
        <4>2. QED
          BY <1>b, <3>1, <4>1
      <3>3. values[a] = 1 /\ values[z] = 1 /\ values[b] = 1 /\ count[rest \ {b}] = 0 /\ c = 3
        BY <1>12, <1>14, <2>3, <3>2
      <3>4. rest \ {b} = {}
        <4>1. ASSUME NEW d \in rest \ {b} PROVE FALSE
          <5>1. count[rest \ {b}] = values[d] + count[(rest \ {b}) \ {d}]
                /\ values[d] \in Nat /\ values[d] >= 1 /\ count[(rest \ {b}) \ {d}] \in Nat
            BY <1>10, <2>2, <4>1
          <5>2. QED
            BY <3>3, <5>1
        <4>2. QED
          BY <4>1
      <3>5. all = {a, z, b} /\ b # a /\ b # z
        BY <1>5, <1>6, <2>2, <3>1, <3>4
      <3>6. s - a - z = b
        <4>1. sum[rest] = b
          <5>1. sum[rest \ {b}] = 0
            BY <1>8, <3>4
          <5>2. QED
            BY <3>2, <3>3, <5>1
        <4>2. s = a + (z + b)
          BY <1>14, <2>3, <3>3, <4>1
        <4>3. QED
          BY <1>14, <2>3, <3>2, <4>2
      <3>7. QED
        BY ONLY <1>14, <2>1, <2>3, <3>2, <3>3, <3>5, <3>6, x \in Int DEF Times
    <2>6. QED
      BY <2>4, <2>5
  <1>18. QED
    BY <1>16, <1>17

-------------------------------------------------------------------------------
(* The groups of compare_relations *)

\* A part counts no more than all.
LEMMA PartCountsLess ==
    ASSUME NEW bag, Bag(bag), NEW some, some \subseteq DOMAIN bag
    PROVE  /\ Verify!Count(Part(bag, some)) <= Verify!Count(bag)
           /\ Verify!Count(Part(bag, some)) \in Nat /\ Verify!Count(bag) \in Nat
  <1>1. Verify!Count(bag) = Verify!Count(Part(bag, some)) + Verify!Count(Part(bag, DOMAIN bag \ some))
    BY CountSplits
  <1>2. Bag(Part(bag, some)) /\ Bag(Part(bag, DOMAIN bag \ some))
    BY PartIsBag
  <1>3. /\ Verify!Count(Part(bag, some)) \in Nat
        /\ Verify!Count(Part(bag, DOMAIN bag \ some)) \in Nat /\ Verify!Count(bag) \in Nat
    BY <1>2, CountIs
  <1>4. QED
    BY <1>1, <1>3

\* Only what is empty counts nothing.
LEMMA CountsSomething ==
    ASSUME NEW bag, Bag(bag)
    PROVE  Verify!Count(bag) = 0 <=> DOMAIN bag = {}
  <1>1. bag = Part(bag, DOMAIN bag)
    BY DEF Bag, Part
  <1>2. ASSUME DOMAIN bag = {} PROVE Verify!Count(bag) = 0
    BY <1>1, <1>2, CountOne
  <1>3. ASSUME NEW x \in DOMAIN bag PROVE Verify!Count(bag) # 0
    <2>1. /\ Verify!Count(Part(bag, DOMAIN bag)) = bag[x] + Verify!Count(Part(bag, DOMAIN bag \ {x}))
          /\ bag[x] \in Nat /\ bag[x] >= 1 /\ Verify!Count(Part(bag, DOMAIN bag \ {x})) \in Nat
      BY CountTakes
    <2>2. QED
      BY <1>1, <2>1
  <1>4. QED
    BY <1>2, <1>3

\* The rows that share a key.
OfKey(rows, k) == IsRows(rows) /\ \A row \in DOMAIN rows : row["key"] = k

\* Those whose value is NULL, and the others.
Nulls(rows) == {row \in DOMAIN rows : row["value"] = None}

\* Of the rows that share a key, those with the same value are equal.
LEMMA RowIs ==
    ASSUME NEW one, NEW two, NEW k, OfKey(one, k), OfKey(two, k),
           NEW row \in DOMAIN one, NEW other \in DOMAIN two, row["value"] = other["value"]
    PROVE  row = other
  <1>1. /\ row = [column \in {"key", "value"} |-> row[column]] /\ row["key"] = k
        /\ other = [column \in {"key", "value"} |-> other[column]] /\ other["key"] = k
    BY DEF OfKey, IsRows
  <1>2. \A column \in {"key", "value"} : row[column] = other[column]
    BY <1>1
  <1>3. [column \in {"key", "value"} |-> row[column]] = [column \in {"key", "value"} |-> other[column]]
    BY <1>2
  <1>4. QED
    BY <1>1, <1>3

\* What they have in the column of values.
LEMMA ValuesAre ==
    ASSUME NEW rows, NEW k, OfKey(rows, k), NEW values, values = Verify!Values(rows, "value")
    PROVE  /\ Bag(values) /\ DOMAIN values \subseteq Int
           /\ \A v \in DOMAIN values : \E row \in DOMAIN rows : row["value"] = v
           /\ \A row \in DOMAIN rows \ Nulls(rows) :
                row["value"] \in DOMAIN values /\ values[row["value"]] = rows[row]
           /\ Verify!Count(rows) = Verify!Count(values) + Verify!Count(Part(rows, Nulls(rows)))
  <1>1. PICK part : part = [row \in DOMAIN rows |-> row["value"]]
    OBVIOUS
  <1>2. DOMAIN part = DOMAIN rows /\ \A row \in DOMAIN rows : part[row] = row["value"]
    BY <1>1
  <1>3. PICK by : by = Verify!CountBy(part, rows)
    OBVIOUS
  <1>4. by = [value \in {row["value"] : row \in DOMAIN rows} |->
                Verify!Count(Verify!Restrict(rows, {row \in DOMAIN rows : part[row] = value}))]
    <2>1. Verify!Range(part) = {row["value"] : row \in DOMAIN rows}
      BY <1>1 DEF Verify!Range
    <2>2. QED
      BY <1>3, <2>1 DEF Verify!CountBy
  <1>5. ASSUME NEW row \in DOMAIN rows
        PROVE  row["value"] \in DOMAIN by /\ by[row["value"]] = rows[row]
    <2>1. {r \in DOMAIN rows : part[r] = row["value"]} = {row}
      <3>1. \A r \in DOMAIN rows : part[r] = row["value"] => r = row
        BY <1>2, RowIs
      <3>2. QED
        BY <1>2, <3>1
    <2>2. Verify!Restrict(rows, {row}) = Part(rows, {row})
      BY DEF Verify!Restrict, Part
    <2>3. Verify!Count(Part(rows, {row})) = rows[row]
      BY CountOne DEF OfKey, IsRows
    <2>4. QED
      BY <1>4, <2>1, <2>2, <2>3
  <1>6. values = [v \in DOMAIN by \ {None} |-> by[v]]
    BY <1>1, <1>3 DEF Verify!Values, Verify!Restrict
  <1>7. DOMAIN values = DOMAIN by \ {None} /\ DOMAIN by = {row["value"] : row \in DOMAIN rows}
    BY <1>4, <1>6
  <1>8. PICK valued : valued = DOMAIN rows \ Nulls(rows)
    OBVIOUS
  <1>9. ASSUME NEW row \in valued
        PROVE  row \in DOMAIN rows /\ row["value"] \in DOMAIN values /\ values[row["value"]] = rows[row]
    BY <1>5, <1>6, <1>8 DEF Nulls
  <1>10. ASSUME NEW v \in DOMAIN values
         PROVE  v \in Int /\ \E row \in valued : row["value"] = v
    <2>1. PICK row \in DOMAIN rows : row["value"] = v /\ v # None
      BY <1>7
    <2>2. row \in valued
      BY <1>8, <2>1 DEF Nulls
    <2>3. row["value"] \in Int \union {None}
      BY DEF OfKey, IsRows
    <2>4. QED
      BY <2>1, <2>2, <2>3
  <1>11. PICK f : f = [row \in valued |-> row["value"]]
    OBVIOUS
  <1>12. f \in Bijection(valued, DOMAIN values)
    <2>1. f \in [valued -> DOMAIN values] /\ \A row \in valued : f[row] = row["value"]
      BY <1>9, <1>11
    <2>2. \A x, y \in valued : f[x] = f[y] => x = y
      BY <1>9, <2>1, RowIs
    <2>3. \A v \in DOMAIN values : \E row \in valued : f[row] = v
      BY <1>10, <2>1
    <2>4. QED
      BY <2>1, <2>2, <2>3 DEF Bijection, Injection, Surjection, IsInjective
  <1>13. Bag(Part(rows, valued)) /\ DOMAIN Part(rows, valued) = valued
         /\ \A row \in valued : Part(rows, valued)[row] = rows[row]
    BY <1>8, PartIsBag DEF OfKey, IsRows
  <1>14. Bag(values)
    <2>1. IsFiniteSet(DOMAIN values)
      BY <1>12, <1>13, FS_Bijection DEF ExistsBijection, Bag
    <2>2. ASSUME NEW v \in DOMAIN values PROVE values[v] \in Nat \ {0}
      <3>1. PICK row \in valued : row["value"] = v
        BY <1>10
      <3>2. values[v] = rows[row] /\ row \in DOMAIN rows
        BY <1>9, <3>1
      <3>3. QED
        BY <3>2 DEF OfKey, IsRows, Bag
    <2>3. values = [v \in DOMAIN values |-> values[v]]
      BY <1>6
    <2>4. values \in [DOMAIN values -> Nat \ {0}]
      BY <2>2, <2>3
    <2>5. QED
      BY <2>1, <2>4 DEF Bag
  <1>15. Verify!Count(Part(rows, valued)) = Verify!Count(values)
    <2>1. \A row \in valued : values[f[row]] = Part(rows, valued)[row]
      BY <1>9, <1>11, <1>13
    <2>2. QED
      BY <1>12, <1>13, <1>14, <2>1, CountRenamed
  <1>16. Verify!Count(rows) = Verify!Count(Part(rows, Nulls(rows))) + Verify!Count(Part(rows, valued))
    <2>1. Bag(rows) /\ Nulls(rows) \subseteq DOMAIN rows
      BY DEF OfKey, IsRows, Nulls
    <2>2. QED
      BY <1>8, <2>1, CountSplits
  <1>17. Verify!Count(Part(rows, Nulls(rows))) \in Nat /\ Verify!Count(values) \in Nat
    <2>1. Bag(Part(rows, Nulls(rows)))
      BY PartIsBag DEF OfKey, IsRows, Nulls
    <2>2. QED
      BY <1>14, <2>1, CountIs
  <1>18. \A v \in DOMAIN values : \E row \in DOMAIN rows : row["value"] = v
    BY <1>9, <1>10
  <1>19. \A row \in DOMAIN rows \ Nulls(rows) : row["value"] \in DOMAIN values /\ values[row["value"]] = rows[row]
    BY <1>8, <1>9
  <1>20. DOMAIN values \subseteq Int
    BY <1>10
  <1>21. Verify!Count(rows) = Verify!Count(values) + Verify!Count(Part(rows, Nulls(rows)))
    BY <1>15, <1>16, <1>17
  <1>22. QED
    BY <1>14, <1>18, <1>19, <1>20, <1>21

\* Of the rows that share a key, those whose value is NULL are counted together.
LEMMA NullsAre ==
    ASSUME NEW rows, NEW k, OfKey(rows, k)
    PROVE  /\ \A row \in Nulls(rows) : Verify!Count(Part(rows, Nulls(rows))) = rows[row]
           /\ Nulls(rows) = {} <=> Verify!Count(Part(rows, Nulls(rows))) = 0
  <1>1. ASSUME NEW row \in Nulls(rows) PROVE Verify!Count(Part(rows, Nulls(rows))) = rows[row]
    <2>1. Nulls(rows) = {row}
      BY RowIs DEF Nulls
    <2>2. row \in DOMAIN rows
      BY DEF Nulls
    <2>3. QED
      BY <2>1, <2>2, CountOne DEF OfKey, IsRows
  <1>2. Bag(Part(rows, Nulls(rows))) /\ DOMAIN Part(rows, Nulls(rows)) = Nulls(rows)
    BY PartIsBag DEF OfKey, IsRows, Nulls
  <1>3. QED
    BY <1>1, <1>2, CountsSomething

\* What the summary says of the values.
LEMMA SummaryIs ==
    ASSUME NEW rows, NEW values, values = Verify!Values(rows, "value"), Bag(values)
    PROVE  /\ Verify!Summary(rows, "value").count = Verify!Count(values)
           /\ DOMAIN values # {} =>
                /\ Verify!Summary(rows, "value").min = Verify!Min(DOMAIN values)
                /\ Verify!Summary(rows, "value").max = Verify!Max(DOMAIN values)
                /\ Verify!Summary(rows, "value").sum = Verify!Sum(values)
  <1>1. CASE DOMAIN values = {}
    <2>1. Verify!Summary(rows, "value") = [count |-> 0, min |-> None, max |-> None, sum |-> None]
      BY <1>1 DEF Verify!Summary
    <2>2. QED
      BY <1>1, <2>1, CountsSomething
  <1>2. CASE DOMAIN values # {}
    <2>1. Verify!Summary(rows, "value")
            = [count |-> Verify!Count(values), min |-> Verify!Min(DOMAIN values),
               max |-> Verify!Max(DOMAIN values), sum |-> Verify!Sum(values)]
      BY <1>2 DEF Verify!Summary
    <2>2. QED
      BY <2>1
  <1>3. QED
    BY <1>1, <1>2

\* Of rows that share a key, three at most, the count and the summary leave no others.
LEMMA MemberShared ==
    ASSUME NEW one, NEW two, NEW k, OfKey(one, k), OfKey(two, k),
           Verify!Count(one) = Verify!Count(two), Verify!Count(one) <= 3,
           Verify!Summary(one, "value") = Verify!Summary(two, "value"),
           NEW row \in DOMAIN one
    PROVE  row \in DOMAIN two /\ one[row] = two[row]
  <1>1. PICK v1 : v1 = Verify!Values(one, "value")
    OBVIOUS
  <1>2. PICK v2 : v2 = Verify!Values(two, "value")
    OBVIOUS
  <1>3. /\ Bag(v1) /\ DOMAIN v1 \subseteq Int
        /\ \A r \in DOMAIN one \ Nulls(one) : r["value"] \in DOMAIN v1 /\ v1[r["value"]] = one[r]
        /\ Verify!Count(one) = Verify!Count(v1) + Verify!Count(Part(one, Nulls(one)))
    BY <1>1, ValuesAre
  <1>4. /\ Bag(v2) /\ DOMAIN v2 \subseteq Int
        /\ \A v \in DOMAIN v2 : \E r \in DOMAIN two : r["value"] = v
        /\ \A r \in DOMAIN two \ Nulls(two) : r["value"] \in DOMAIN v2 /\ v2[r["value"]] = two[r]
        /\ Verify!Count(two) = Verify!Count(v2) + Verify!Count(Part(two, Nulls(two)))
    BY <1>2, ValuesAre
  <1>5. Verify!Count(v1) = Verify!Count(v2)
    <2>1. Verify!Summary(one, "value").count = Verify!Count(v1)
      BY <1>1, <1>3, SummaryIs
    <2>2. Verify!Summary(two, "value").count = Verify!Count(v2)
      BY <1>2, <1>4, SummaryIs
    <2>3. QED
      BY <2>1, <2>2
  <1>6. /\ Verify!Count(v1) \in Nat /\ Verify!Count(v2) \in Nat
        /\ Verify!Count(Part(one, Nulls(one))) \in Nat /\ Verify!Count(Part(two, Nulls(two))) \in Nat
    <2>1. Bag(Part(one, Nulls(one))) /\ Bag(Part(two, Nulls(two)))
      BY PartIsBag DEF OfKey, IsRows, Nulls
    <2>2. QED
      BY <1>3, <1>4, <2>1, CountIs
  <1>7. Verify!Count(Part(one, Nulls(one))) = Verify!Count(Part(two, Nulls(two)))
    <2>1. Verify!Count(v1) + Verify!Count(Part(one, Nulls(one)))
            = Verify!Count(v1) + Verify!Count(Part(two, Nulls(two)))
      <3>1. Verify!Count(one) = Verify!Count(v1) + Verify!Count(Part(one, Nulls(one)))
        BY <1>3
      <3>2. Verify!Count(two) = Verify!Count(v2) + Verify!Count(Part(two, Nulls(two)))
        BY <1>4
      <3>3. QED
        BY ONLY <1>5, <3>1, <3>2, Verify!Count(one) = Verify!Count(two)
    <2>2. QED
      BY ONLY <1>6, <2>1
  <1>8. CASE row["value"] = None
    <2>1. row \in Nulls(one)
      BY <1>8 DEF Nulls
    <2>2. Verify!Count(Part(one, Nulls(one))) = one[row] /\ Nulls(two) # {}
      BY <1>7, <2>1, NullsAre
    <2>3. PICK other \in Nulls(two) : TRUE
      BY <2>2
    <2>4. other \in DOMAIN two /\ other["value"] = row["value"]
      BY <1>8, <2>3 DEF Nulls
    <2>5. other = row
      BY <2>4, RowIs
    <2>6. Verify!Count(Part(two, Nulls(two))) = two[row]
      BY <2>3, <2>5, NullsAre
    <2>7. QED
      BY <1>7, <2>2, <2>4, <2>5, <2>6
  <1>9. CASE row["value"] # None
    <2>1. PICK x : x = row["value"]
      OBVIOUS
    <2>2. x \in DOMAIN v1 /\ v1[x] = one[row] /\ x \in Int /\ row \notin Nulls(one)
      BY <1>3, <1>9, <2>1 DEF Nulls
    <2>3. DOMAIN v1 # {} /\ DOMAIN v2 # {}
      BY <1>3, <1>4, <1>5, <2>2, CountsSomething
    <2>4. /\ Verify!Min(DOMAIN v1) = Verify!Min(DOMAIN v2) /\ Verify!Max(DOMAIN v1) = Verify!Max(DOMAIN v2)
          /\ Verify!Sum(v1) = Verify!Sum(v2)
      BY <1>1, <1>2, <1>3, <1>4, <2>3, SummaryIs
    <2>5. Verify!Count(v1) <= 3 /\ Verify!Count(v2) <= 3
      BY <1>3, <1>5, <1>6
    <2>6. (IF x \in DOMAIN v1 THEN v1[x] ELSE 0)
            = Times(Verify!Count(v1), Verify!Min(DOMAIN v1), Verify!Max(DOMAIN v1), Verify!Sum(v1), x)
      BY <1>3, <2>2, <2>3, <2>5, FewAreTold
    <2>7. (IF x \in DOMAIN v2 THEN v2[x] ELSE 0)
            = Times(Verify!Count(v2), Verify!Min(DOMAIN v2), Verify!Max(DOMAIN v2), Verify!Sum(v2), x)
      BY <1>4, <2>2, <2>3, <2>5, FewAreTold
    <2>8. (IF x \in DOMAIN v2 THEN v2[x] ELSE 0) = one[row]
      BY <1>5, <2>2, <2>4, <2>6, <2>7
    <2>9. one[row] \in Nat \ {0}
      BY DEF OfKey, IsRows, Bag
    <2>10. x \in DOMAIN v2 /\ v2[x] = one[row]
      BY <2>8, <2>9
    <2>11. PICK other \in DOMAIN two : other["value"] = x
      BY <1>4, <2>10
    <2>12. other = row
      BY <2>1, <2>11, RowIs
    <2>13. row \in DOMAIN two \ Nulls(two)
      BY <1>9, <2>11, <2>12 DEF Nulls
    <2>14. QED
      BY <1>4, <2>1, <2>10, <2>13
  <1>10. QED
    BY <1>8, <1>9

\* The members of the group of a row.
Members(rows, exact, row) ==
    Verify!Restrict(rows, {r \in DOMAIN rows : Verify!Restrict(r, exact) = Verify!Restrict(row, exact)})

\* Where the groups are equal, a row of one side has a group in the other, of as many and the same summary.
LEMMA GroupShared ==
    ASSUME NEW one, NEW two, NEW exact, NEW floats,
           Verify!Groups(one, exact, floats) = Verify!Groups(two, exact, floats), NEW row \in DOMAIN one
    PROVE  \E other \in DOMAIN two :
             /\ Verify!Restrict(other, exact) = Verify!Restrict(row, exact)
             /\ Verify!Count(Members(one, exact, row)) = Verify!Count(Members(two, exact, row))
             /\ \A c \in floats : Verify!Summary(Members(one, exact, row), c)
                                    = Verify!Summary(Members(two, exact, row), c)
  <1> DEFINE In(rows, group) == Verify!Restrict(rows, {r \in DOMAIN rows : Verify!Restrict(r, exact) = group})
             Group(rows, group) == [n |-> Verify!Count(In(rows, group)),
                                    floats |-> [c \in floats |-> Verify!Summary(In(rows, group), c)]]
  <1>1. PICK groups : groups = Verify!Groups(one, exact, floats) /\ groups = Verify!Groups(two, exact, floats)
    OBVIOUS
  <1>2. /\ groups = [group \in {Verify!Restrict(r, exact) : r \in DOMAIN one} |-> Group(one, group)]
        /\ groups = [group \in {Verify!Restrict(r, exact) : r \in DOMAIN two} |-> Group(two, group)]
    BY <1>1 DEF Verify!Groups
  <1>3. PICK g : g = Verify!Restrict(row, exact)
    OBVIOUS
  <1>4. In(one, g) = Members(one, exact, row) /\ In(two, g) = Members(two, exact, row)
    BY <1>3 DEF Members
  <1> HIDE DEF In
  <1>5. /\ g \in DOMAIN groups /\ groups[g] = Group(one, g)
        /\ \E other \in DOMAIN two : Verify!Restrict(other, exact) = g
        /\ groups[g] = Group(two, g)
    <2> HIDE DEF Group
    <2>1. g \in DOMAIN groups /\ groups[g] = Group(one, g)
      BY <1>2, <1>3
    <2>2. DOMAIN groups = {Verify!Restrict(r, exact) : r \in DOMAIN two}
      BY <1>2
    <2>3. groups[g] = Group(two, g)
      BY <1>2, <2>1, <2>2
    <2>4. QED
      BY <2>1, <2>2, <2>3
  <1>6. /\ Verify!Count(In(one, g)) = Verify!Count(In(two, g))
        /\ \A c \in floats : Verify!Summary(In(one, g), c) = Verify!Summary(In(two, g), c)
    <2>1. PICK f1 : f1 = [c \in floats |-> Verify!Summary(In(one, g), c)]
      OBVIOUS
    <2>2. PICK f2 : f2 = [c \in floats |-> Verify!Summary(In(two, g), c)]
      OBVIOUS
    <2>3. Group(one, g).n = Group(two, g).n /\ Group(one, g).floats = Group(two, g).floats
      BY <1>5
    <2>4. Verify!Count(In(one, g)) = Verify!Count(In(two, g)) /\ f1 = f2
      BY <2>1, <2>2, <2>3
    <2>5. QED
      BY <2>1, <2>2, <2>4
  <1>7. QED
    BY <1>3, <1>4, <1>5, <1>6

\* Without a float column, a row of one side is in the other, as often.
LEMMA ExactGroups ==
    ASSUME NEW one, IsRows(one), NEW two, IsRows(two),
           Verify!Groups(one, {"key", "value"}, {}) = Verify!Groups(two, {"key", "value"}, {}),
           NEW row \in DOMAIN one
    PROVE  row \in DOMAIN two /\ one[row] = two[row]
  <1> DEFINE exact == {"key", "value"}
  <1>1. /\ \A r \in DOMAIN one : Verify!Restrict(r, exact) = r
        /\ \A r \in DOMAIN two : Verify!Restrict(r, exact) = r
    BY DEF IsRows, Verify!Restrict
  <1> HIDE DEF exact
  <1>2. PICK other \in DOMAIN two :
             /\ Verify!Restrict(other, exact) = Verify!Restrict(row, exact)
             /\ Verify!Count(Members(one, exact, row)) = Verify!Count(Members(two, exact, row))
    BY GroupShared DEF exact
  <1>3. other = row
    BY <1>1, <1>2
  <1>4. Members(one, exact, row) = Part(one, {row})
    <2>1. {r \in DOMAIN one : Verify!Restrict(r, exact) = Verify!Restrict(row, exact)} = {row}
      BY <1>1
    <2>2. QED
      BY <2>1 DEF Members, Part, Verify!Restrict
  <1>5. Members(two, exact, row) = Part(two, {row})
    <2>1. {r \in DOMAIN two : Verify!Restrict(r, exact) = Verify!Restrict(row, exact)} = {row}
      BY <1>1, <1>3
    <2>2. QED
      BY <2>1 DEF Members, Part, Verify!Restrict
  <1>6. Verify!Count(Part(one, {row})) = one[row] /\ Verify!Count(Part(two, {row})) = two[row]
    BY <1>3, CountOne DEF IsRows
  <1>7. QED
    BY <1>2, <1>3, <1>4, <1>5, <1>6

\* With the values a float column, the same of few rows.
LEMMA FloatGroups ==
    ASSUME NEW one, IsRows(one), NEW two, IsRows(two), Verify!Count(one) <= 3,
           Verify!Groups(one, {"key"}, {"value"}) = Verify!Groups(two, {"key"}, {"value"}),
           NEW row \in DOMAIN one
    PROVE  row \in DOMAIN two /\ one[row] = two[row]
  <1> DEFINE OfRow(rows) == {r \in DOMAIN rows : r["key"] = row["key"]}
  <1>1. ASSUME NEW r PROVE Verify!Restrict(r, {"key"}) = Verify!Restrict(row, {"key"}) <=> r["key"] = row["key"]
    <2>1. PICK f : f = [c \in {"key"} |-> r[c]]
      OBVIOUS
    <2>2. PICK g : g = [c \in {"key"} |-> row[c]]
      OBVIOUS
    <2>3. f = g <=> f["key"] = g["key"]
      BY <2>1, <2>2
    <2>4. QED
      BY <2>1, <2>2, <2>3 DEF Verify!Restrict
  <1>2. Members(one, {"key"}, row) = Part(one, OfRow(one)) /\ Members(two, {"key"}, row) = Part(two, OfRow(two))
    <2>1. /\ {r \in DOMAIN one : Verify!Restrict(r, {"key"}) = Verify!Restrict(row, {"key"})} = OfRow(one)
          /\ {r \in DOMAIN two : Verify!Restrict(r, {"key"}) = Verify!Restrict(row, {"key"})} = OfRow(two)
      BY <1>1
    <2> HIDE DEF OfRow
    <2>2. QED
      BY <2>1 DEF Members, Part, Verify!Restrict
  <1>3. PICK m1 : m1 = Part(one, OfRow(one))
    OBVIOUS
  <1>4. PICK m2 : m2 = Part(two, OfRow(two))
    OBVIOUS
  <1>5. Verify!Count(m1) = Verify!Count(m2) /\ Verify!Summary(m1, "value") = Verify!Summary(m2, "value")
    <2>1. /\ Verify!Count(Members(one, {"key"}, row)) = Verify!Count(Members(two, {"key"}, row))
          /\ Verify!Summary(Members(one, {"key"}, row), "value")
                = Verify!Summary(Members(two, {"key"}, row), "value")
      BY GroupShared
    <2>2. QED
      BY <1>2, <1>3, <1>4, <2>1
  <1>6. /\ OfKey(m1, row["key"]) /\ DOMAIN m1 = OfRow(one) /\ \A r \in OfRow(one) : m1[r] = one[r]
        /\ OfKey(m2, row["key"]) /\ DOMAIN m2 = OfRow(two) /\ \A r \in OfRow(two) : m2[r] = two[r]
    BY <1>3, <1>4, PartIsBag DEF OfKey, IsRows
  <1>7. Verify!Count(m1) <= 3
    <2>1. OfRow(one) \subseteq DOMAIN one
      OBVIOUS
    <2> HIDE DEF OfRow
    <2>2. Verify!Count(m1) <= Verify!Count(one) /\ Verify!Count(m1) \in Nat /\ Verify!Count(one) \in Nat
      BY <1>3, <2>1, PartCountsLess DEF IsRows
    <2>3. QED
      BY <2>2
  <1>8. row \in DOMAIN m1
    BY <1>6
  <1>9. row \in DOMAIN m2 /\ m1[row] = m2[row]
    BY <1>5, <1>6, <1>7, <1>8, MemberShared
  <1>10. QED
    BY <1>6, <1>8, <1>9

\* Equal whichever the float columns, where only few rows may have one, is equal.
LEMMA GroupsEqual ==
    ASSUME NEW one, IsRows(one), NEW two, IsRows(two), NEW floats, floats \in {{}, {"value"}},
           floats = {} \/ (Verify!Count(one) <= 3 /\ Verify!Count(two) <= 3),
           Verify!Groups(one, {"key", "value"} \ floats, floats) = Verify!Groups(two, {"key", "value"} \ floats, floats)
    PROVE  one = two
  <1>1. ASSUME NEW row PROVE /\ row \in DOMAIN one => row \in DOMAIN two /\ one[row] = two[row]
                             /\ row \in DOMAIN two => row \in DOMAIN one
    <2>1. CASE floats = {}
      <3>1. {"key", "value"} \ floats = {"key", "value"}
        BY <2>1
      <3>2. Verify!Groups(one, {"key", "value"}, {}) = Verify!Groups(two, {"key", "value"}, {})
        BY <2>1, <3>1
      <3>3. QED
        BY <3>2, ExactGroups
    <2>2. CASE floats = {"value"}
      <3>1. {"key", "value"} \ floats = {"key"}
        BY <2>2
      <3>2. Verify!Groups(one, {"key"}, {"value"}) = Verify!Groups(two, {"key"}, {"value"})
        BY <2>2, <3>1
      <3>3. Verify!Count(one) <= 3 /\ Verify!Count(two) <= 3
        BY <2>2
      <3>4. QED
        BY <3>2, <3>3, FloatGroups
    <2>3. QED
      BY <2>1, <2>2
  <1>2. DOMAIN one = DOMAIN two
    BY <1>1
  <1>3. one = [row \in DOMAIN one |-> one[row]] /\ two = [row \in DOMAIN two |-> two[row]]
    BY DEF IsRows, Bag
  <1>4. QED
    BY <1>1, <1>2, <1>3

\* Over any rows, for any size of the batches, compare_relations calls equal relations equal; what it calls
\* equal is, of fewer than four rows where the column of values is a float, of any number where it is not.
THEOREM GroupsAreExact == Spec => []GroupedVerdictExact
  <1>1. RowsRead => GroupedVerdictExact
    <2>1. PICK r : r = Relation("reference")
      OBVIOUS
    <2>2. PICK v : v = Relation("view")
      OBVIOUS
    <2>3. PICK one : one = compared["reference"]
      OBVIOUS
    <2>4. PICK two : two = compared["view"]
      OBVIOUS
    <2>5. /\ one = r.rows /\ two = v.rows /\ (one = two => r = v)
          /\ r.columns = {"key", "value"} /\ v.columns = {"key", "value"}
      BY <2>1, <2>2, <2>3, <2>4 DEF Relation
    <2>6. SUFFICES ASSUME RowsRead, NEW size, NEW floats, floats \in {{}, {"value"}}
                   PROVE  /\ one = two => Verify!RelationsAgree(r, v, None, floats, "key", size)
                          /\ floats = {} \/ Verify!Count(two) < 4 =>
                                (Verify!RelationsAgree(r, v, None, floats, "key", size) => one = two)
      BY <2>1, <2>2, <2>3, <2>4 DEF GroupedVerdictExact, Equal
    <2>7. IsRows(one) /\ IsRows(two)
      BY <2>3, <2>4, <2>6 DEF RowsRead
    <2> DEFINE All == Verify!Batches(Verify!KeysOf(r, v, "key"), size) \union {{None}}
               GroupsOf(relation, keys) ==
                    Verify!Groups(Verify!Batch(relation, "key", keys), {"key", "value"} \ floats, floats)
    <2>8. Verify!RelationsAgree(r, v, None, floats, "key", size)
            <=> /\ Verify!Count(one) = Verify!Count(two)
                /\ \A keys \in All : GroupsOf(r, keys) = GroupsOf(v, keys)
      BY <2>5 DEF Verify!RelationsAgree
    <2> HIDE DEF All
    <2>9. ASSUME one = two PROVE Verify!RelationsAgree(r, v, None, floats, "key", size)
      BY <2>5, <2>8, <2>9
    <2>10. ASSUME floats = {} \/ Verify!Count(two) < 4, Verify!RelationsAgree(r, v, None, floats, "key", size)
           PROVE  one = two
      <3>1. ASSUME NEW keys \in All PROVE Verify!Batch(r, "key", keys) = Verify!Batch(v, "key", keys)
        <4>1. PICK b : b = Verify!Batch(r, "key", keys)
          OBVIOUS
        <4>2. PICK c : c = Verify!Batch(v, "key", keys)
          OBVIOUS
        <4>3. IsRows(b) /\ IsRows(c)
          BY <2>5, <2>7, <4>1, <4>2, BatchIs
        <4>4. Verify!Groups(b, {"key", "value"} \ floats, floats) = Verify!Groups(c, {"key", "value"} \ floats, floats)
          BY <2>8, <2>10, <4>1, <4>2
        <4>5. floats = {} \/ (Verify!Count(b) <= 3 /\ Verify!Count(c) <= 3)
          <5>1. /\ b = Part(one, {row \in DOMAIN one : row["key"] \in keys})
                /\ c = Part(two, {row \in DOMAIN two : row["key"] \in keys})
            BY <2>5, <4>1, <4>2 DEF Verify!Batch, Verify!Restrict, Part
          <5>2. /\ Verify!Count(b) <= Verify!Count(one) /\ Verify!Count(b) \in Nat
                /\ Verify!Count(c) <= Verify!Count(two) /\ Verify!Count(c) \in Nat
                /\ Verify!Count(one) \in Nat /\ Verify!Count(two) \in Nat
            BY <2>7, <5>1, PartCountsLess DEF IsRows
          <5>3. Verify!Count(one) = Verify!Count(two)
            BY <2>8, <2>10
          <5>4. QED
            BY <2>10, <5>2, <5>3
        <4>6. QED
          BY <2>6, <4>1, <4>2, <4>3, <4>4, <4>5, GroupsEqual
      <3>2. QED
        BY <2>5, <2>7, <3>1, BatchesEqual DEF All
    <2>11. QED
      BY <2>9, <2>10
  <1>2. QED
    BY <1>1, RowsAreRead, PTL
===============================================================================
