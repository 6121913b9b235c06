--------------------------- MODULE RoutingProofs ---------------------------
(***************************************************************************)
(* Theorems about Routing: whatever rules are declared, in whatever order, *)
(* beside whatever other routes, the proxy's own ranking answers every     *)
(* request as the axum router does; a request reaches a binding only if    *)
(* its template names the path, and the constrained ones before the open;  *)
(* a verb owns its URL; and a table that takes over a request overtakes no *)
(* other route the request reaches.                                        *)
(*                                                                         *)
(* The argument has three parts.  Index::each is shown, by induction on    *)
(* the segments to go, to list the router paths that match in rank order.  *)
(* A template, piece by piece, is shown to name exactly the paths that its *)
(* mounted path matches and Binding::fits lets through.  And every answer  *)
(* is traced to the bindings of a table, of which it is the best.          *)
(***************************************************************************)
EXTENDS Routing, FiniteSetTheorems, SequenceTheorems, WellFoundedInduction, TLAPS

\* Among naturals a well-founded relation has a minimal element.
LEMMA MinimalIn ==
  ASSUME NEW R, IsWellFoundedOn(R, Nat), NEW T \in SUBSET Nat, T # {}
  PROVE  \E x \in T : \A y \in T : ~(<<y, x>> \in R)
  BY WFMin, Zenon

\* For the usual order a minimal element is the least.
LEMMA LeastByOrder ==
  ASSUME NEW R, \A x, y \in Nat : <<x, y>> \in R <=> x < y, NEW T \in SUBSET Nat,
         \E x \in T : \A y \in T : ~(<<y, x>> \in R)
  PROVE  \E x \in T : \A y \in T : x <= y
<1>1. PICK x \in T : \A y \in T : ~(<<y, x>> \in R)
  OBVIOUS
<1>2. x \in Nat /\ \A y \in T : y \in Nat /\ ~(y < x)
  BY <1>1
<1>3. \A y \in T : x <= y
  BY <1>2
<1> QED
  BY <1>3

\* A set of naturals has a least element.
LEMMA LeastIn ==
  \A T : T \in SUBSET Nat /\ T # {} => \E x \in T : \A y \in T : x <= y
<1> DEFINE R == OpToRel(<, Nat)
<1>1. IsWellFoundedOn(R, Nat)
  BY NatLessThanWellFounded
<1>2. \A x, y \in Nat : <<x, y>> \in R <=> x < y
  BY DEF OpToRel
<1> HIDE DEF R
<1> SUFFICES ASSUME NEW T \in SUBSET Nat, T # {} PROVE \E x \in T : \A y \in T : x <= y
  BY Zenon
<1>3. \E x \in T : \A y \in T : ~(<<y, x>> \in R)
  BY <1>1, MinimalIn, Zenon
<1> QED
  BY <1>2, <1>3, LeastByOrder, Zenon

\* Induction over the naturals, with a set for the property.
LEMMA Induction ==
  ASSUME NEW T, 0 \in T, \A n \in Nat : n \in T => n + 1 \in T
  PROVE  Nat \subseteq T
<1> SUFFICES ASSUME Nat \ T # {} PROVE FALSE
  OBVIOUS
<1>1. PICK x \in Nat \ T : \A y \in Nat \ T : x <= y
  BY LeastIn
<1>2. x # 0 /\ x - 1 \in Nat
  BY <1>1
<1>3. x - 1 \in T
  BY <1>1, <1>2
<1> QED
  BY <1>1, <1>2, <1>3

-----------------------------------------------------------------------------
\* Lines as one list.

\* What flattening computes, line by line.
Flattened(f, lines) ==
  f = [i \in 1 .. Len(lines) |-> IF i = 1 THEN lines[i] ELSE f[i - 1] \o lines[i]]

\* There is such a function, since each line only looks at the one before.
LEMMA FlattenedExists ==
  ASSUME NEW S, NEW lines \in Seq(Seq(S))
  PROVE  \E f : Flattened(f, lines)
<1> DEFINE Line(i, x) == IF i = 1 THEN lines[i] ELSE x \o lines[i]
           Part(f, k) == f = [i \in 1 .. k |-> Line(i, f[i - 1])]
           T == {k \in Nat : \E f : Part(f, k)}
<1>0. \A x, y : Line(1, x) = Line(1, y)
  OBVIOUS
<1> HIDE DEF Line
<1>1. 0 \in T
  <2>1. Part([i \in 1 .. 0 |-> <<>>], 0)
    OBVIOUS
  <2> QED
    BY <2>1
<1>2. ASSUME NEW k \in Nat, k \in T PROVE k + 1 \in T
  <2>1. PICK f : Part(f, k)
    BY <1>2
  <2> DEFINE g == [i \in 1 .. k + 1 |-> Line(i, f[i - 1])]
  <2>2. \A i \in 1 .. k : g[i] = f[i]
    BY <2>1
  <2>3. ASSUME NEW i \in 1 .. k + 1 PROVE g[i] = Line(i, g[i - 1])
    <3>1. CASE i = 1
      BY <1>0, <3>1
    <3>2. CASE i # 1
      <4>1. i - 1 \in 1 .. k
        BY <3>2
      <4> QED
        BY <2>2, <4>1
    <3> QED
      BY <3>1, <3>2
  <2>4. g = [i \in 1 .. k + 1 |-> g[i]]
    OBVIOUS
  <2> HIDE DEF g
  <2>5. Part(g, k + 1)
    BY <2>3, <2>4
  <2> QED
    BY <2>5
<1> HIDE DEF T
<1>3. Len(lines) \in T
  BY <1>1, <1>2, Induction
<1>4. PICK f : Part(f, Len(lines))
  BY <1>3 DEF T
<1> QED
  BY <1>4 DEF Flattened, Line

\* FlattenSeq is the last value of the function that joins line after line.
LEMMA FlattenSeqDef ==
  ASSUME NEW S, NEW lines \in Seq(Seq(S)), lines # <<>>
  PROVE  \E f : Flattened(f, lines) /\ FlattenSeq(lines) = f[Len(lines)]
<1> DEFINE g == CHOOSE f : f = [i \in 1 .. Len(lines) |-> IF i = 1 THEN lines[i] ELSE f[i - 1] \o lines[i]]
<1>1. \E f : f = [i \in 1 .. Len(lines) |-> IF i = 1 THEN lines[i] ELSE f[i - 1] \o lines[i]]
  BY FlattenedExists DEF Flattened
<1>2. g = [i \in 1 .. Len(lines) |-> IF i = 1 THEN lines[i] ELSE g[i - 1] \o lines[i]]
  BY <1>1
<1>3. FlattenSeq(lines) = g[Len(lines)]
  BY DEF FlattenSeq
<1> HIDE DEF g
<1> QED
  BY <1>2, <1>3 DEF Flattened

\* Its lines, one by one.
LEMMA FlattenedLine ==
  ASSUME NEW lines, NEW f, Flattened(f, lines), NEW k \in Nat, k # 0, k + 1 \in 1 .. Len(lines)
  PROVE  f[k + 1] = f[k] \o lines[k + 1]
<1> DEFINE n == k + 1
<1>1. n \in 1 .. Len(lines) /\ n - 1 = k /\ n # 1
  OBVIOUS
<1> HIDE DEF n
<1>2. f[n] = IF n = 1 THEN lines[n] ELSE f[n - 1] \o lines[n]
  BY <1>1, Zenon DEF Flattened
<1>3. f[n] = f[n - 1] \o lines[n]
  BY <1>1, <1>2, Zenon
<1>4. f[n] = f[k] \o lines[n]
  BY <1>1, <1>3, Zenon
<1> QED
  BY <1>4, Zenon DEF n

\* Each part of the list is a list.
LEMMA FlattenedType ==
  ASSUME NEW S, NEW lines \in Seq(Seq(S)), NEW f, Flattened(f, lines)
  PROVE  \A i \in 1 .. Len(lines) : f[i] \in Seq(S)
<1> DEFINE T == {k \in Nat : k \in 1 .. Len(lines) => f[k] \in Seq(S)}
<1>1. 0 \in T
  OBVIOUS
<1>2. ASSUME NEW k \in Nat, k \in T PROVE k + 1 \in T
  <2>1. SUFFICES ASSUME k + 1 \in 1 .. Len(lines) PROVE f[k + 1] \in Seq(S)
    OBVIOUS
  <2>2. lines[k + 1] \in Seq(S)
    BY <2>1
  <2>3. CASE k = 0
    BY <2>1, <2>2, <2>3 DEF Flattened
  <2>4. CASE k # 0
    <3>1. f[k] \in Seq(S)
      BY <1>2, <2>1, <2>4
    <3>2. f[k + 1] = f[k] \o lines[k + 1]
      BY <2>1, <2>2, <2>4, FlattenedLine, Zenon
    <3> QED
      BY <2>2, <3>1, <3>2
  <2> QED
    BY <2>3, <2>4
<1> HIDE DEF T
<1>3. Nat \subseteq T
  BY <1>1, <1>2, Induction
<1> QED
  BY <1>3 DEF T

\* A list begins the same way whatever line follows.
LEMMA FlattenedAgree ==
  ASSUME NEW S, NEW lines \in Seq(Seq(S)), NEW line \in Seq(S),
         NEW f, Flattened(f, lines), NEW g, Flattened(g, Append(lines, line))
  PROVE  \A i \in 1 .. Len(lines) : f[i] = g[i]
<1> DEFINE more == Append(lines, line)
<1>0. more \in Seq(Seq(S)) /\ Len(lines) <= Len(more)
      /\ \A i \in 1 .. Len(lines) : more[i] = lines[i] /\ i \in 1 .. Len(more)
  OBVIOUS
<1>00. Flattened(g, more)
  OBVIOUS
<1> HIDE DEF more
<1> DEFINE T == {k \in Nat : k \in 1 .. Len(lines) => f[k] = g[k]}
<1>1. 0 \in T
  OBVIOUS
<1>2. ASSUME NEW k \in Nat, k \in T PROVE k + 1 \in T
  <2>1. SUFFICES ASSUME k + 1 \in 1 .. Len(lines) PROVE f[k + 1] = g[k + 1]
    OBVIOUS
  <2>2. more[k + 1] = lines[k + 1] /\ k + 1 \in 1 .. Len(more)
    BY <1>0, <2>1
  <2>3. CASE k = 0
    BY <1>00, <2>1, <2>2, <2>3 DEF Flattened
  <2>4. CASE k # 0
    <3>1. f[k] = g[k]
      BY <1>2, <2>1, <2>4
    <3>2. f[k + 1] = f[k] \o lines[k + 1]
      BY <2>1, <2>2, <2>4, FlattenedLine, Zenon
    <3>3. g[k + 1] = g[k] \o more[k + 1]
      BY <1>00, <2>1, <2>2, <2>4, FlattenedLine, Zenon
    <3> QED
      BY <2>2, <3>1, <3>2, <3>3
  <2> QED
    BY <2>3, <2>4
<1> HIDE DEF T
<1>3. Nat \subseteq T
  BY <1>1, <1>2, Induction
<1> QED
  BY <1>3 DEF T

\* FlattenSeq is a list, empty when there is no line.
LEMMA FlattenSeqType ==
  ASSUME NEW S, NEW lines \in Seq(Seq(S))
  PROVE  FlattenSeq(lines) \in Seq(S) /\ (lines = <<>> => FlattenSeq(lines) = <<>>)
<1>1. CASE lines = <<>>
  BY <1>1 DEF FlattenSeq
<1>2. CASE lines # <<>>
  <2>1. PICK f : Flattened(f, lines) /\ FlattenSeq(lines) = f[Len(lines)]
    BY <1>2, FlattenSeqDef
  <2>2. Len(lines) \in 1 .. Len(lines)
    BY <1>2
  <2> QED
    BY <1>2, <2>1, <2>2, FlattenedType
<1> QED
  BY <1>1, <1>2

\* A line more is so many elements more.
LEMMA FlattenSeqAppend ==
  ASSUME NEW S, NEW lines \in Seq(Seq(S)), NEW line \in Seq(S)
  PROVE  FlattenSeq(Append(lines, line)) = FlattenSeq(lines) \o line
<1> DEFINE more == Append(lines, line)
<1>0. /\ more \in Seq(Seq(S)) /\ Len(more) = Len(lines) + 1 /\ more[Len(lines) + 1] = line
      /\ \A i \in 1 .. Len(lines) : more[i] = lines[i]
  OBVIOUS
<1>00. more # <<>> /\ Len(lines) \in Nat
  BY <1>0
<1> HIDE DEF more
<1>1. PICK g : Flattened(g, more) /\ FlattenSeq(more) = g[Len(more)]
  BY <1>0, <1>00, FlattenSeqDef
<1>2. CASE lines = <<>>
  <2>1. g[1] = more[1] /\ Len(more) = 1
    BY <1>0, <1>1, <1>2 DEF Flattened
  <2>2. FlattenSeq(lines) = <<>>
    BY <1>2, FlattenSeqType
  <2> QED
    BY <1>0, <1>1, <1>2, <2>1, <2>2 DEF more
<1>3. CASE lines # <<>>
  <2>1. PICK f : Flattened(f, lines) /\ FlattenSeq(lines) = f[Len(lines)]
    BY <1>3, FlattenSeqDef
  <2>2. Len(lines) \in 1 .. Len(lines)
    BY <1>3
  <2>3. f[Len(lines)] = g[Len(lines)]
    BY <1>1, <2>1, <2>2, FlattenedAgree DEF more
  <2>4. g[Len(lines) + 1] = g[Len(lines)] \o more[Len(lines) + 1]
    <3>1. Len(lines) + 1 \in 1 .. Len(more) /\ Len(lines) # 0
      BY <1>0, <1>00, <2>2
    <3> QED
      BY <1>1, <1>00, <3>1, FlattenedLine, Zenon
  <2> QED
    BY <1>0, <1>1, <2>1, <2>3, <2>4 DEF more
<1> QED
  BY <1>2, <1>3

\* One line is its own list.
LEMMA FlattenSeqOne ==
  ASSUME NEW S, NEW line \in Seq(S)
  PROVE  FlattenSeq(<<line>>) = line
<1>1. <<>> \in Seq(Seq(S)) /\ Append(<<>>, line) = <<line>> /\ <<>> \o line = line
  OBVIOUS
<1>2. FlattenSeq(<<>>) = <<>>
  BY <1>1, FlattenSeqType
<1> QED
  BY <1>1, <1>2, FlattenSeqAppend

-----------------------------------------------------------------------------
\* Small facts about the operators of the community modules.

\* Among some naturals there is a least one.
LEMMA MinIn ==
  ASSUME NEW S \in SUBSET Nat, S # {}
  PROVE  Min(S) \in S /\ \A y \in S : Min(S) <= y
<1>1. \E x \in S : \A y \in S : x <= y
  BY LeastIn
<1> QED
  BY <1>1 DEF Min

\* Among some naturals up to a bound there is a greatest one.
LEMMA MaxIn ==
  ASSUME NEW n \in Nat, NEW S \in SUBSET (0 .. n), S # {}
  PROVE  Max(S) \in S /\ \A y \in S : y <= Max(S)
<1> DEFINE D == {k \in Nat : \A y \in S : y <= k}
<1>1. n \in D /\ D \in SUBSET Nat
  OBVIOUS
<1>2. PICK d \in D : \A y \in D : d <= y
  <2> HIDE DEF D
  <2> QED
    BY <1>1, LeastIn
<1>3. d \in S
  <2>1. SUFFICES ASSUME d \notin S PROVE FALSE
    OBVIOUS
  <2>2. \A y \in S : y \in Nat /\ y <= d - 1
    BY <1>2, <2>1
  <2>3. d - 1 \in Nat
    <3>1. PICK y \in S : TRUE
      OBVIOUS
    <3>2. y \in 0 .. n /\ y <= d - 1 /\ d \in Nat
      BY <1>2, <2>2, <3>1
    <3> QED
      BY <3>2
  <2>4. d - 1 \in D
    BY <2>2, <2>3
  <2> QED
    BY <1>2, <2>3, <2>4
<1>4. \E x \in S : \A y \in S : x >= y
  BY <1>2, <1>3
<1>5. Max(S) \in S /\ \A y \in S : Max(S) >= y
  BY <1>4 DEF Max
<1> QED
  BY <1>5

\* The smaller of two.
LEMMA MinOfTwo ==
  ASSUME NEW m \in Nat, NEW n \in Nat
  PROVE  1 .. Min({m, n}) = {i \in 1 .. m : i <= n}
<1>1. {m, n} \in SUBSET Nat /\ {m, n} # {}
  OBVIOUS
<1>2. Min({m, n}) \in {m, n} /\ \A y \in {m, n} : Min({m, n}) <= y
  BY <1>1, MinIn
<1> QED
  BY <1>2

\* SelectInSeq of the answers of a kind.
Selected(seq, kind) == SelectInSeq(seq, LAMBDA a : a.kind = kind)

\* The index it gives is one of the sequence that passes the test.
LEMMA SelectedIs ==
  ASSUME NEW seq, NEW kind, Selected(seq, kind) # 0
  PROVE  Selected(seq, kind) \in 1 .. Len(seq) /\ seq[Selected(seq, kind)].kind = kind
<1> DEFINE I == {i \in 1 .. Len(seq) : seq[i].kind = kind}
<1>1. Selected(seq, kind) = IF I # {} THEN Min(I) ELSE 0
  BY DEF Selected, SelectInSeq
<1>2. I # {} => Min(I) \in I
  <2>1. I \in SUBSET Nat
    OBVIOUS
  <2> HIDE DEF I
  <2> QED
    BY <2>1, MinIn
<1> QED
  BY <1>1, <1>2

\* A set of at most one element as a sequence.
LEMMA SetToSeqSmall ==
  /\ SetToSeq({}) = <<>>
  /\ \A x : SetToSeq({x}) = <<x>>
<1>1. SetToSeq({}) = <<>>
  <2>1. Cardinality({}) = 0
    BY FS_EmptySet
  <2>2. \E f \in [1 .. 0 -> {}] : IsInjective(f)
    <3>1. [i \in 1 .. 0 |-> 0] \in [1 .. 0 -> {}] /\ IsInjective([i \in 1 .. 0 |-> 0])
      BY DEF IsInjective
    <3> QED
      BY <3>1
  <2>3. SetToSeq({}) \in [1 .. 0 -> {}]
    BY <2>1, <2>2 DEF SetToSeq
  <2> QED
    BY <2>3
<1>2. ASSUME NEW x PROVE SetToSeq({x}) = <<x>>
  <2>1. Cardinality({x}) = 1
    BY FS_Singleton
  <2>2. <<x>> \in [1 .. 1 -> {x}] /\ IsInjective(<<x>>)
    BY DEF IsInjective
  <2>3. SetToSeq({x}) \in [1 .. 1 -> {x}]
    BY <2>1, <2>2 DEF SetToSeq
  <2>4. \A f \in [1 .. 1 -> {x}] : f = <<x>>
    OBVIOUS
  <2> QED
    BY <2>3, <2>4
<1> QED
  BY <1>1, <1>2

\* A sequence without one of its elements is a sequence.
LEMMA RemoveFirstType ==
  ASSUME NEW S, NEW s \in Seq(S), NEW e
  PROVE  RemoveFirst(s, e) \in Seq(S)
<1>1. CASE \E i \in 1 .. Len(s) : s[i] = e
  <2> DEFINE at == SelectInSeq(s, LAMBDA v : v = e)
             I == {i \in 1 .. Len(s) : s[i] = e}
  <2>1. at = Min(I)
    BY <1>1 DEF SelectInSeq
  <2>2. I \in SUBSET Nat /\ I # {}
    BY <1>1
  <2>3. Min(I) \in I
    <3> HIDE DEF I
    <3> QED
      BY <2>2, MinIn
  <2>4. at \in 1 .. Len(s) /\ Len(s) \in Nat
    BY <2>1, <2>3
  <2>5. RemoveFirst(s, e) = SubSeq(s, 1, at - 1) \o SubSeq(s, at + 1, Len(s))
    BY <1>1 DEF RemoveFirst, RemoveAt
  <2> HIDE DEF at
  <2>6. SubSeq(s, 1, at - 1) \in Seq(S) /\ SubSeq(s, at + 1, Len(s)) \in Seq(S)
    BY <2>4
  <2> QED
    BY <2>5, <2>6
<1>2. CASE ~\E i \in 1 .. Len(s) : s[i] = e
  BY <1>2 DEF RemoveFirst
<1> QED
  BY <1>1, <1>2

-----------------------------------------------------------------------------
\* The order of router paths.

\* Before, position by position.
LEMMA BeforeIs ==
  ASSUME NEW a, RouterPath(a), NEW b, RouterPath(b)
  PROVE  Before(a, b) <=> \E i \in 1 .. Len(a) : /\ i <= Len(b) /\ Rank(a[i]) < Rank(b[i])
                                                 /\ \A j \in 1 .. i - 1 : a[j] = b[j]
<1>0. a \in Seq(ToSet(a)) /\ b \in Seq(ToSet(b)) /\ Len(a) \in Nat /\ Len(b) \in Nat
  BY DEF RouterPath
<1>1. 1 .. Min({Len(a), Len(b)}) = {i \in 1 .. Len(a) : i <= Len(b)}
  BY <1>0, MinOfTwo
<1>2. ASSUME NEW i \in 1 .. Len(a), i <= Len(b)
      PROVE  SubSeq(a, 1, i - 1) = SubSeq(b, 1, i - 1) <=> \A j \in 1 .. i - 1 : a[j] = b[j]
  <2>1. SubSeq(a, 1, i - 1) = [j \in 1 .. i - 1 |-> a[j]]
    BY <1>0, <1>2
  <2>2. SubSeq(b, 1, i - 1) = [j \in 1 .. i - 1 |-> b[j]]
    BY <1>0, <1>2
  <2> QED
    BY <2>1, <2>2
<1> QED
  BY <1>1, <1>2 DEF Before

\* Ranks are numbers.
LEMMA RankIs ==
  /\ \A seg : Rank(seg) \in 0 .. 2
  /\ Rank(RestSeg) = 2 /\ Rank(AnySeg) = 1
  /\ \A seg : seg # AnySeg /\ seg # RestSeg => Rank(seg) = 0
<1>1. AnySeg # RestSeg
  BY DEF AnySeg, RestSeg
<1>2. \A seg : Rank(seg) = IF seg = RestSeg THEN 2 ELSE IF seg = AnySeg THEN 1 ELSE 0
  BY <1>1 DEF Rank
<1> QED
  BY <1>1, <1>2

\* Of two paths at most one comes before the other.
LEMMA BeforeAsymmetric ==
  ASSUME NEW a, RouterPath(a), NEW b, RouterPath(b), Before(a, b)
  PROVE  ~Before(b, a)
<1>0. Len(a) \in Nat /\ Len(b) \in Nat
  BY DEF RouterPath
<1>1. PICK i \in 1 .. Len(a) : /\ i <= Len(b) /\ Rank(a[i]) < Rank(b[i])
                               /\ \A j \in 1 .. i - 1 : a[j] = b[j]
  BY BeforeIs
<1>2. SUFFICES ASSUME NEW k \in 1 .. Len(b), k <= Len(a), Rank(b[k]) < Rank(a[k]),
                      \A j \in 1 .. k - 1 : b[j] = a[j]
               PROVE  FALSE
  BY BeforeIs
<1>3. Rank(a[i]) \in Nat /\ Rank(b[i]) \in Nat /\ Rank(a[k]) \in Nat /\ Rank(b[k]) \in Nat
  BY RankIs
<1>4. CASE i = k
  BY <1>1, <1>2, <1>3, <1>4
<1>5. CASE i < k
  <2>1. i \in 1 .. k - 1
    BY <1>0, <1>1, <1>5
  <2> QED
    BY <1>1, <1>2, <1>3, <2>1
<1>6. CASE k < i
  <2>1. k \in 1 .. i - 1
    BY <1>0, <1>1, <1>6
  <2> QED
    BY <1>1, <1>2, <1>3, <2>1
<1> QED
  BY <1>0, <1>1, <1>4, <1>5, <1>6

-----------------------------------------------------------------------------
\* What Visiting computes.

VisitAll(P, path, left, below) == [Q \in SUBSET P |-> Visit(path, left, below, Q)]
Visited(visit, P, path) ==
  visit = [left \in 0 .. Len(path) |-> VisitAll(P, path, left, visit[left - 1])]

\* There is such a function: with no segment to go nothing is below.
LEMMA VisitedExists ==
  ASSUME NEW P, NEW S, NEW path \in Seq(S)
  PROVE  \E visit : Visited(visit, P, path)
<1> DEFINE At(n, x) == VisitAll(P, path, n, x)
           Part(f, k) == f = [n \in 0 .. k |-> At(n, f[n - 1])]
           T == {k \in Nat : \E f : Part(f, k)}
<1>0. \A x, y : At(0, x) = At(0, y)
  <2> SUFFICES ASSUME NEW x, NEW y PROVE At(0, x) = At(0, y)
    OBVIOUS
  <2>1. \A Q \in SUBSET P : Visit(path, 0, x, Q) = Visit(path, 0, y, Q)
    BY DEF Visit
  <2> QED
    BY <2>1 DEF VisitAll
<1> HIDE DEF At
<1>1. 0 \in T
  <2> DEFINE f == [n \in 0 .. 0 |-> At(0, 0)]
  <2>1. \A n \in 0 .. 0 : f[n] = At(n, f[n - 1])
    BY <1>0
  <2>2. f = [n \in 0 .. 0 |-> f[n]]
    OBVIOUS
  <2> HIDE DEF f
  <2>3. Part(f, 0)
    BY <2>1, <2>2
  <2> QED
    BY <2>3
<1>2. ASSUME NEW k \in Nat, k \in T PROVE k + 1 \in T
  <2>1. PICK f : Part(f, k)
    BY <1>2
  <2> DEFINE g == [n \in 0 .. k + 1 |-> At(n, f[n - 1])]
  <2>2. \A n \in 0 .. k : g[n] = f[n]
    BY <2>1
  <2>3. ASSUME NEW n \in 0 .. k + 1 PROVE g[n] = At(n, g[n - 1])
    <3>1. CASE n = 0
      BY <1>0, <3>1
    <3>2. CASE n # 0
      <4>1. n - 1 \in 0 .. k
        BY <3>2
      <4> QED
        BY <2>2, <4>1
    <3> QED
      BY <3>1, <3>2
  <2>4. g = [n \in 0 .. k + 1 |-> g[n]]
    OBVIOUS
  <2> HIDE DEF g
  <2>5. [n \in 0 .. k + 1 |-> g[n]] = [n \in 0 .. k + 1 |-> At(n, g[n - 1])]
    BY <2>3
  <2>6. Part(g, k + 1)
    BY <2>4, <2>5
  <2> HIDE DEF Part
  <2>7. \E f2 : Part(f2, k + 1)
    BY <2>6
  <2> QED
    BY <2>7
<1> HIDE DEF T
<1>3. Len(path) \in T
  BY <1>1, <1>2, Induction
<1>4. PICK f : Part(f, Len(path))
  BY <1>3 DEF T
<1> QED
  BY <1>4 DEF At, Visited

\* The visit of each segment is a step on that of the next.
LEMMA VisitingDef ==
  ASSUME NEW P, NEW S, NEW path \in Seq(S)
  PROVE  \A left \in 0 .. Len(path) : \A Q \in SUBSET P :
           Visiting(P, path)[left][Q] = Visit(path, left, Visiting(P, path)[left - 1], Q)
<1> DEFINE g == CHOOSE visit : Visited(visit, P, path)
<1>0. \E visit : Visited(visit, P, path)
  BY VisitedExists
<1>1. Visited(g, P, path)
  BY <1>0, Zenon
<1>2. Visiting(P, path) = g
  BY DEF Visiting, Visited, VisitAll
<1> HIDE DEF g
<1>3. ASSUME NEW left \in 0 .. Len(path), NEW Q \in SUBSET P
      PROVE  g[left][Q] = Visit(path, left, g[left - 1], Q)
  <2>1. g[left] = VisitAll(P, path, left, g[left - 1])
    BY <1>1 DEF Visited
  <2> QED
    BY <2>1 DEF VisitAll
<1> QED
  BY <1>2, <1>3

-----------------------------------------------------------------------------
\* Lists in rank order.

\* V holds the paths of M, each before the next.
InRank(V, M) ==
  /\ V \in Seq(M) /\ \A s \in M : \E i \in 1 .. Len(V) : V[i] = s
  /\ \A i, j \in 1 .. Len(V) : i < j => Before(V[i], V[j])

\* None, and one.
LEMMA InRankSmall ==
  ASSUME NEW M, \A s, t \in M : s = t
  PROVE  InRank(SetToSeq(M), M)
<1>1. CASE M = {}
  <2>1. SetToSeq(M) = <<>>
    BY <1>1, SetToSeqSmall
  <2>2. <<>> \in Seq(M) /\ Len(<<>>) = 0
    OBVIOUS
  <2>3. InRank(<<>>, M)
    BY <1>1, <2>2 DEF InRank
  <2> QED
    BY <2>1, <2>3
<1>2. CASE M # {}
  <2>1. PICK x \in M : TRUE
    BY <1>2
  <2>2. M = {x}
    BY <2>1
  <2>3. SetToSeq(M) = <<x>>
    BY <2>2, SetToSeqSmall
  <2>4. <<x>> \in Seq(M) /\ Len(<<x>>) = 1 /\ <<x>>[1] = x
    BY <2>1
  <2>5. InRank(<<x>>, M)
    BY <2>2, <2>4 DEF InRank
  <2> QED
    BY <2>3, <2>5
<1> QED
  BY <1>1, <1>2

\* One list behind another, when the paths of one come before those of the other.
LEMMA InRankJoin ==
  ASSUME NEW V, NEW M, InRank(V, M), NEW W, NEW N, InRank(W, N),
         \A s \in M, t \in N : Before(s, t)
  PROVE  InRank(V \o W, M \cup N)
<1> DEFINE B == M \cup N
           X == V \o W
<1>1. /\ V \in Seq(M) /\ W \in Seq(N) /\ Len(V) \in Nat /\ Len(W) \in Nat
      /\ \A i \in 1 .. Len(V) : V[i] \in M
      /\ \A i \in 1 .. Len(W) : W[i] \in N
  BY DEF InRank
<1>2. V \in Seq(B) /\ W \in Seq(B)
  BY <1>1
<1>3. /\ X \in Seq(B) /\ Len(X) = Len(V) + Len(W)
      /\ \A i \in 1 .. Len(X) : X[i] = IF i <= Len(V) THEN V[i] ELSE W[i - Len(V)]
  BY <1>2
<1> HIDE DEF X
<1>4. ASSUME NEW s \in B PROVE \E i \in 1 .. Len(X) : X[i] = s
  <2>1. CASE s \in M
    <3>1. PICK i \in 1 .. Len(V) : V[i] = s
      BY <2>1 DEF InRank
    <3>2. i \in 1 .. Len(X) /\ X[i] = s
      BY <1>1, <1>3, <3>1
    <3> QED
      BY <3>2
  <2>2. CASE s \in N
    <3>1. PICK i \in 1 .. Len(W) : W[i] = s
      BY <2>2 DEF InRank
    <3> DEFINE k == Len(V) + i
    <3>2. k \in 1 .. Len(X) /\ ~(k <= Len(V)) /\ k - Len(V) = i
      BY <1>1, <1>3, <3>1
    <3> HIDE DEF k
    <3>3. X[k] = s
      BY <1>3, <3>1, <3>2
    <3> QED
      BY <3>2, <3>3
  <2> QED
    BY <2>1, <2>2
<1>5. ASSUME NEW i \in 1 .. Len(X), NEW j \in 1 .. Len(X), i < j PROVE Before(X[i], X[j])
  <2>1. CASE j <= Len(V)
    <3>1. i \in 1 .. Len(V) /\ j \in 1 .. Len(V) /\ X[i] = V[i] /\ X[j] = V[j]
      BY <1>1, <1>3, <1>5, <2>1
    <3> QED
      BY <1>5, <3>1 DEF InRank
  <2>2. CASE Len(V) < i
    <3> DEFINE a == i - Len(V)
               b == j - Len(V)
    <3>1. a \in 1 .. Len(W) /\ b \in 1 .. Len(W) /\ a < b /\ X[i] = W[a] /\ X[j] = W[b]
      BY <1>1, <1>3, <1>5, <2>2
    <3> HIDE DEF a, b
    <3> QED
      BY <3>1 DEF InRank
  <2>3. CASE i <= Len(V) /\ Len(V) < j
    <3> DEFINE b == j - Len(V)
    <3>1. i \in 1 .. Len(V) /\ b \in 1 .. Len(W) /\ X[i] = V[i] /\ X[j] = W[b]
      BY <1>1, <1>3, <1>5, <2>3
    <3> HIDE DEF b
    <3>2. V[i] \in M /\ W[b] \in N
      BY <1>1, <3>1
    <3> QED
      BY <3>1, <3>2
  <2> QED
    BY <1>1, <1>3, <2>1, <2>2, <2>3
<1>6. InRank(X, B)
  <2> HIDE DEF B
  <2> QED
    BY <1>3, <1>4, <1>5 DEF InRank
<1> QED
  BY <1>6 DEF X

-----------------------------------------------------------------------------
\* Matching, segment by segment.

\* Whether the router path takes the request's segment i.
TakesAt(s, path, i) ==
  \/ s[i] = path[i]
  \/ s[i] = AnySeg /\ (path[i] # Empty \/ i < Len(path) \/ EmptyLast)

\* A request's path.
RequestPath(path) ==
  /\ path \in Seq(ToSet(path)) /\ path # <<>>
  /\ \A i \in 1 .. Len(path) : path[i] # AnySeg /\ path[i] # RestSeg

\* The router paths of Q are alike in their first k segments, which take those
\* of the request.
Reached(Q, path, k) ==
  \A s \in Q :
    /\ RouterPath(s) /\ Len(s) >= k
    /\ \A i \in 1 .. k : s[i] # RestSeg /\ TakesAt(s, path, i) /\ \A t \in Q : s[i] = t[i]

\* PathMatches in those terms.
LEMMA MatchesIs ==
  ASSUME NEW s, NEW path
  PROVE  PathMatches(s, path) <=>
           IF s[Len(s)] = RestSeg
           THEN /\ Len(path) >= Len(s) /\ \A i \in 1 .. Len(s) - 1 : TakesAt(s, path, i)
                /\ ~(Len(path) = Len(s) /\ path[Len(s)] = Empty)
           ELSE Len(path) = Len(s) /\ \A i \in 1 .. Len(s) : TakesAt(s, path, i)
BY DEF PathMatches, TakesAt

\* What a router path is.
LEMMA RouterPathIs ==
  ASSUME NEW s, RouterPath(s)
  PROVE  s \in Seq(ToSet(s)) /\ Len(s) \in Nat /\ Len(s) >= 1 /\ DOMAIN s = 1 .. Len(s)
         /\ s = [i \in 1 .. Len(s) |-> s[i]] /\ \A i \in 1 .. Len(s) - 1 : s[i] # RestSeg
<1>1. s \in Seq(ToSet(s)) /\ s # <<>> /\ \A i \in 1 .. Len(s) - 1 : s[i] # RestSeg
  BY DEF RouterPath
<1> QED
  BY <1>1

\* Router paths of one length that are alike are one.
LEMMA SamePath ==
  ASSUME NEW s, RouterPath(s), NEW t, RouterPath(t), Len(s) = Len(t),
         \A i \in 1 .. Len(s) : s[i] = t[i]
  PROVE  s = t
<1>1. s = [i \in 1 .. Len(s) |-> s[i]] /\ t = [i \in 1 .. Len(t) |-> t[i]]
  BY RouterPathIs
<1> QED
  BY <1>1

\* With no segment to go: a path of the request's length is the one that matches.
LEMMA VisitLast ==
  ASSUME NEW path, RequestPath(path), NEW Q, Reached(Q, path, Len(path))
  PROVE  /\ {s \in Q : Len(s) = Len(path)} = Matching(Q, path)
         /\ \A s, t \in Matching(Q, path) : s = t
<1>0. Len(path) \in Nat /\ Len(path) >= 1
  BY DEF RequestPath
<1>1. ASSUME NEW s \in Q PROVE Len(s) = Len(path) <=> PathMatches(s, path)
  <2>1. RouterPath(s) /\ Len(s) >= Len(path)
        /\ \A i \in 1 .. Len(path) : s[i] # RestSeg /\ TakesAt(s, path, i)
    BY DEF Reached
  <2>2. Len(s) \in Nat
    BY <2>1, RouterPathIs
  <2>3. CASE Len(s) = Len(path)
    <3>1. s[Len(s)] # RestSeg /\ \A i \in 1 .. Len(s) : TakesAt(s, path, i)
      BY <1>0, <2>1, <2>3
    <3> QED
      BY <2>3, <3>1, MatchesIs
  <2>4. CASE Len(s) # Len(path)
    <3>1. ~(Len(path) >= Len(s))
      BY <1>0, <2>1, <2>2, <2>4
    <3> QED
      BY <2>4, <3>1, MatchesIs
  <2> QED
    BY <2>3, <2>4
<1>2. {s \in Q : Len(s) = Len(path)} = Matching(Q, path)
  BY <1>1 DEF Matching
<1>3. ASSUME NEW s \in Q, NEW t \in Q, Len(s) = Len(path), Len(t) = Len(path) PROVE s = t
  <2>1. RouterPath(s) /\ RouterPath(t) /\ \A i \in 1 .. Len(path) : s[i] = t[i]
    BY DEF Reached
  <2> QED
    BY <1>3, <2>1, SamePath
<1> QED
  BY <1>2, <1>3

\* The paths of Q with a segment at i.
With(Q, i, seg) == {s \in Q : Len(s) >= i /\ s[i] = seg}

\* With a segment to go, a path that matches has there the request's own segment,
\* a variable or a catch-all.
LEMMA MatchSplit ==
  ASSUME NEW path, RequestPath(path), NEW i \in 1 .. Len(path),
         NEW Q, Reached(Q, path, i - 1), NEW s \in Q, PathMatches(s, path)
  PROVE  /\ Len(s) >= i
         /\ \/ s[i] = path[i]
            \/ s[i] = AnySeg /\ (path[i] # Empty \/ i < Len(path) \/ EmptyLast)
            \/ s[i] = RestSeg /\ ~(i = Len(path) /\ path[i] = Empty)
<1>0. Len(path) \in Nat
  BY DEF RequestPath
<1>1. RouterPath(s) /\ Len(s) >= i - 1 /\ \A j \in 1 .. i - 1 : s[j] # RestSeg
  BY DEF Reached
<1>2. Len(s) \in Nat /\ Len(s) >= 1 /\ \A j \in 1 .. Len(s) - 1 : s[j] # RestSeg
  BY <1>1, RouterPathIs
<1>3. CASE s[Len(s)] = RestSeg
  <2>1. /\ Len(path) >= Len(s) /\ \A j \in 1 .. Len(s) - 1 : TakesAt(s, path, j)
        /\ ~(Len(path) = Len(s) /\ path[Len(s)] = Empty)
    BY <1>3, MatchesIs
  <2>2. Len(s) >= i
    BY <1>0, <1>1, <1>2, <1>3
  <2>3. CASE i = Len(s)
    BY <1>3, <2>1, <2>3
  <2>4. CASE i # Len(s)
    <3>1. i \in 1 .. Len(s) - 1
      BY <1>0, <1>2, <2>2, <2>4
    <3> QED
      BY <2>1, <2>2, <3>1 DEF TakesAt
  <2> QED
    BY <2>3, <2>4
<1>4. CASE s[Len(s)] # RestSeg
  <2>1. Len(path) = Len(s) /\ \A j \in 1 .. Len(s) : TakesAt(s, path, j)
    BY <1>4, MatchesIs
  <2> QED
    BY <1>0, <2>1 DEF TakesAt
<1> QED
  BY <1>3, <1>4

\* A segment further.
LEMMA ReachedOn ==
  ASSUME NEW path, RequestPath(path), NEW i \in 1 .. Len(path), NEW Q, Reached(Q, path, i - 1),
         NEW seg, seg # RestSeg,
         seg = path[i] \/ (seg = AnySeg /\ (path[i] # Empty \/ i < Len(path) \/ EmptyLast))
  PROVE  Reached(With(Q, i, seg), path, i)
<1>0. Len(path) \in Nat
  BY DEF RequestPath
<1> SUFFICES ASSUME NEW s \in With(Q, i, seg)
             PROVE  /\ RouterPath(s) /\ Len(s) >= i
                    /\ \A j \in 1 .. i : s[j] # RestSeg /\ TakesAt(s, path, j)
                                         /\ \A t \in With(Q, i, seg) : s[j] = t[j]
  BY DEF Reached
<1>1. s \in Q /\ Len(s) >= i /\ s[i] = seg /\ \A t \in With(Q, i, seg) : t \in Q /\ t[i] = seg
  BY DEF With
<1>2. RouterPath(s) /\ \A j \in 1 .. i - 1 : s[j] # RestSeg /\ TakesAt(s, path, j) /\ \A t \in Q : s[j] = t[j]
  BY <1>1 DEF Reached
<1>3. TakesAt(s, path, i)
  BY <1>1 DEF TakesAt
<1>4. \A j \in 1 .. i : j = i \/ j \in 1 .. i - 1
  BY <1>0
<1> QED
  BY <1>1, <1>2, <1>3, <1>4

\* A catch-all matches what is left, unless that is one empty segment; there is
\* one at most.
LEMMA RestMatches ==
  ASSUME NEW path, RequestPath(path), NEW i \in 1 .. Len(path), NEW Q, Reached(Q, path, i - 1)
  PROVE  /\ \A s \in With(Q, i, RestSeg) : ~(i = Len(path) /\ path[i] = Empty) => PathMatches(s, path)
         /\ \A s, t \in With(Q, i, RestSeg) : s = t
<1>0. Len(path) \in Nat
  BY DEF RequestPath
<1>1. ASSUME NEW s \in With(Q, i, RestSeg)
      PROVE  /\ s \in Q /\ RouterPath(s) /\ Len(s) = i /\ s[i] = RestSeg
             /\ \A j \in 1 .. i - 1 : TakesAt(s, path, j) /\ \A t \in Q : s[j] = t[j]
  <2>1. s \in Q /\ Len(s) >= i /\ s[i] = RestSeg
    BY DEF With
  <2>2. RouterPath(s) /\ \A j \in 1 .. i - 1 : TakesAt(s, path, j) /\ \A t \in Q : s[j] = t[j]
    BY <2>1 DEF Reached
  <2>3. Len(s) \in Nat /\ \A j \in 1 .. Len(s) - 1 : s[j] # RestSeg
    BY <2>2, RouterPathIs
  <2>4. Len(s) = i
    BY <1>0, <2>1, <2>3
  <2> QED
    BY <2>1, <2>2, <2>4
<1>2. ASSUME NEW s \in With(Q, i, RestSeg), ~(i = Len(path) /\ path[i] = Empty)
      PROVE  PathMatches(s, path)
  <2>1. /\ s[Len(s)] = RestSeg /\ Len(path) >= Len(s) /\ \A j \in 1 .. Len(s) - 1 : TakesAt(s, path, j)
        /\ ~(Len(path) = Len(s) /\ path[Len(s)] = Empty)
    BY <1>0, <1>1, <1>2
  <2> QED
    BY <2>1, MatchesIs
<1>3. ASSUME NEW s \in With(Q, i, RestSeg), NEW t \in With(Q, i, RestSeg) PROVE s = t
  <2>1. /\ RouterPath(s) /\ RouterPath(t) /\ Len(s) = i /\ Len(t) = i /\ t \in Q
        /\ s[i] = t[i] /\ \A j \in 1 .. i - 1 : \A u \in Q : s[j] = u[j]
    BY <1>1
  <2>2. \A j \in 1 .. Len(s) : s[j] = t[j]
    <3>1. \A j \in 1 .. i : j = i \/ j \in 1 .. i - 1
      BY <1>0
    <3> QED
      BY <2>1, <3>1
  <2> QED
    BY <2>1, <2>2, SamePath
<1> QED
  BY <1>2, <1>3

\* Paths that part at i are ranked there.
LEMMA ParsBefore ==
  ASSUME NEW path, RequestPath(path), NEW i \in 1 .. Len(path), NEW Q, Reached(Q, path, i - 1),
         NEW a, NEW b, Rank(a) < Rank(b)
  PROVE  \A s \in With(Q, i, a), t \in With(Q, i, b) : Before(s, t)
<1> SUFFICES ASSUME NEW s \in With(Q, i, a), NEW t \in With(Q, i, b) PROVE Before(s, t)
  OBVIOUS
<1>1. s \in Q /\ t \in Q /\ Len(s) >= i /\ Len(t) >= i /\ s[i] = a /\ t[i] = b
  BY DEF With
<1>2. RouterPath(s) /\ RouterPath(t) /\ \A j \in 1 .. i - 1 : s[j] = t[j]
  BY <1>1 DEF Reached
<1>3. Len(s) \in Nat /\ Len(path) \in Nat
  BY <1>2, RouterPathIs DEF RequestPath
<1>4. i \in 1 .. Len(s) /\ i <= Len(t) /\ Rank(s[i]) < Rank(t[i])
  BY <1>1, <1>3
<1> QED
  BY <1>2, <1>4, BeforeIs

\* Nothing is in rank.
LEMMA InRankNone == InRank(<<>>, {})
<1>1. SetToSeq({}) = <<>>
  BY SetToSeqSmall
<1>2. InRank(SetToSeq({}), {})
  BY InRankSmall
<1> QED
  BY <1>1, <1>2

\* With a segment to go: literals, the variable and the catch-all in this order.
LEMMA VisitMore ==
  ASSUME NEW path, RequestPath(path), NEW left \in 1 .. Len(path),
         NEW Q, Reached(Q, path, Len(path) - left), NEW below,
         \A R \in SUBSET Q : Reached(R, path, Len(path) - left + 1) => InRank(below[R], Matching(R, path))
  PROVE  InRank(Visit(path, left, below, Q), Matching(Q, path))
<1> DEFINE i == Len(path) - left + 1
           blank == left = 1 /\ path[i] = Empty
           QA == With(Q, i, path[i])
           QB == With(Q, i, AnySeg)
           QC == With(Q, i, RestSeg)
           A == Matching(QA, path)
           B == IF ~blank \/ EmptyLast THEN Matching(QB, path) ELSE {}
           C == IF ~blank THEN QC ELSE {}
           a == below[QA]
           b == IF ~blank \/ EmptyLast THEN below[QB] ELSE <<>>
           c == IF ~blank THEN SetToSeq(QC) ELSE <<>>
<1>0. Len(path) \in Nat /\ \A j \in 1 .. Len(path) : path[j] # AnySeg /\ path[j] # RestSeg
  BY DEF RequestPath
<1>1. i \in 1 .. Len(path) /\ i - 1 = Len(path) - left /\ (left = 1 <=> i = Len(path)) /\ (left = 1 <=> ~(i < Len(path)))
  BY <1>0
<1>2. Reached(Q, path, i - 1)
  BY <1>1
<1>3. path[i] # AnySeg /\ path[i] # RestSeg /\ AnySeg # RestSeg
  BY <1>0, <1>1 DEF AnySeg, RestSeg
<1>4. \A R \in SUBSET Q : Reached(R, path, i) => InRank(below[R], Matching(R, path))
  OBVIOUS
<1>5. CASE Q = {}
  <2>1. Visit(path, left, below, Q) = <<>>
    BY <1>5 DEF Visit
  <2>2. Matching(Q, path) = {}
    BY <1>5 DEF Matching
  <2> QED
    BY <2>1, <2>2, InRankNone
<1>6. CASE Q # {}
  <2>1. Visit(path, left, below, Q) = (a \o b) \o c
    <3>1. left # 0
      BY <1>0
    <3> QED
      BY <1>6, <3>1 DEF Visit, With
  <2>10. blank <=> (i = Len(path) /\ path[i] = Empty)
    BY <1>1
  <2>11. (~blank \/ EmptyLast) <=> (path[i] # Empty \/ i < Len(path) \/ EmptyLast)
    BY <1>1, EmptyLastAssumption
  <2> HIDE DEF i, blank
  <2>12. QA \in SUBSET Q /\ QB \in SUBSET Q /\ QC \in SUBSET Q
    BY DEF With
  <2>2. InRank(a, A)
    <3>1. Reached(QA, path, i)
      BY <1>1, <1>2, <1>3, ReachedOn
    <3> QED
      BY <1>4, <2>12, <3>1
  <2>3. InRank(b, B)
    <3>1. CASE ~blank \/ EmptyLast
      <4>1. Reached(QB, path, i)
        BY <1>1, <1>2, <1>3, <2>11, <3>1, ReachedOn
      <4> QED
        BY <1>4, <2>12, <3>1, <4>1
    <3>2. CASE ~(~blank \/ EmptyLast)
      BY <3>2, InRankNone
    <3> QED
      BY <3>1, <3>2
  <2>4. InRank(c, C)
    <3>1. CASE ~blank
      <4>1. \A s, t \in QC : s = t
        BY <1>1, <1>2, RestMatches
      <4> HIDE DEF QC
      <4>2. InRank(SetToSeq(QC), QC)
        BY <4>1, InRankSmall
      <4> QED
        BY <3>1, <4>2
    <3>2. CASE blank
      BY <3>2, InRankNone
    <3> QED
      BY <3>1, <3>2
  <2>5. A \subseteq QA /\ B \subseteq QB /\ C \subseteq QC
    BY DEF Matching
  <2>6. Rank(path[i]) = 0 /\ Rank(AnySeg) = 1 /\ Rank(RestSeg) = 2
    BY <1>3, RankIs
  <2>7. Matching(Q, path) = (A \cup B) \cup C
    <3>1. ASSUME NEW s \in Matching(Q, path) PROVE s \in (A \cup B) \cup C
      <4>1. s \in Q /\ PathMatches(s, path)
        BY DEF Matching
      <4>2. /\ Len(s) >= i
            /\ \/ s[i] = path[i]
               \/ s[i] = AnySeg /\ (path[i] # Empty \/ i < Len(path) \/ EmptyLast)
               \/ s[i] = RestSeg /\ ~(i = Len(path) /\ path[i] = Empty)
        BY <1>1, <1>2, <4>1, MatchSplit
      <4>3. CASE s[i] = path[i]
        <5>1. s \in QA
          BY <4>1, <4>2, <4>3 DEF With
        <5> QED
          BY <4>1, <5>1 DEF Matching
      <4>4. CASE s[i] = AnySeg /\ (~blank \/ EmptyLast)
        <5>1. s \in QB
          BY <4>1, <4>2, <4>4 DEF With
        <5> QED
          BY <4>1, <4>4, <5>1 DEF Matching
      <4>5. CASE s[i] = RestSeg /\ ~blank
        <5>1. s \in QC
          BY <4>1, <4>2, <4>5 DEF With
        <5> QED
          BY <4>5, <5>1
      <4> QED
        BY <2>10, <2>11, <4>2, <4>3, <4>4, <4>5
    <3>2. A \subseteq Matching(Q, path) /\ B \subseteq Matching(Q, path)
      BY <2>12 DEF Matching
    <3>3. C \subseteq Matching(Q, path)
      <4>1. ~blank => \A s \in QC : PathMatches(s, path)
        BY <1>1, <1>2, <2>10, RestMatches
      <4> QED
        BY <2>12, <4>1 DEF Matching
    <3> QED
      BY <3>1, <3>2, <3>3
  <2>8. /\ \A s \in A, t \in B : Before(s, t)
        /\ \A s \in A \cup B, t \in C : Before(s, t)
    <3>1. \A s \in QA, t \in QB : Before(s, t)
      <4>1. Rank(path[i]) < Rank(AnySeg)
        BY <2>6
      <4> QED
        BY <1>1, <1>2, <4>1, ParsBefore
    <3>2. \A s \in QA, t \in QC : Before(s, t)
      <4>1. Rank(path[i]) < Rank(RestSeg)
        BY <2>6
      <4> QED
        BY <1>1, <1>2, <4>1, ParsBefore
    <3>3. \A s \in QB, t \in QC : Before(s, t)
      <4>1. Rank(AnySeg) < Rank(RestSeg)
        BY <2>6
      <4> QED
        BY <1>1, <1>2, <4>1, ParsBefore
    <3> HIDE DEF A, B, C, QA, QB, QC
    <3> QED
      BY <2>5, <3>1, <3>2, <3>3
  <2> HIDE DEF A, B, C, QA, QB, QC, a, b, c
  <2>9. InRank(a \o b, A \cup B)
    BY <2>2, <2>3, <2>8, InRankJoin
  <2>13. InRank((a \o b) \o c, (A \cup B) \cup C)
    <3> DEFINE V == a \o b
               M == A \cup B
    <3>1. InRank(V, M) /\ \A s \in M, t \in C : Before(s, t)
      BY <2>8, <2>9
    <3> HIDE DEF V, M
    <3>2. InRank(V \o c, M \cup C)
      BY <2>4, <3>1, InRankJoin
    <3> QED
      BY <3>2 DEF V, M
  <2> QED
    BY <2>1, <2>7, <2>13
<1> QED
  BY <1>5, <1>6

\* Index::each lists the router paths that match, in rank order.
LEMMA EachInRank ==
  ASSUME NEW path, RequestPath(path), NEW P, \A s \in P : RouterPath(s)
  PROVE  InRank(Each(P, path), Matching(P, path))
<1> DEFINE V == Visiting(P, path)
           n == Len(path)
           T == {left \in Nat : left <= n => \A Q \in SUBSET P : Reached(Q, path, n - left) => InRank(V[left][Q], Matching(Q, path))}
<1>0. path \in Seq(ToSet(path)) /\ n \in Nat /\ n >= 1
  BY DEF RequestPath
<1>1. \A left \in 0 .. n : \A Q \in SUBSET P : V[left][Q] = Visit(path, left, V[left - 1], Q)
  BY <1>0, VisitingDef
<1> HIDE DEF V
<1>2. 0 \in T
  <2> SUFFICES ASSUME NEW Q \in SUBSET P, Reached(Q, path, n) PROVE InRank(V[0][Q], Matching(Q, path))
    BY <1>0
  <2>1. V[0][Q] = Visit(path, 0, V[0 - 1], Q)
    BY <1>0, <1>1
  <2>2. CASE Q = {}
    <3>1. Matching(Q, path) = {} /\ V[0][Q] = <<>>
      BY <2>1, <2>2 DEF Matching, Visit
    <3> QED
      BY <3>1, InRankNone
  <2>3. CASE Q # {}
    <3>1. V[0][Q] = SetToSeq({s \in Q : Len(s) = Len(path)})
      BY <2>1, <2>3 DEF Visit
    <3>2. {s \in Q : Len(s) = Len(path)} = Matching(Q, path) /\ \A s, t \in Matching(Q, path) : s = t
      BY VisitLast
    <3>3. InRank(SetToSeq(Matching(Q, path)), Matching(Q, path))
      BY <3>2, InRankSmall
    <3> QED
      BY <3>1, <3>2, <3>3
  <2> QED
    BY <2>2, <2>3
<1>3. ASSUME NEW k \in Nat, k \in T PROVE k + 1 \in T
  <2> DEFINE left == k + 1
  <2> SUFFICES ASSUME left <= n, NEW Q \in SUBSET P, Reached(Q, path, n - left)
               PROVE  InRank(V[left][Q], Matching(Q, path))
    BY <1>0
  <2>1. left \in 1 .. n /\ left \in 0 .. n /\ left - 1 = k /\ k <= n /\ n - k = n - left + 1
    BY <1>0
  <2>2. \A R \in SUBSET Q : Reached(R, path, n - left + 1) => InRank(V[left - 1][R], Matching(R, path))
    BY <1>3, <2>1
  <2>3. V[left][Q] = Visit(path, left, V[left - 1], Q)
    BY <1>1, <2>1
  <2> HIDE DEF left
  <2>4. InRank(Visit(path, left, V[left - 1], Q), Matching(Q, path))
    BY <2>1, <2>2, VisitMore
  <2> QED
    BY <2>3, <2>4
<1> HIDE DEF T
<1>4. n \in T
  BY <1>0, <1>2, <1>3, Induction
<1>5. Reached(P, path, 0)
  <2>1. \A s \in P : RouterPath(s) /\ Len(s) >= 0
    BY RouterPathIs
  <2> QED
    BY <2>1 DEF Reached
<1>6. InRank(V[n][P], Matching(P, path))
  <2>1. P \in SUBSET P /\ n - n = 0 /\ n <= n
    BY <1>0
  <2>2. \A Q \in SUBSET P : Reached(Q, path, n - n) => InRank(V[n][Q], Matching(Q, path))
    BY <1>4, <2>1 DEF T
  <2> QED
    BY <1>5, <2>1, <2>2
<1> QED
  BY <1>6 DEF Each, V

-----------------------------------------------------------------------------
\* The router's pick is the first of them.

\* Pick is the one of Matching that comes before all the others.
LEMMA PickIs ==
  ASSUME NEW P, \A s \in P : RouterPath(s), NEW path, NEW x \in Matching(P, path),
         \A t \in Matching(P, path) : t = x \/ Before(x, t)
  PROVE  Pick(P, path) = x
<1> DEFINE M == Matching(P, path)
<1>1. M \subseteq P
  BY DEF Matching
<1> HIDE DEF M
<1>2. x \in M /\ \A t \in M : t = x \/ Before(x, t)
  BY DEF M
<1>3. ASSUME NEW y \in M, \A t \in M : t = y \/ Before(y, t) PROVE y = x
  <2>1. SUFFICES ASSUME y # x PROVE FALSE
    OBVIOUS
  <2>2. Before(x, y) /\ Before(y, x)
    BY <1>2, <1>3, <2>1
  <2>3. RouterPath(x) /\ RouterPath(y)
    BY <1>1, <1>2, <1>3
  <2> QED
    BY <2>2, <2>3, BeforeAsymmetric
<1>4. Pick(P, path) = CHOOSE s \in M : \A t \in M : t = s \/ Before(s, t)
  BY DEF Pick, M
<1> QED
  BY <1>2, <1>3, <1>4

\* The first path of a list in rank order comes before the others.
LEMMA HeadFirst ==
  ASSUME NEW V, NEW M, InRank(V, M), M # {}
  PROVE  V # <<>> /\ Head(V) = V[1] /\ V[1] \in M /\ \A t \in M : t = V[1] \/ Before(V[1], t)
<1>1. V \in Seq(M) /\ Len(V) \in Nat
  BY DEF InRank
<1>2. Len(V) >= 1
  <2>1. PICK s \in M : TRUE
    OBVIOUS
  <2>2. \E i \in 1 .. Len(V) : V[i] = s
    BY <2>1 DEF InRank
  <2> QED
    BY <1>1, <2>2
<1>3. V # <<>> /\ Head(V) = V[1] /\ V[1] \in M
  BY <1>1, <1>2
<1>4. ASSUME NEW t \in M PROVE t = V[1] \/ Before(V[1], t)
  <2>1. PICK i \in 1 .. Len(V) : V[i] = t
    BY DEF InRank
  <2>2. CASE i = 1
    BY <2>1, <2>2
  <2>3. CASE i # 1
    <3>1. 1 \in 1 .. Len(V) /\ 1 < i
      BY <1>1, <1>2, <2>3
    <3> QED
      BY <2>1, <3>1 DEF InRank
  <2> QED
    BY <2>2, <2>3
<1> QED
  BY <1>3, <1>4

\* The proxy's own ranking begins with the router's pick.
LEMMA PickIsFirst ==
  ASSUME NEW path, RequestPath(path), NEW P, \A s \in P : RouterPath(s)
  PROVE  /\ Matching(P, path) = {} => Each(P, path) = <<>>
         /\ Matching(P, path) # {} =>
              /\ Each(P, path) # <<>> /\ Head(Each(P, path)) = Pick(P, path)
              /\ Pick(P, path) \in Matching(P, path)
              /\ \A t \in Matching(P, path) : t = Pick(P, path) \/ Before(Pick(P, path), t)
<1> DEFINE V == Each(P, path)
           M == Matching(P, path)
<1>1. InRank(V, M)
  BY EachInRank
<1>2. ASSUME M = {} PROVE V = <<>>
  <2>1. V \in Seq({})
    BY <1>1, <1>2 DEF InRank
  <2> HIDE DEF V
  <2>2. Len(V) \in Nat /\ \A i \in 1 .. Len(V) : V[i] \in {}
    BY <2>1
  <2>3. Len(V) = 0
    BY <2>2
  <2> QED
    BY <2>1, <2>3
<1>3. ASSUME M # {}
      PROVE  /\ V # <<>> /\ Head(V) = Pick(P, path) /\ Pick(P, path) \in M
             /\ \A t \in M : t = Pick(P, path) \/ Before(Pick(P, path), t)
  <2>1. V # <<>> /\ Head(V) = V[1] /\ V[1] \in M /\ \A t \in M : t = V[1] \/ Before(V[1], t)
    <3> HIDE DEF V, M
    <3> QED
      BY <1>1, <1>3, HeadFirst
  <2>2. Pick(P, path) = V[1]
    BY <2>1, PickIs
  <2> QED
    BY <2>1, <2>2
<1> QED
  BY <1>2, <1>3

\* The pick among more routes, when it is one of fewer, is the pick among those.
LEMMA PickAmongFewer ==
  ASSUME NEW path, NEW P, \A s \in P : RouterPath(s), NEW R \in SUBSET P,
         NEW x \in R, x \in Matching(P, path), \A t \in Matching(P, path) : t = x \/ Before(x, t)
  PROVE  Matching(R, path) # {} /\ Pick(R, path) = x
<1>1. x \in Matching(R, path) /\ Matching(R, path) \subseteq Matching(P, path)
  BY DEF Matching
<1> QED
  BY <1>1, PickIs

-----------------------------------------------------------------------------
\* The tables are at router paths.

\* retain_mountable, path by path.
Retained(kept, paths) ==
  kept = [n \in 0 .. Len(paths) |-> IF n = 0 THEN <<>> ELSE Retain(kept[n - 1], paths[n])]

\* There is such a function, since each path only looks at those before it.
LEMMA RetainedExists ==
  ASSUME NEW S, NEW paths \in Seq(S)
  PROVE  \E kept : Retained(kept, paths)
<1> DEFINE At(n, x) == IF n = 0 THEN <<>> ELSE Retain(x, paths[n])
           Part(f, k) == f = [n \in 0 .. k |-> At(n, f[n - 1])]
           T == {k \in Nat : \E f : Part(f, k)}
<1>0. \A x, y : At(0, x) = At(0, y)
  OBVIOUS
<1> HIDE DEF At
<1>1. 0 \in T
  <2> DEFINE f == [n \in 0 .. 0 |-> At(0, 0)]
  <2>1. \A n \in 0 .. 0 : f[n] = At(n, f[n - 1])
    BY <1>0
  <2>2. f = [n \in 0 .. 0 |-> f[n]]
    OBVIOUS
  <2> HIDE DEF f
  <2>3. Part(f, 0)
    BY <2>1, <2>2
  <2> QED
    BY <2>3
<1>2. ASSUME NEW k \in Nat, k \in T PROVE k + 1 \in T
  <2>1. PICK f : Part(f, k)
    BY <1>2
  <2> DEFINE g == [n \in 0 .. k + 1 |-> At(n, f[n - 1])]
  <2>2. \A n \in 0 .. k : g[n] = f[n]
    BY <2>1
  <2>3. ASSUME NEW n \in 0 .. k + 1 PROVE g[n] = At(n, g[n - 1])
    <3>1. CASE n = 0
      BY <1>0, <3>1
    <3>2. CASE n # 0
      <4>1. n - 1 \in 0 .. k
        BY <3>2
      <4> QED
        BY <2>2, <4>1
    <3> QED
      BY <3>1, <3>2
  <2>4. g = [n \in 0 .. k + 1 |-> g[n]]
    OBVIOUS
  <2> HIDE DEF g
  <2>5. [n \in 0 .. k + 1 |-> g[n]] = [n \in 0 .. k + 1 |-> At(n, g[n - 1])]
    BY <2>3
  <2>6. Part(g, k + 1)
    BY <2>4, <2>5
  <2> HIDE DEF Part
  <2>7. \E f2 : Part(f2, k + 1)
    BY <2>6
  <2> QED
    BY <2>7
<1> HIDE DEF T
<1>3. Len(paths) \in T
  BY <1>1, <1>2, Induction
<1>4. PICK f : Part(f, Len(paths))
  BY <1>3 DEF T
<1> QED
  BY <1>4 DEF At, Retained

\* retain_mountable keeps paths and makes none.
LEMMA MountableType ==
  ASSUME NEW S, NEW paths \in Seq(S)
  PROVE  Mountable(paths) \in Seq(S)
<1> DEFINE g == CHOOSE kept : Retained(kept, paths)
           T == {k \in Nat : k <= Len(paths) => g[k] \in Seq(S)}
<1>0. Len(paths) \in Nat
  OBVIOUS
<1>1. \E kept : Retained(kept, paths)
  BY RetainedExists
<1>2. Retained(g, paths)
  BY <1>1, Zenon
<1>3. Mountable(paths) = g[Len(paths)]
  BY DEF Mountable, Retaining, Retained
<1> HIDE DEF g
<1>4. 0 \in T
  <2>1. g[0] = <<>>
    BY <1>0, <1>2 DEF Retained
  <2>2. <<>> \in Seq(S)
    OBVIOUS
  <2> QED
    BY <2>1, <2>2
<1>5. ASSUME NEW k \in Nat, k \in T PROVE k + 1 \in T
  <2> DEFINE n == k + 1
  <2>1. SUFFICES ASSUME n <= Len(paths) PROVE g[n] \in Seq(S)
    OBVIOUS
  <2>2. n \in 0 .. Len(paths) /\ n # 0 /\ n - 1 = k /\ n \in 1 .. Len(paths) /\ k <= Len(paths)
    BY <1>0, <2>1
  <2> HIDE DEF n
  <2>3. g[n] = Retain(g[n - 1], paths[n])
    BY <1>2, <2>2 DEF Retained
  <2>4. g[n - 1] \in Seq(S) /\ paths[n] \in S
    BY <1>5, <2>2
  <2>5. Append(g[n - 1], paths[n]) \in Seq(S)
    BY <2>4
  <2> QED
    BY <2>3, <2>4, <2>5 DEF Retain
<1> HIDE DEF T
<1>6. Len(paths) \in T
  BY <1>0, <1>4, <1>5, Induction
<1> QED
  BY <1>0, <1>3, <1>6 DEF T

\* A list is a sequence of its elements.
LEMMA ListIs ==
  ASSUME NEW s, s \in Seq(ToSet(s))
  PROVE  /\ DOMAIN s = 1 .. Len(s) /\ Len(s) \in Nat /\ (s # <<>> => Len(s) >= 1)
         /\ \A i \in 1 .. Len(s) : s[i] \in ToSet(s)
<1>1. DOMAIN s = 1 .. Len(s) /\ Len(s) \in Nat /\ (s # <<>> => Len(s) >= 1)
  OBVIOUS
<1> QED
  BY <1>1 DEF ToSet

\* A function on 1 .. m is a list.
LEMMA FunctionList ==
  ASSUME NEW m \in Nat, NEW f, DOMAIN f = 1 .. m, f = [j \in 1 .. m |-> f[j]]
  PROVE  f \in Seq(ToSet(f)) /\ Len(f) = m
<1> DEFINE S == ToSet(f)
<1>1. \A j \in 1 .. m : f[j] \in S
  BY DEF ToSet
<1> HIDE DEF S
<1>2. f \in [1 .. m -> S]
  BY <1>1
<1>3. f \in Seq(S)
  BY <1>2
<1> QED
  BY <1>3 DEF S

\* One element is a list.
LEMMA OneList ==
  ASSUME NEW x
  PROVE  <<x>> \in Seq(ToSet(<<x>>)) /\ Len(<<x>>) = 1 /\ <<x>>[1] = x
<1>1. <<x>> \in Seq({x}) /\ DOMAIN <<x>> = 1 .. 1 /\ <<x>>[1] = x /\ Len(<<x>>) = 1
  OBVIOUS
<1>2. ToSet(<<x>>) = {x}
  BY <1>1 DEF ToSet
<1> QED
  BY <1>1, <1>2

\* A piece of a template.
PieceOK(piece) ==
  /\ piece.kind \in {"literal", "variable", "field"}
  /\ piece.kind = "literal" => piece.seg # AnySeg /\ piece.seg # RestSeg
  /\ piece.kind = "field" =>
       /\ piece.parts \in Seq(ToSet(piece.parts)) /\ piece.parts # <<>> /\ piece.parts # <<"*">>
       /\ \A j \in 1 .. Len(piece.parts) : piece.parts[j] \notin {"", "{}", "{*}"}

\* The pieces of a template.
LEMMA PiecesOK ==
  ASSUME NEW rule, WellFormed(rule)
  PROVE  /\ rule.pieces \in Seq(ToSet(rule.pieces)) /\ Len(rule.pieces) \in Nat /\ Len(rule.pieces) >= 1
         /\ \A k \in 1 .. Len(rule.pieces) : PieceOK(rule.pieces[k])
         /\ rule.verb # "" => rule.pieces[Len(rule.pieces)].kind # "literal"
<1> DEFINE pieces == rule.pieces
<1>1. pieces \in Seq(ToSet(pieces)) /\ pieces # <<>>
  BY DEF WellFormed
<1>2. Len(pieces) \in Nat /\ Len(pieces) >= 1 /\ \A k \in 1 .. Len(pieces) : pieces[k] \in ToSet(pieces)
  <2> HIDE DEF pieces
  <2> QED
    BY <1>1, ListIs
<1>3. ASSUME NEW piece \in ToSet(pieces) PROVE PieceOK(piece)
  <2>1. /\ piece.kind \in {"literal", "variable", "field"}
        /\ piece.kind = "literal" => piece.seg # AnySeg /\ piece.seg # RestSeg
        /\ piece.kind = "field" =>
              /\ piece.parts \in Seq(ToSet(piece.parts)) /\ piece.parts # <<>> /\ piece.parts # <<"*">>
              /\ ToSet(piece.parts) \cap {"", "{}", "{*}"} = {}
    BY DEF WellFormed
  <2>2. ASSUME piece.kind = "field"
        PROVE  \A j \in 1 .. Len(piece.parts) : piece.parts[j] \notin {"", "{}", "{*}"}
    <3>1. piece.parts \in Seq(ToSet(piece.parts)) /\ ToSet(piece.parts) \cap {"", "{}", "{*}"} = {}
      BY <2>1, <2>2
    <3>2. \A j \in 1 .. Len(piece.parts) : piece.parts[j] \in ToSet(piece.parts)
      BY <3>1, ListIs
    <3> QED
      BY <3>1, <3>2
  <2> QED
    BY <2>1, <2>2 DEF PieceOK
<1>4. rule.verb # "" => pieces[Len(pieces)].kind # "literal"
  BY DEF WellFormed, Last
<1> QED
  BY <1>1, <1>2, <1>3, <1>4

\* A field is spelled without a catch-all.
LEMMA SpelledIs ==
  ASSUME NEW parts, parts \in Seq(ToSet(parts)), \A j \in 1 .. Len(parts) : parts[j] # "{*}"
  PROVE  /\ Spelled(parts) \in Seq(ToSet(Spelled(parts)))
         /\ \A j \in 1 .. Len(Spelled(parts)) : Spelled(parts)[j] # RestSeg
<1> DEFINE line == Spelled(parts)
<1>1. /\ DOMAIN parts = 1 .. Len(parts) /\ Len(parts) \in Nat
      /\ \A j \in 1 .. Len(parts) : parts[j] # "{*}"
  BY ListIs
<1>2. line = [j \in 1 .. Len(parts) |-> IF parts[j] = "*" \/ parts[j] \in Escaped THEN AnySeg ELSE <<parts[j], "">>]
  BY DEF Spelled
<1> HIDE DEF line
<1>3. AnySeg # RestSeg /\ \A t : t # "{*}" => <<t, "">> # RestSeg
  BY DEF AnySeg, RestSeg
<1>4. DOMAIN line = 1 .. Len(parts) /\ \A j \in 1 .. Len(parts) : line[j] \in ToSet(line)
  BY <1>1, <1>2 DEF ToSet
<1>5. line \in Seq(ToSet(line)) /\ Len(line) = Len(parts)
  <2>1. line = [j \in 1 .. Len(parts) |-> line[j]]
    BY <1>2
  <2> QED
    BY <1>1, <1>4, <2>1, FunctionList
<1>6. \A j \in 1 .. Len(line) : line[j] # RestSeg
  <2>1. ASSUME NEW j \in 1 .. Len(parts) PROVE line[j] # RestSeg
    <3>1. line[j] = IF parts[j] = "*" \/ parts[j] \in Escaped THEN AnySeg ELSE <<parts[j], "">>
      BY <1>2
    <3>2. parts[j] # "{*}"
      BY <1>1
    <3> QED
      BY <1>3, <3>1, <3>2
  <2> QED
    BY <1>5, <2>1
<1> QED
  BY <1>5, <1>6 DEF line

\* A piece before the last is written without a catch-all.
LEMMA ShapeFront ==
  ASSUME NEW piece, PieceOK(piece)
  PROVE  /\ Shape(piece, FALSE) \in Seq(ToSet(Shape(piece, FALSE)))
         /\ \A j \in 1 .. Len(Shape(piece, FALSE)) : Shape(piece, FALSE)[j] # RestSeg
<1>1. CASE piece.kind = "literal"
  <2>1. Shape(piece, FALSE) = <<piece.seg>>
    BY <1>1 DEF Shape
  <2>2. piece.seg # RestSeg
    BY <1>1 DEF PieceOK
  <2> DEFINE x == piece.seg
  <2> HIDE DEF x
  <2>3. Shape(piece, FALSE) = <<x>> /\ x # RestSeg
    BY <2>1, <2>2 DEF x
  <2>4. <<x>> \in Seq(ToSet(<<x>>)) /\ \A j \in 1 .. Len(<<x>>) : <<x>>[j] # RestSeg
    BY <2>3, OneList
  <2> QED
    BY <2>3, <2>4
<1>2. CASE piece.kind = "variable"
  <2> DEFINE x == AnySeg
  <2>1. Shape(piece, FALSE) = <<x>> /\ x # RestSeg
    BY <1>2 DEF Shape, AnySeg, RestSeg
  <2> HIDE DEF x
  <2>4. <<x>> \in Seq(ToSet(<<x>>)) /\ \A j \in 1 .. Len(<<x>>) : <<x>>[j] # RestSeg
    BY <2>1, OneList
  <2> QED
    BY <2>1, <2>4
<1>3. CASE piece.kind = "field"
  <2>1. Shape(piece, FALSE) = Spelled(piece.parts)
    BY <1>3 DEF Shape
  <2>2. piece.parts \in Seq(ToSet(piece.parts)) /\ \A j \in 1 .. Len(piece.parts) : piece.parts[j] # "{*}"
    BY <1>3 DEF PieceOK
  <2> QED
    BY <2>1, <2>2, SpelledIs
<1> QED
  BY <1>1, <1>2, <1>3 DEF PieceOK

\* The last piece is written as one segment.
LEMMA ShapeLast ==
  ASSUME NEW piece, PieceOK(piece)
  PROVE  \E x : Shape(piece, TRUE) = <<x>>
<1>1. CASE piece.kind = "literal"
  BY <1>1 DEF Shape
<1>2. CASE piece.kind = "variable"
  BY <1>2 DEF Shape
<1>3. CASE piece.kind = "field"
  <2>1. Shape(piece, TRUE) = IF Len(piece.parts) = 1 /\ piece.parts # <<"**">>
                             THEN <<AnySeg>> ELSE <<RestSeg>>
    BY <1>3 DEF Shape
  <2> QED
    BY <2>1, Zenon
<1> QED
  BY <1>1, <1>2, <1>3 DEF PieceOK

-----------------------------------------------------------------------------
\* Templates, piece by piece.

\* A list with one element more.
LEMMA AppendIs ==
  ASSUME NEW S, NEW f \in Seq(S), NEW x \in S, NEW g \in Seq(S), Len(g) = Len(f) + 1,
         \A i \in 1 .. Len(f) : g[i] = f[i], g[Len(f) + 1] = x
  PROVE  g = Append(f, x)
<1> DEFINE m == Len(f)
           a == Append(f, x)
<1>1. m \in Nat
  OBVIOUS
<1>2. a \in Seq(S) /\ Len(a) = m + 1 /\ (\A i \in 1 .. m : a[i] = f[i]) /\ a[m + 1] = x
  BY AppendProperties
<1> HIDE DEF a
<1>3. \A i \in 1 .. Len(g) : g[i] = a[i]
  <2> SUFFICES ASSUME NEW i \in 1 .. m + 1 PROVE g[i] = a[i]
    OBVIOUS
  <2>1. i \in 1 .. m \/ i = m + 1
    BY <1>1
  <2> QED
    BY <1>2, <2>1
<1>4. g = a
  BY <1>2, <1>3, SeqEqual
<1> QED
  BY <1>4 DEF a

\* The first k lines as one list.
Prefix(line, k) == FlattenSeq([i \in 1 .. k |-> line[i]])

\* A line more is its elements more.
LEMMA PrefixGrows ==
  ASSUME NEW n \in Nat, NEW line, \A i \in 1 .. n : line[i] \in Seq(ToSet(line[i])),
         NEW S, S = UNION {ToSet(line[i]) : i \in 1 .. n}
  PROVE  /\ Prefix(line, 0) = <<>>
         /\ \A k \in 0 .. n : Prefix(line, k) \in Seq(S)
         /\ \A k \in 0 .. n : k < n => Prefix(line, k + 1) = Prefix(line, k) \o line[k + 1]
<1>1. \A i \in 1 .. n : line[i] \in Seq(S)
  <2> SUFFICES ASSUME NEW i \in 1 .. n PROVE line[i] \in Seq(S)
    OBVIOUS
  <2>1. line[i] \in Seq(ToSet(line[i])) /\ ToSet(line[i]) \subseteq S
    OBVIOUS
  <2> DEFINE l == line[i]
             A == ToSet(line[i])
  <2>2. l \in Seq(A) /\ A \subseteq S
    BY <2>1
  <2> HIDE DEF l, A
  <2>3. l \in Seq(S)
    BY <2>2
  <2> QED
    BY <2>3 DEF l
<1>2. \A k \in 0 .. n : [i \in 1 .. k |-> line[i]] \in Seq(Seq(S))
  <2> SUFFICES ASSUME NEW k \in 0 .. n PROVE [i \in 1 .. k |-> line[i]] \in Seq(Seq(S))
    OBVIOUS
  <2>1. \A i \in 1 .. k : line[i] \in Seq(S)
    BY <1>1
  <2> QED
    BY <2>1
<1>3. Prefix(line, 0) = <<>>
  <2>1. [i \in 1 .. 0 |-> line[i]] = <<>>
    OBVIOUS
  <2>2. <<>> \in Seq(Seq(S))
    OBVIOUS
  <2> QED
    BY <2>1, <2>2, FlattenSeqType DEF Prefix
<1>4. ASSUME NEW k \in 0 .. n PROVE Prefix(line, k) \in Seq(S)
  BY <1>2, FlattenSeqType DEF Prefix
<1>5. ASSUME NEW k \in 0 .. n, k < n PROVE Prefix(line, k + 1) = Prefix(line, k) \o line[k + 1]
  <2> DEFINE front == [i \in 1 .. k |-> line[i]]
             more == [i \in 1 .. k + 1 |-> line[i]]
             l == line[k + 1]
  <2>1. front \in Seq(Seq(S)) /\ l \in Seq(S) /\ Len(front) = k
    BY <1>1, <1>2, <1>5
  <2>2. more = Append(front, l)
    <3> DEFINE Z == Seq(S)
    <3>1. front \in Seq(Z) /\ l \in Z
      BY <2>1
    <3>2. more \in Seq(Z) /\ Len(more) = k + 1
      BY <1>2, <1>5
    <3>3. more[k + 1] = l /\ \A i \in 1 .. k : more[i] = front[i]
      OBVIOUS
    <3> HIDE DEF more, front, l, Z
    <3>4. more[Len(front) + 1] = l /\ Len(more) = Len(front) + 1 /\ \A i \in 1 .. Len(front) : more[i] = front[i]
      BY <2>1, <3>2, <3>3
    <3> QED
      BY <3>1, <3>2, <3>4, AppendIs
  <2> HIDE DEF front, more, l
  <2>3. FlattenSeq(more) = FlattenSeq(front) \o l
    BY <2>1, <2>2, FlattenSeqAppend
  <2> QED
    BY <2>3 DEF Prefix, front, more, l
<1> QED
  BY <1>3, <1>4, <1>5

\* The router path and the elements of a template's pieces, as of those before
\* the last.
Lines(rule) == [i \in 1 .. Len(rule.pieces) |-> Shape(rule.pieces[i], FALSE)]
Elems(rule) == [i \in 1 .. Len(rule.pieces) |-> ElementsOf(rule.pieces[i], FALSE)]
LitsOf(piece, at) ==
  IF piece.kind # "field" THEN {}
  ELSE {<<at + j, piece.parts[j]>> : j \in {j \in 1 .. Len(piece.parts) : piece.parts[j] \in Escaped}}
FrontLits(rule, k) == UNION {LitsOf(rule.pieces[i], Len(Prefix(Lines(rule), i - 1))) : i \in 1 .. k}

\* What is mounted of the pieces before the last, and the last piece.
FrontPath(rule) == Prefix(Lines(rule), Len(rule.pieces) - 1)
FrontElems(rule) == Prefix(Elems(rule), Len(rule.pieces) - 1)
LastPiece(rule) == rule.pieces[Len(rule.pieces)]

\* The elements of a piece are a list.
LEMMA ElementsOfList ==
  ASSUME NEW piece, PieceOK(piece), NEW last \in BOOLEAN
  PROVE  /\ ElementsOf(piece, last) \in Seq(ToSet(ElementsOf(piece, last)))
         /\ Len(ElementsOf(piece, last)) = IF piece.kind = "field" THEN Len(piece.parts) ELSE 1
<1>1. CASE piece.kind = "literal"
  <2>1. \E x : ElementsOf(piece, last) = <<x>>
    BY <1>1 DEF ElementsOf
  <2> QED
    BY <1>1, <2>1, OneList
<1>2. CASE piece.kind = "variable"
  <2>1. \E x : ElementsOf(piece, last) = <<x>>
    BY <1>2 DEF ElementsOf
  <2> QED
    BY <1>2, <2>1, OneList
<1>3. CASE piece.kind = "field"
  <2> DEFINE E == ElementsOf(piece, last)
             parts == piece.parts
             m == Len(parts)
  <2>0. parts \in Seq(ToSet(parts))
    BY <1>3 DEF PieceOK
  <2>1. m \in Nat
    <3> HIDE DEF parts
    <3> QED
      BY <2>0, ListIs
  <2>2. DOMAIN E = 1 .. m /\ E = [j \in 1 .. m |-> E[j]]
    <3>1. E = [j \in 1 .. m |->
            CASE piece.parts[j] = "**" -> [is |-> "rest"]
              [] piece.parts[j] = "*" -> [is |-> IF last THEN "some" ELSE "one"]
              [] OTHER -> [is |-> IF piece.parts[j] \in Escaped \/ last THEN "octets" ELSE "exact",
                           seg |-> <<piece.parts[j], "">>]]
      BY <1>3 DEF ElementsOf
    <3> HIDE DEF E
    <3> QED
      BY <3>1
  <2> HIDE DEF E, m
  <2>3. E \in Seq(ToSet(E)) /\ Len(E) = m
    BY <2>1, <2>2, FunctionList
  <2> QED
    BY <1>3, <2>3 DEF E, m
<1> QED
  BY <1>1, <1>2, <1>3 DEF PieceOK

\* What the elements name.
LEMMA SegmentIsOf ==
  ASSUME NEW e, NEW x
  PROVE  /\ e.is = "exact" => (SegmentIs(e, x) <=> x = e.seg)
         /\ e.is = "octets" => (SegmentIs(e, x) <=> SameOctets(x, e.seg[1]))
         /\ e.is = "some" => (SegmentIs(e, x) <=> x # Empty)
         /\ e.is = "one" \/ e.is = "rest" => SegmentIs(e, x)
BY DEF SegmentIs

\* What the element of one part of a field that does not end the template is.
FieldElement(p, e) ==
  /\ p = "*" => e.is = "one"
  /\ p \notin {"*", "**"} => /\ e.is = IF p \in Escaped THEN "octets" ELSE "exact"
                             /\ e.seg = <<p, "">>

\* What ElementsOf makes of one part of such a field.
ElementOfPart(p) ==
  CASE p = "**" -> [is |-> "rest"]
    [] p = "*" -> [is |-> "one"]
    [] OTHER -> [is |-> IF p \in Escaped THEN "octets" ELSE "exact", seg |-> <<p, "">>]

\* It is what FieldElement says.
LEMMA PartElement ==
  ASSUME NEW p
  PROVE  FieldElement(p, ElementOfPart(p))
<1> DEFINE e == ElementOfPart(p)
<1>2. CASE p = "**"
  BY <1>2 DEF FieldElement
<1>3. CASE p = "*"
  <2>1. e = [is |-> "one"]
    BY <1>3 DEF ElementOfPart
  <2>2. e.is = "one"
    BY <2>1
  <2> QED
    BY <1>3, <2>2 DEF FieldElement
<1>4. CASE p \notin {"*", "**"}
  <2> DEFINE a == IF p \in Escaped THEN "octets" ELSE "exact"
             t == <<p, "">>
  <2>1. e = [is |-> a, seg |-> t]
    BY <1>4 DEF ElementOfPart
  <2> HIDE DEF e, a, t
  <2>2. e.is = a /\ e.seg = t
    BY <2>1
  <2> QED
    BY <1>4, <2>2 DEF a, t, e, FieldElement
<1> QED
  BY <1>2, <1>3, <1>4

\* The elements of a field that does not end the template.
LEMMA FieldElements ==
  ASSUME NEW piece, PieceOK(piece), piece.kind = "field",
         NEW E, E = ElementsOf(piece, FALSE), NEW j \in 1 .. Len(piece.parts), NEW p, p = piece.parts[j]
  PROVE  FieldElement(p, E[j])
<1>1. E[j] = ElementOfPart(p)
  BY DEF ElementsOf, ElementOfPart
<1> QED
  BY <1>1, PartElement, Zenon

\* The elements of a literal and of a variable.
LEMMA OneElement ==
  ASSUME NEW piece, NEW last \in BOOLEAN, NEW E, E = ElementsOf(piece, last)
  PROVE  /\ piece.kind = "literal" => Len(E) = 1 /\ E[1].is = "exact" /\ E[1].seg = piece.seg
         /\ piece.kind = "variable" => Len(E) = 1 /\ E[1].is = "one"
<1>1. CASE piece.kind = "literal"
  <2> DEFINE e == [is |-> "exact", seg |-> piece.seg]
  <2>1. E = <<e>> /\ e.is = "exact" /\ e.seg = piece.seg
    BY <1>1 DEF ElementsOf
  <2> HIDE DEF e
  <2>2. Len(E) = 1 /\ E[1] = e
    BY <2>1, OneList
  <2> QED
    BY <1>1, <2>1, <2>2
<1>2. CASE piece.kind = "variable"
  <2> DEFINE e == [is |-> "one"]
  <2>1. E = <<e>> /\ e.is = "one"
    BY <1>2 DEF ElementsOf
  <2> HIDE DEF e
  <2>2. Len(E) = 1 /\ E[1] = e
    BY <2>1, OneList
  <2> QED
    BY <1>2, <2>1, <2>2
<1> QED
  BY <1>1, <1>2

\* Before the last piece, a segment is an element's when the router takes it for
\* the element's form and, an escaped literal mounted as a variable, its octets
\* are right.
PieceStands(piece, L, E) ==
  /\ Len(L) = Len(E) /\ (piece.kind = "field" => Len(L) = Len(piece.parts))
  /\ \A j \in 1 .. Len(L) : \A x : x # AnySeg =>
       (SegmentIs(E[j], x) <=>
          /\ x = L[j] \/ L[j] = AnySeg
          /\ piece.kind = "field" /\ piece.parts[j] \in Escaped => SameOctets(x, piece.parts[j]))

\* So it is for each kind of piece.
LEMMA PieceFront ==
  ASSUME NEW piece, PieceOK(piece), NEW L, L = Shape(piece, FALSE), NEW E, E = ElementsOf(piece, FALSE),
         piece.kind = "field" => \A j \in 1 .. Len(piece.parts) : piece.parts[j] # "**"
  PROVE  PieceStands(piece, L, E)
<1>1. CASE piece.kind = "literal"
  <2> DEFINE seg == piece.seg
  <2>1. L = <<seg>> /\ seg # AnySeg
    BY <1>1 DEF Shape, PieceOK
  <2>2. Len(E) = 1 /\ E[1].is = "exact" /\ E[1].seg = seg
    BY <1>1, OneElement
  <2>3. Len(L) = 1 /\ L[1] = seg
    BY <2>1, OneList
  <2>4. \A x : SegmentIs(E[1], x) <=> x = seg
    BY <2>2, SegmentIsOf
  <2> HIDE DEF seg
  <2>5. \A j \in 1 .. Len(L) : j = 1
    <3>1. \A j \in 1 .. 1 : j = 1
      OBVIOUS
    <3> QED
      BY <2>3, <3>1, Zenon
  <2>6. \A x : SegmentIs(E[1], x) <=> (x = L[1] \/ L[1] = AnySeg)
    BY <2>1, <2>3, <2>4
  <2> QED
    BY <1>1, <2>2, <2>3, <2>5, <2>6 DEF PieceStands
<1>2. CASE piece.kind = "variable"
  <2>1. L = <<AnySeg>>
    BY <1>2 DEF Shape
  <2>2. Len(E) = 1 /\ E[1].is = "one"
    BY <1>2, OneElement
  <2>3. Len(L) = 1 /\ L[1] = AnySeg
    BY <2>1, OneList
  <2>4. \A x : SegmentIs(E[1], x)
    BY <2>2, SegmentIsOf
  <2>5. \A j \in 1 .. Len(L) : j = 1
    <3>1. \A j \in 1 .. 1 : j = 1
      OBVIOUS
    <3> QED
      BY <2>3, <3>1, Zenon
  <2> QED
    BY <1>2, <2>2, <2>3, <2>4, <2>5 DEF PieceStands
<1>3. CASE piece.kind = "field"
  <2> DEFINE parts == piece.parts
             m == Len(parts)
  <2>0. parts \in Seq(ToSet(parts)) /\ \A j \in 1 .. m : parts[j] \notin {"", "{}", "{*}"} /\ parts[j] # "**"
    BY <1>3 DEF PieceOK
  <2>1. m \in Nat
    <3> HIDE DEF parts
    <3> QED
      BY <2>0, ListIs
  <2>2. L = [j \in 1 .. m |-> IF parts[j] = "*" \/ parts[j] \in Escaped THEN AnySeg ELSE <<parts[j], "">>]
    BY <1>3 DEF Shape, Spelled
  <2>3. Len(E) = m
    BY <1>3, ElementsOfList
  <2>4. Len(L) = m
    <3> HIDE DEF m, parts
    <3>1. DOMAIN L = 1 .. m /\ L = [j \in 1 .. m |-> L[j]]
      BY <2>2
    <3> QED
      BY <2>1, <3>1, FunctionList
  <2>5. ASSUME NEW j \in 1 .. m, NEW x, x # AnySeg
        PROVE  SegmentIs(E[j], x) <=>
                 /\ x = L[j] \/ L[j] = AnySeg
                 /\ parts[j] \in Escaped => SameOctets(x, parts[j])
    <3> DEFINE p == parts[j]
    <3>1. L[j] = (IF p = "*" \/ p \in Escaped THEN AnySeg ELSE <<p, "">>)
      BY <2>2
    <3>2. p # "" /\ p # "{}" /\ p # "**"
      BY <2>0
    <3>6. /\ p = "*" => E[j].is = "one"
          /\ p \notin {"*", "**"} => /\ E[j].is = IF p \in Escaped THEN "octets" ELSE "exact"
                                     /\ E[j].seg = <<p, "">>
      <4>1. j \in 1 .. Len(piece.parts) /\ p = piece.parts[j]
        OBVIOUS
      <4> HIDE DEF p, m, parts
      <4>2. FieldElement(p, E[j])
        BY <1>3, <4>1, FieldElements
      <4> QED
        BY <4>2 DEF FieldElement
    <3> HIDE DEF p
    <3>3. CASE p = "*"
      <4>1. p \notin Escaped
        BY <3>3 DEF Escaped
      <4>2. SegmentIs(E[j], x)
        BY <3>3, <3>6, SegmentIsOf
      <4> QED
        BY <3>1, <3>3, <4>1, <4>2 DEF p
    <3>4. CASE p \in Escaped
      <4>1. p # "*"
        BY <3>4 DEF Escaped
      <4>2. E[j].is = "octets" /\ E[j].seg = <<p, "">>
        BY <3>2, <3>4, <3>6, <4>1
      <4>4. E[j].seg[1] = p
        <5>1. <<p, "">>[1] = p
          OBVIOUS
        <5> QED
          BY <4>2, <5>1, Zenon
      <4>3. SegmentIs(E[j], x) <=> SameOctets(x, p)
        BY <4>2, <4>4, SegmentIsOf
      <4> QED
        BY <3>1, <3>4, <4>3 DEF p
    <3>5. CASE p # "*" /\ p \notin Escaped
      <4>1. E[j].is = "exact" /\ E[j].seg = <<p, "">>
        BY <3>2, <3>5, <3>6
      <4>2. SegmentIs(E[j], x) <=> x = <<p, "">>
        BY <4>1, SegmentIsOf
      <4>3. <<p, "">> # AnySeg
        BY <3>2 DEF AnySeg
      <4> QED
        BY <3>1, <3>5, <4>2, <4>3 DEF p
    <3> QED
      BY <3>3, <3>4, <3>5
  <2> QED
    BY <1>3, <2>3, <2>4, <2>5 DEF PieceStands
<1> QED
  BY <1>1, <1>2, <1>3 DEF PieceOK

\* The elements of one list after those of another.
Joined(a, b, c) ==
  /\ Len(a) \in Nat /\ Len(b) \in Nat /\ Len(c) = Len(a) + Len(b)
  /\ \A i \in 1 .. Len(a) : c[i] = a[i]
  /\ \A j \in 1 .. Len(b) : c[Len(a) + j] = b[j]

\* So they are, joined.
LEMMA JoinIs ==
  ASSUME NEW S, NEW a \in Seq(S), NEW b \in Seq(S)
  PROVE  Joined(a, b, a \o b)
<1>1. Len(a) \in Nat /\ Len(b) \in Nat
  OBVIOUS
<1>2. /\ a \o b \in Seq(S) /\ Len(a \o b) = Len(a) + Len(b)
      /\ \A i \in 1 .. Len(a) + Len(b) : (a \o b)[i] = IF i <= Len(a) THEN a[i] ELSE b[i - Len(a)]
  BY ConcatProperties
<1> DEFINE m == Len(a)
           n == Len(b)
           c == a \o b
<1>3. /\ m \in Nat /\ n \in Nat
      /\ \A i \in 1 .. m + n : c[i] = IF i <= m THEN a[i] ELSE b[i - m]
  BY <1>1, <1>2
<1> HIDE DEF m, n, c
<1>4. \A i \in 1 .. m : c[i] = a[i]
  BY <1>3
<1>5. ASSUME NEW j \in 1 .. n PROVE c[m + j] = b[j]
  <2>1. m + j \in 1 .. m + n /\ ~(m + j <= m) /\ (m + j) - m = j
    BY <1>3
  <2> QED
    BY <1>3, <2>1
<1> QED
  BY <1>1, <1>2, <1>4, <1>5 DEF m, n, c, Joined

\* An index into two lists joined is one of the first or of the second.
LEMMA JoinIndex ==
  ASSUME NEW m \in Nat, NEW n \in Nat, NEW i \in 1 .. m + n
  PROVE  i \in 1 .. m \/ \E j \in 1 .. n : i = m + j
<1>1. CASE i <= m
  BY <1>1
<1>2. CASE ~(i <= m)
  <2>1. i - m \in 1 .. n /\ i = m + (i - m)
    BY <1>2
  <2> QED
    BY <2>1
<1> QED
  BY <1>1, <1>2

\* A path P, the elements E it stands for and the literals it leaves to compare.
Stands(P, E, lits) ==
  /\ Len(P) = Len(E)
  /\ \A l \in lits : l[1] \in 1 .. Len(P)
  /\ \A i \in 1 .. Len(P) : P[i] # RestSeg
  /\ \A i \in 1 .. Len(P) : \A x : x # AnySeg =>
       (SegmentIs(E[i], x) <=>
          /\ x = P[i] \/ P[i] = AnySeg
          /\ \A l \in lits : l[1] = i => SameOctets(x, l[2]))

\* Nothing stands for nothing.
LEMMA StandsNone == Stands(<<>>, <<>>, {})
BY DEF Stands

\* A piece more stands for its elements more.
LEMMA StandsMore ==
  ASSUME NEW S, NEW P \in Seq(S), NEW L \in Seq(S), NEW R, NEW E \in Seq(R), NEW D \in Seq(R),
         NEW lits, Stands(P, E, lits), NEW piece, PieceOK(piece),
         L = Shape(piece, FALSE), D = ElementsOf(piece, FALSE),
         piece.kind = "field" => \A j \in 1 .. Len(piece.parts) : piece.parts[j] # "**"
  PROVE  Stands(P \o L, E \o D, lits \cup LitsOf(piece, Len(P)))
<1> DEFINE p == Len(P)
           q == Len(L)
           PL == P \o L
           ED == E \o D
           new == LitsOf(piece, p)
           all == lits \cup new
           Esc(j) == piece.kind = "field" /\ piece.parts[j] \in Escaped
<1>1. /\ Len(PL) = p + q /\ p \in Nat /\ q \in Nat /\ (\A i \in 1 .. p : PL[i] = P[i])
      /\ \A j \in 1 .. q : PL[p + j] = L[j]
  <2>1. Joined(P, L, PL)
    BY JoinIs
  <2> HIDE DEF PL
  <2> QED
    BY <2>1 DEF Joined
<1>2. /\ Len(E) = p /\ (\A i \in 1 .. p : E[i] = E[i])
      /\ \A l \in lits : l[1] \in 1 .. p
      /\ \A i \in 1 .. p : P[i] # RestSeg
      /\ \A i \in 1 .. p : \A x : x # AnySeg =>
           (SegmentIs(E[i], x) <=> /\ x = P[i] \/ P[i] = AnySeg
                                   /\ \A l \in lits : l[1] = i => SameOctets(x, l[2]))
  BY DEF Stands
<1>3. /\ Len(D) = q /\ (piece.kind = "field" => q = Len(piece.parts))
      /\ \A j \in 1 .. q : \A x : x # AnySeg =>
              (SegmentIs(D[j], x) <=> /\ x = L[j] \/ L[j] = AnySeg
                                      /\ Esc(j) => SameOctets(x, piece.parts[j]))
  <2>1. PieceStands(piece, L, D)
    BY PieceFront
  <2> QED
    BY <2>1 DEF PieceStands
<1>4. /\ Len(ED) = p + q /\ (\A i \in 1 .. p : ED[i] = E[i])
      /\ \A j \in 1 .. q : ED[p + j] = D[j]
  <2>1. /\ Len(ED) = Len(E) + Len(D) /\ (\A i \in 1 .. Len(E) : ED[i] = E[i])
        /\ \A j \in 1 .. Len(D) : ED[Len(E) + j] = D[j]
    <3>1. Joined(E, D, ED)
      BY JoinIs
    <3> HIDE DEF ED
    <3> QED
      BY <3>1 DEF Joined
  <2> HIDE DEF ED, p, q
  <2> QED
    BY <1>2, <1>3, <2>1
<1>5. \A j \in 1 .. q : L[j] # RestSeg
  BY ShapeFront
<1>6. /\ \A l \in new : \E j \in 1 .. q : Esc(j) /\ l[1] = p + j /\ l[2] = piece.parts[j]
      /\ \A j \in 1 .. q : Esc(j) => \E l \in new : l[1] = p + j /\ l[2] = piece.parts[j]
  <2>1. ASSUME NEW l \in new PROVE \E j \in 1 .. q : Esc(j) /\ l[1] = p + j /\ l[2] = piece.parts[j]
    <3>1. piece.kind = "field" /\ \E j \in 1 .. Len(piece.parts) : piece.parts[j] \in Escaped /\ l = <<p + j, piece.parts[j]>>
      BY DEF LitsOf
    <3>2. PICK j \in 1 .. q : piece.parts[j] \in Escaped /\ l = <<p + j, piece.parts[j]>>
      <4> HIDE DEF p, q
      <4> QED
        BY <1>3, <3>1
    <3> DEFINE a == p + j
               b == piece.parts[j]
    <3>3. l = <<a, b>>
      BY <3>2
    <3> HIDE DEF a, b
    <3>4. l[1] = a /\ l[2] = b
      BY <3>3
    <3> QED
      BY <3>1, <3>2, <3>4 DEF a, b
  <2>2. ASSUME NEW j \in 1 .. q, Esc(j) PROVE \E l \in new : l[1] = p + j /\ l[2] = piece.parts[j]
    <3> DEFINE a == p + j
               b == piece.parts[j]
               l == <<a, b>>
    <3>1. j \in 1 .. Len(piece.parts)
      <4> HIDE DEF q
      <4> QED
        BY <1>3, <2>2
    <3>2. l \in new
      BY <2>2, <3>1 DEF LitsOf
    <3>3. l[1] = a /\ l[2] = b
      <4> HIDE DEF a, b
      <4> QED
        OBVIOUS
    <3> HIDE DEF l, new
    <3> QED
      BY <3>2, <3>3
  <2> QED
    BY <2>1, <2>2
<1> HIDE DEF p, q, PL, ED, new, Esc
<1>7. \A l \in all : l[1] \in 1 .. p + q
  <2>1. \A l \in lits : l[1] \in 1 .. p + q
    BY <1>1, <1>2
  <2>2. ASSUME NEW l \in new PROVE l[1] \in 1 .. p + q
    <3>1. PICK j \in 1 .. q : l[1] = p + j
      BY <1>6
    <3> QED
      BY <1>1, <3>1
  <2> QED
    BY <2>1, <2>2
<1>8. ASSUME NEW i \in 1 .. p
      PROVE  /\ PL[i] # RestSeg
             /\ \A x : x # AnySeg =>
                  (SegmentIs(ED[i], x) <=> /\ x = PL[i] \/ PL[i] = AnySeg
                                           /\ \A l \in all : l[1] = i => SameOctets(x, l[2]))
  <2>1. \A l \in new : l[1] # i
    <3> SUFFICES ASSUME NEW l \in new PROVE l[1] # i
      OBVIOUS
    <3>1. PICK j \in 1 .. q : l[1] = p + j
      BY <1>6
    <3> QED
      BY <1>1, <3>1
  <2>2. \A x : (\A l \in all : l[1] = i => SameOctets(x, l[2])) <=> \A l \in lits : l[1] = i => SameOctets(x, l[2])
    BY <2>1
  <2>3. PL[i] = P[i] /\ ED[i] = E[i]
    BY <1>1, <1>4
  <2> HIDE DEF all
  <2> QED
    BY <1>2, <2>2, <2>3
<1>9. ASSUME NEW j \in 1 .. q
      PROVE  /\ PL[p + j] # RestSeg
             /\ \A x : x # AnySeg =>
                  (SegmentIs(ED[p + j], x) <=> /\ x = PL[p + j] \/ PL[p + j] = AnySeg
                                               /\ \A l \in all : l[1] = p + j => SameOctets(x, l[2]))
  <2>1. \A l \in lits : l[1] # p + j
    BY <1>1, <1>2
  <2>2. ASSUME NEW x
        PROVE  (\A l \in all : l[1] = p + j => SameOctets(x, l[2])) <=> (Esc(j) => SameOctets(x, piece.parts[j]))
    <3>1. ASSUME \A l \in all : l[1] = p + j => SameOctets(x, l[2]), Esc(j)
          PROVE  SameOctets(x, piece.parts[j])
      <4>1. PICK l \in new : l[1] = p + j /\ l[2] = piece.parts[j]
        BY <1>6, <3>1
      <4>2. l \in all
        OBVIOUS
      <4> QED
        BY <3>1, <4>1, <4>2
    <3>2. ASSUME Esc(j) => SameOctets(x, piece.parts[j]), NEW l \in all, l[1] = p + j
          PROVE  SameOctets(x, l[2])
      <4>1. l \in new
        BY <2>1, <3>2
      <4>2. PICK i \in 1 .. q : Esc(i) /\ l[1] = p + i /\ l[2] = piece.parts[i]
        BY <1>6, <4>1
      <4>3. i = j
        BY <1>1, <3>2, <4>2
      <4> QED
        BY <3>2, <4>2, <4>3
    <3> QED
      BY <3>1, <3>2
  <2>3. PL[p + j] = L[j] /\ ED[p + j] = D[j]
    BY <1>1, <1>4
  <2> HIDE DEF all
  <2> QED
    BY <1>3, <1>5, <2>2, <2>3
<1>10. ASSUME NEW i \in 1 .. p + q
       PROVE  /\ PL[i] # RestSeg
              /\ \A x : x # AnySeg =>
                   (SegmentIs(ED[i], x) <=> /\ x = PL[i] \/ PL[i] = AnySeg
                                            /\ \A l \in all : l[1] = i => SameOctets(x, l[2]))
  <2>1. i \in 1 .. p \/ \E j \in 1 .. q : i = p + j
    BY <1>1, JoinIndex
  <2> HIDE DEF all
  <2>2. CASE i \in 1 .. p
    BY <1>8, <2>2
  <2>3. CASE \E j \in 1 .. q : i = p + j
    <3>1. PICK j \in 1 .. q : i = p + j
      BY <2>3
    <3> QED
      BY <1>9, <3>1
  <2> QED
    BY <2>1, <2>2, <2>3
<1> HIDE DEF all
<1>11. Stands(PL, ED, all)
  BY <1>1, <1>4, <1>7, <1>10 DEF Stands
<1> QED
  BY <1>11 DEF PL, ED, all, new, p

\* The segments and the elements of a template's pieces.
SegsOf(rule) == UNION {ToSet(Lines(rule)[i]) : i \in 1 .. Len(rule.pieces)}
ElsOf(rule) == UNION {ToSet(Elems(rule)[i]) : i \in 1 .. Len(rule.pieces)}

\* The pieces of a template line by line.
LEMMA LinesGrow ==
  ASSUME NEW rule, WellFormed(rule), NEW n, n = Len(rule.pieces)
  PROVE  /\ n \in Nat /\ n >= 1
         /\ Prefix(Lines(rule), 0) = <<>> /\ Prefix(Elems(rule), 0) = <<>>
         /\ \A k \in 0 .. n : Prefix(Lines(rule), k) \in Seq(SegsOf(rule)) /\ Prefix(Elems(rule), k) \in Seq(ElsOf(rule))
         /\ \A k \in 0 .. n : k < n =>
              /\ Prefix(Lines(rule), k + 1) = Prefix(Lines(rule), k) \o Shape(rule.pieces[k + 1], FALSE)
              /\ Prefix(Elems(rule), k + 1) = Prefix(Elems(rule), k) \o ElementsOf(rule.pieces[k + 1], FALSE)
              /\ Shape(rule.pieces[k + 1], FALSE) \in Seq(SegsOf(rule))
              /\ ElementsOf(rule.pieces[k + 1], FALSE) \in Seq(ElsOf(rule))
<1> DEFINE L == Lines(rule)
           E == Elems(rule)
           S == SegsOf(rule)
           R == ElsOf(rule)
<1>1. n \in Nat /\ n >= 1 /\ \A i \in 1 .. n : PieceOK(rule.pieces[i])
  BY PiecesOK
<1>2. \A i \in 1 .. n : L[i] = Shape(rule.pieces[i], FALSE) /\ E[i] = ElementsOf(rule.pieces[i], FALSE)
  BY DEF Lines, Elems
<1>3. S = UNION {ToSet(L[i]) : i \in 1 .. n} /\ R = UNION {ToSet(E[i]) : i \in 1 .. n}
  BY DEF SegsOf, ElsOf
<1> HIDE DEF L, E, S, R
<1>4. \A i \in 1 .. n : L[i] \in Seq(ToSet(L[i])) /\ E[i] \in Seq(ToSet(E[i]))
  <2> SUFFICES ASSUME NEW i \in 1 .. n PROVE L[i] \in Seq(ToSet(L[i])) /\ E[i] \in Seq(ToSet(E[i]))
    OBVIOUS
  <2>1. PieceOK(rule.pieces[i])
    BY <1>1
  <2>2. Shape(rule.pieces[i], FALSE) \in Seq(ToSet(Shape(rule.pieces[i], FALSE)))
    BY <2>1, ShapeFront
  <2>3. ElementsOf(rule.pieces[i], FALSE) \in Seq(ToSet(ElementsOf(rule.pieces[i], FALSE)))
    BY <2>1, ElementsOfList
  <2> QED
    BY <1>2, <2>2, <2>3
<1>5. /\ Prefix(L, 0) = <<>>
      /\ \A k \in 0 .. n : Prefix(L, k) \in Seq(S)
      /\ \A k \in 0 .. n : k < n => Prefix(L, k + 1) = Prefix(L, k) \o L[k + 1]
  BY <1>1, <1>3, <1>4, PrefixGrows
<1>6. /\ Prefix(E, 0) = <<>>
      /\ \A k \in 0 .. n : Prefix(E, k) \in Seq(R)
      /\ \A k \in 0 .. n : k < n => Prefix(E, k + 1) = Prefix(E, k) \o E[k + 1]
  BY <1>1, <1>3, <1>4, PrefixGrows
<1>7. ASSUME NEW k \in 0 .. n, k < n
      PROVE  /\ Prefix(L, k + 1) = Prefix(L, k) \o Shape(rule.pieces[k + 1], FALSE)
             /\ Prefix(E, k + 1) = Prefix(E, k) \o ElementsOf(rule.pieces[k + 1], FALSE)
             /\ Shape(rule.pieces[k + 1], FALSE) \in Seq(S)
             /\ ElementsOf(rule.pieces[k + 1], FALSE) \in Seq(R)
  <2>1. k + 1 \in 1 .. n
    BY <1>1, <1>7
  <2>2. L[k + 1] = Shape(rule.pieces[k + 1], FALSE) /\ E[k + 1] = ElementsOf(rule.pieces[k + 1], FALSE)
    BY <1>2, <2>1
  <2> DEFINE l == L[k + 1]
             e == E[k + 1]
             A == ToSet(l)
             B == ToSet(e)
  <2>3. l \in Seq(A) /\ e \in Seq(B) /\ A \subseteq S /\ B \subseteq R
    BY <1>3, <1>4, <2>1
  <2>4. l \in Seq(S) /\ e \in Seq(R)
    <3> HIDE DEF l, e, A, B
    <3> QED
      BY <2>3
  <2>5. Prefix(L, k + 1) = Prefix(L, k) \o l /\ Prefix(E, k + 1) = Prefix(E, k) \o e
    BY <1>5, <1>6, <1>7
  <2> QED
    BY <2>2, <2>4, <2>5
<1> QED
  BY <1>1, <1>5, <1>6, <1>7 DEF L, E, S, R

\* The literals of a piece more.
LEMMA LitsMore ==
  ASSUME NEW rule, NEW k \in Nat
  PROVE  FrontLits(rule, k + 1) =
           FrontLits(rule, k) \cup LitsOf(rule.pieces[k + 1], Len(Prefix(Lines(rule), k)))
<1> DEFINE X(i) == LitsOf(rule.pieces[i], Len(Prefix(Lines(rule), i - 1)))
<1>1. (k + 1) - 1 = k
  OBVIOUS
<1>2. FrontLits(rule, k + 1) = UNION {X(i) : i \in 1 .. k + 1} /\ FrontLits(rule, k) = (UNION {X(i) : i \in 1 .. k})
  BY DEF FrontLits
<1>3. X(k + 1) = LitsOf(rule.pieces[k + 1], Len(Prefix(Lines(rule), k)))
  BY <1>1
<1> HIDE DEF X
<1>4. UNION {X(i) : i \in 1 .. k + 1} = (UNION {X(i) : i \in 1 .. k}) \cup X(k + 1)
  <2>1. \A i : i \in 1 .. k + 1 <=> i \in 1 .. k \/ i = k + 1
    OBVIOUS
  <2> QED
    BY <2>1
<1> QED
  BY <1>2, <1>3, <1>4

\* Routable: no `**` before the last piece.
LEMMA FrontClosed ==
  ASSUME NEW rule, Routable(rule), NEW k \in 1 .. Len(rule.pieces), k # Len(rule.pieces),
         rule.pieces[k].kind = "field"
  PROVE  \A j \in 1 .. Len(rule.pieces[k].parts) : rule.pieces[k].parts[j] # "**"
BY DEF Routable

\* What is mounted of the pieces before the last stands for their elements.
LEMMA FrontStands ==
  ASSUME NEW rule, WellFormed(rule), Routable(rule), NEW n, n = Len(rule.pieces)
  PROVE  Stands(Prefix(Lines(rule), n - 1), Prefix(Elems(rule), n - 1), FrontLits(rule, n - 1))
<1> DEFINE P(k) == Prefix(Lines(rule), k)
           E(k) == Prefix(Elems(rule), k)
           S == SegsOf(rule)
           R == ElsOf(rule)
           T == {k \in Nat : k < n => Stands(P(k), E(k), FrontLits(rule, k))}
<1>1. /\ n \in Nat /\ n >= 1 /\ P(0) = <<>> /\ E(0) = <<>>
      /\ \A k \in 0 .. n : P(k) \in Seq(S) /\ E(k) \in Seq(R)
      /\ \A k \in 0 .. n : k < n =>
           /\ P(k + 1) = P(k) \o Shape(rule.pieces[k + 1], FALSE)
           /\ E(k + 1) = E(k) \o ElementsOf(rule.pieces[k + 1], FALSE)
           /\ Shape(rule.pieces[k + 1], FALSE) \in Seq(S)
           /\ ElementsOf(rule.pieces[k + 1], FALSE) \in Seq(R)
  BY LinesGrow
<1>2. \A i \in 1 .. n : PieceOK(rule.pieces[i])
  BY PiecesOK
<1>3. \A k \in Nat : FrontLits(rule, k + 1) = FrontLits(rule, k) \cup LitsOf(rule.pieces[k + 1], Len(P(k)))
  BY LitsMore
<1>4. FrontLits(rule, 0) = {}
  BY DEF FrontLits
<1> HIDE DEF P, E, S, R
<1>5. 0 \in T
  BY <1>1, <1>4, StandsNone
<1>6. ASSUME NEW k \in Nat, k \in T PROVE k + 1 \in T
  <2> DEFINE piece == rule.pieces[k + 1]
             L == Shape(piece, FALSE)
             D == ElementsOf(piece, FALSE)
             lits == FrontLits(rule, k)
  <2>1. SUFFICES ASSUME k + 1 < n PROVE Stands(P(k + 1), E(k + 1), FrontLits(rule, k + 1))
    OBVIOUS
  <2>2. k \in 0 .. n /\ k < n /\ k + 1 \in 1 .. n /\ k + 1 # n
    BY <1>1, <2>1
  <2>3. P(k + 1) = P(k) \o L /\ E(k + 1) = E(k) \o D /\ L \in Seq(S) /\ D \in Seq(R)
    BY <1>1, <2>2
  <2>4. PieceOK(piece)
    BY <1>2, <2>2
  <2>5. piece.kind = "field" => \A j \in 1 .. Len(piece.parts) : piece.parts[j] # "**"
    BY <2>2, FrontClosed
  <2>6. Stands(P(k), E(k), lits)
    BY <1>6, <2>2
  <2>7. P(k) \in Seq(S) /\ E(k) \in Seq(R)
    BY <1>1, <2>2
  <2>8. FrontLits(rule, k + 1) = lits \cup LitsOf(piece, Len(P(k)))
    BY <1>3
  <2> HIDE DEF piece, lits
  <2>9. Stands(P(k) \o L, E(k) \o D, lits \cup LitsOf(piece, Len(P(k))))
    BY <2>3, <2>4, <2>5, <2>6, <2>7, StandsMore
  <2> HIDE DEF L, D
  <2> QED
    BY <2>3, <2>8, <2>9
<1> HIDE DEF T
<1>7. n - 1 \in T
  <2>1. n - 1 \in Nat
    BY <1>1
  <2> QED
    BY <1>5, <1>6, <2>1, Induction
<1> QED
  BY <1>1, <1>7 DEF T, P, E

\* Lines with a last one of its own.
Ends(w, n, line, z, S) ==
  /\ n \in Nat /\ n >= 1 /\ z \in Seq(S) /\ \A i \in 1 .. n : line[i] \in Seq(S)
  /\ w = [k \in 1 .. n |-> IF k = n THEN z ELSE line[k]]

\* A last line after the others, and the lines before one of them.
Parted(w, n, line, z) ==
  /\ FlattenSeq(w) = Prefix(line, n - 1) \o z
  /\ \A k \in 1 .. n : FlattenSeq(SubSeq(w, 1, k - 1)) = Prefix(line, k - 1)

\* So they part.
LEMMA LastLine ==
  ASSUME NEW w, NEW n, NEW line, NEW z, NEW S, Ends(w, n, line, z, S)
  PROVE  Parted(w, n, line, z)
<1> DEFINE front == [i \in 1 .. n - 1 |-> line[i]]
           Z == Seq(S)
<1>0. /\ n \in Nat /\ n >= 1 /\ z \in Seq(S) /\ \A i \in 1 .. n : line[i] \in Seq(S)
      /\ w = [k \in 1 .. n |-> IF k = n THEN z ELSE line[k]]
  BY DEF Ends
<1>1. front \in Seq(Z) /\ Len(front) = n - 1 /\ z \in Z
  BY <1>0
<1>2. w \in Seq(Z) /\ Len(w) = n
  <2>1. \A k \in 1 .. n : w[k] \in Z
    BY <1>0
  <2> HIDE DEF Z
  <2>2. w \in [1 .. n -> Z]
    BY <1>0, <2>1
  <2> QED
    BY <1>0, <2>2
<1>3. w[n] = z /\ \A i \in 1 .. n - 1 : w[i] = front[i] /\ w[i] = line[i]
  BY <1>0
<1>4. Prefix(line, n - 1) = FlattenSeq(front)
  BY DEF Prefix
<1> HIDE DEF front
<1>5. /\ Len(w) = Len(front) + 1 /\ w[Len(front) + 1] = z
      /\ \A i \in 1 .. Len(front) : w[i] = front[i]
  <2>1. n = (n - 1) + 1
    BY <1>0
  <2> HIDE DEF Z
  <2> QED
    BY <1>1, <1>2, <1>3, <2>1
<1>6. w = Append(front, z)
  <2> HIDE DEF Z
  <2> QED
    BY <1>1, <1>2, <1>5, AppendIs
<1>7. FlattenSeq(Append(front, z)) = FlattenSeq(front) \o z
  BY <1>1, FlattenSeqAppend
<1>8. ASSUME NEW k \in 1 .. n PROVE FlattenSeq(SubSeq(w, 1, k - 1)) = Prefix(line, k - 1)
  <2> DEFINE f == [i \in 1 .. k - 1 |-> line[i]]
             sub == SubSeq(w, 1, k - 1)
             j == k - 1
  <2>0. j \in Nat /\ j \in Int /\ 1 \in Int /\ j < n
    BY <1>0
  <2>1. \A i \in 1 .. j : w[i] = line[i] /\ line[i] \in Z
    BY <1>0, <1>3
  <2>2. f \in Seq(Z) /\ Len(f) = j /\ \A i \in 1 .. j : f[i] = line[i]
    BY <2>0, <2>1
  <2>3. \A i \in 1 .. j : w[i] \in Z
    BY <2>1
  <2> HIDE DEF Z, j
  <2>4. LET s == SubSeq(w, 1, j)
        IN  /\ s \in Seq(Z) /\ Len(s) = IF 1 <= j THEN j - 1 + 1 ELSE 0
            /\ \A i \in 1 .. j - 1 + 1 : s[i] = w[1 + i - 1]
    BY <2>0, <2>3, SubSeqProperties
  <2>5. sub = SubSeq(w, 1, j)
    BY DEF j
  <2> HIDE DEF sub, f
  <2>6. sub \in Seq(Z) /\ Len(sub) = j /\ \A i \in 1 .. j : sub[i] = w[i]
    <3>1. j - 1 + 1 = j /\ \A i \in 1 .. j : 1 + i - 1 = i
      BY <2>0
    <3> QED
      BY <2>0, <2>4, <2>5, <3>1
  <2>7. \A i \in 1 .. Len(sub) : sub[i] = f[i]
    BY <2>1, <2>2, <2>6
  <2>8. sub = f
    BY <2>2, <2>6, <2>7, SeqEqual
  <2> QED
    BY <2>8 DEF sub, f, Prefix
<1> QED
  BY <1>4, <1>6, <1>7, <1>8 DEF Parted

\* A list of some is one of more.
LEMMA MoreList ==
  ASSUME NEW A, NEW S, A \subseteq S, NEW l \in Seq(A)
  PROVE  l \in Seq(S)
OBVIOUS

\* The lines before the last, as Mount writes them.
LEMMA FrontShapes ==
  ASSUME NEW rule, WellFormed(rule), NEW n, n = Len(rule.pieces)
  PROVE  \E S : Ends([k \in 1 .. n |-> Shape(rule.pieces[k], k = n)], n, Lines(rule),
                     Shape(rule.pieces[n], TRUE), S)
<1> DEFINE L == Lines(rule)
           z == Shape(rule.pieces[n], TRUE)
           A == SegsOf(rule)
           B == ToSet(z)
           S == A \cup B
           w == [k \in 1 .. n |-> Shape(rule.pieces[k], k = n)]
<1>1. n \in Nat /\ n >= 1 /\ \A i \in 1 .. n : PieceOK(rule.pieces[i])
  BY PiecesOK
<1>2. \A i \in 1 .. n : L[i] = Shape(rule.pieces[i], FALSE)
  BY DEF Lines
<1>3. \A k \in 1 .. n : w[k] = IF k = n THEN z ELSE L[k]
  <2> SUFFICES ASSUME NEW k \in 1 .. n PROVE w[k] = IF k = n THEN z ELSE L[k]
    OBVIOUS
  <2>1. w[k] = Shape(rule.pieces[k], k = n)
    OBVIOUS
  <2>2. CASE k = n
    <3>1. Shape(rule.pieces[k], k = n) = z
      BY <2>2 DEF Shape
    <3> QED
      BY <2>1, <2>2, <3>1
  <2>3. CASE k # n
    <3>1. Shape(rule.pieces[k], k = n) = Shape(rule.pieces[k], FALSE)
      BY <2>3 DEF Shape
    <3> QED
      BY <1>2, <2>1, <2>3, <3>1
  <2> QED
    BY <2>2, <2>3
<1>4. z \in Seq(B)
  <2>1. n \in 1 .. n
    BY <1>1
  <2>2. PICK x : z = <<x>>
    BY <1>1, <2>1, ShapeLast
  <2> QED
    BY <2>2, OneList
<1>5. w = [k \in 1 .. n |-> w[k]]
  OBVIOUS
<1>6. \A i \in 1 .. n : L[i] \in Seq(A)
  <2> SUFFICES ASSUME NEW i \in 1 .. n PROVE L[i] \in Seq(A)
    OBVIOUS
  <2> DEFINE k == i - 1
  <2>1. k \in 0 .. n /\ k < n /\ k + 1 = i
    BY <1>1
  <2>2. Shape(rule.pieces[k + 1], FALSE) \in Seq(SegsOf(rule))
    BY <2>1, LinesGrow
  <2> QED
    BY <1>2, <2>1, <2>2
<1>7. A \subseteq S /\ B \subseteq S
  OBVIOUS
<1> HIDE DEF L, z, S, A, B, w
<1>8. z \in Seq(S) /\ \A i \in 1 .. n : L[i] \in Seq(S)
  BY <1>4, <1>6, <1>7, MoreList
<1>9. w = [k \in 1 .. n |-> IF k = n THEN z ELSE L[k]]
  BY <1>3, <1>5
<1>10. Ends(w, n, L, z, S)
  BY <1>1, <1>8, <1>9 DEF Ends
<1> QED
  BY <1>10 DEF w, L, z

\* The elements of a template: of the pieces before the last, then of the last.
LEMMA FrontElements ==
  ASSUME NEW rule, WellFormed(rule), NEW n, n = Len(rule.pieces)
  PROVE  \E S : Ends([k \in 1 .. n |-> ElementsOf(rule.pieces[k], k = n)], n, Elems(rule),
                     ElementsOf(rule.pieces[n], TRUE), S)
<1> DEFINE L == Elems(rule)
           z == ElementsOf(rule.pieces[n], TRUE)
           A == ElsOf(rule)
           B == ToSet(z)
           S == A \cup B
           w == [k \in 1 .. n |-> ElementsOf(rule.pieces[k], k = n)]
<1>1. n \in Nat /\ n >= 1 /\ \A i \in 1 .. n : PieceOK(rule.pieces[i])
  BY PiecesOK
<1>2. \A i \in 1 .. n : L[i] = ElementsOf(rule.pieces[i], FALSE)
  BY DEF Elems
<1>3. \A k \in 1 .. n : w[k] = IF k = n THEN z ELSE L[k]
  <2> SUFFICES ASSUME NEW k \in 1 .. n PROVE w[k] = IF k = n THEN z ELSE L[k]
    OBVIOUS
  <2>1. w[k] = ElementsOf(rule.pieces[k], k = n)
    OBVIOUS
  <2>2. CASE k = n
    <3>1. ElementsOf(rule.pieces[k], k = n) = z
      BY <2>2 DEF ElementsOf
    <3> QED
      BY <2>1, <2>2, <3>1
  <2>3. CASE k # n
    <3>1. ElementsOf(rule.pieces[k], k = n) = ElementsOf(rule.pieces[k], FALSE)
      BY <2>3 DEF ElementsOf
    <3> QED
      BY <1>2, <2>1, <2>3, <3>1
  <2> QED
    BY <2>2, <2>3
<1>4. z \in Seq(B)
  <2>1. n \in 1 .. n /\ TRUE \in BOOLEAN
    BY <1>1
  <2> QED
    BY <1>1, <2>1, ElementsOfList
<1>5. w = [k \in 1 .. n |-> w[k]]
  OBVIOUS
<1>6. \A i \in 1 .. n : L[i] \in Seq(A)
  <2> SUFFICES ASSUME NEW i \in 1 .. n PROVE L[i] \in Seq(A)
    OBVIOUS
  <2> DEFINE k == i - 1
  <2>1. k \in 0 .. n /\ k < n /\ k + 1 = i
    BY <1>1
  <2>2. ElementsOf(rule.pieces[k + 1], FALSE) \in Seq(ElsOf(rule))
    BY <2>1, LinesGrow
  <2> QED
    BY <1>2, <2>1, <2>2
<1>7. A \subseteq S /\ B \subseteq S
  OBVIOUS
<1> HIDE DEF L, z, S, A, B, w
<1>8. z \in Seq(S) /\ \A i \in 1 .. n : L[i] \in Seq(S)
  BY <1>4, <1>6, <1>7, MoreList
<1>9. w = [k \in 1 .. n |-> IF k = n THEN z ELSE L[k]]
  BY <1>3, <1>5
<1>10. Ends(w, n, L, z, S)
  BY <1>1, <1>8, <1>9 DEF Ends
<1> QED
  BY <1>10 DEF w, L, z

\* The template of the last piece.
PartsOf(piece) == IF piece.kind = "field" THEN piece.parts ELSE <<"*">>

\* The literals Mount notes are those of the pieces before the last.
LitsAt(rule, n, W) ==
  UNION {{<<W[k] + j, rule.pieces[k].parts[j]>> :
            j \in {j \in 1 .. Len(rule.pieces[k].parts) : rule.pieces[k].parts[j] \in Escaped}} :
         k \in {k \in 1 .. n - 1 : rule.pieces[k].kind = "field"}}

\* So they are.
LEMMA MountLits ==
  ASSUME NEW rule, NEW n \in Nat, NEW W, \A k \in 1 .. n : W[k] = Len(Prefix(Lines(rule), k - 1))
  PROVE  FrontLits(rule, n - 1) = LitsAt(rule, n, W)
<1> DEFINE X(k) == {<<W[k] + j, rule.pieces[k].parts[j]>> :
                      j \in {j \in 1 .. Len(rule.pieces[k].parts) : rule.pieces[k].parts[j] \in Escaped}}
           Y(k) == LitsOf(rule.pieces[k], Len(Prefix(Lines(rule), k - 1)))
           spelled == {k \in 1 .. n - 1 : rule.pieces[k].kind = "field"}
<1>1. FrontLits(rule, n - 1) = UNION {Y(k) : k \in 1 .. n - 1}
  BY DEF FrontLits
<1>2. \A k \in 1 .. n - 1 : (k \in spelled => Y(k) = X(k)) /\ (k \notin spelled => Y(k) = {})
  <2> SUFFICES ASSUME NEW k \in 1 .. n - 1
               PROVE  (k \in spelled => Y(k) = X(k)) /\ (k \notin spelled => Y(k) = {})
    OBVIOUS
  <2>1. W[k] = Len(Prefix(Lines(rule), k - 1))
    OBVIOUS
  <2> QED
    BY <2>1 DEF LitsOf
<1>3. spelled \subseteq 1 .. n - 1
  OBVIOUS
<1> HIDE DEF X, Y, spelled
<1>4. UNION {Y(k) : k \in 1 .. n - 1} = UNION {X(k) : k \in spelled}
  BY <1>2, <1>3
<1> QED
  BY <1>1, <1>4 DEF X, spelled, LitsAt

\* What Mount makes of a template.
MountedAs(rule, m) ==
  /\ m.rule = rule /\ m.verb = Octets(rule.verb)
  /\ m.path = FrontPath(rule) \o Shape(LastPiece(rule), TRUE)
  /\ m.literals = FrontLits(rule, Len(rule.pieces) - 1)
  /\ m.start = Len(FrontPath(rule)) + 1
  /\ m.template = IF PartsOf(LastPiece(rule)) \in {<<"*">>, <<"**">>} THEN <<>>
                  ELSE PartsOf(LastPiece(rule))
  /\ m.empty_ok = (Last(PartsOf(LastPiece(rule))) = "**")

\* So it does.
LEMMA MountIs ==
  ASSUME NEW rule, WellFormed(rule), NEW n, n = Len(rule.pieces), NEW m, m = Mount(rule)
  PROVE  MountedAs(rule, m)
<1> DEFINE w == [k \in 1 .. n |-> Shape(rule.pieces[k], k = n)]
           L == Lines(rule)
           z == Shape(rule.pieces[n], TRUE)
           Wr(k) == Len(FlattenSeq(SubSeq(w, 1, k - 1)))
           W == [k \in 1 .. n |-> Wr(k)]
           parts == PartsOf(LastPiece(rule))
           spelled == {k \in 1 .. n - 1 : rule.pieces[k].kind = "field"}
           Lit(k) == {<<Wr(k) + j, rule.pieces[k].parts[j]>> :
                      j \in {j \in 1 .. Len(rule.pieces[k].parts) : rule.pieces[k].parts[j] \in Escaped}}
<1>1. n \in Nat /\ n >= 1
  BY PiecesOK
<1>2. PICK S : Ends(w, n, L, z, S)
  BY FrontShapes
<1>3. /\ FlattenSeq(w) = Prefix(L, n - 1) \o z
      /\ \A k \in 1 .. n : FlattenSeq(SubSeq(w, 1, k - 1)) = Prefix(L, k - 1)
  <2> HIDE DEF w, L, z
  <2>1. Parted(w, n, L, z)
    BY <1>2, LastLine
  <2> QED
    BY <2>1 DEF Parted
<1>4. m = [rule |-> rule, verb |-> Octets(rule.verb), path |-> FlattenSeq(w),
           literals |-> UNION {Lit(k) : k \in spelled},
           template |-> IF parts \in {<<"*">>, <<"**">>} THEN <<>> ELSE parts,
           start |-> Wr(n) + 1,
           empty_ok |-> Last(parts) = "**"]
  BY DEF Mount, PartsOf, LastPiece
<1>5. \A k \in 1 .. n : W[k] = Len(Prefix(Lines(rule), k - 1)) /\ W[k] = Wr(k)
  BY <1>3
<1>6. UNION {Lit(k) : k \in spelled} = FrontLits(rule, n - 1)
  <2> HIDE DEF w, Wr
  <2>1. \A k \in 1 .. n : W[k] = Len(Prefix(Lines(rule), k - 1))
    BY <1>5
  <2>2. FrontLits(rule, n - 1) =
           UNION {{<<W[k] + j, rule.pieces[k].parts[j]>> :
                     j \in {j \in 1 .. Len(rule.pieces[k].parts) : rule.pieces[k].parts[j] \in Escaped}} :
                  k \in spelled}
    <3> HIDE DEF W
    <3>1. FrontLits(rule, n - 1) = LitsAt(rule, n, W)
      BY <1>1, <2>1, MountLits
    <3> QED
      BY <3>1 DEF LitsAt
  <2>3. \A k \in spelled : W[k] = Wr(k)
    BY <1>1, <1>5
  <2> HIDE DEF W
  <2>4. \A k \in spelled : Lit(k) = {<<W[k] + j, rule.pieces[k].parts[j]>> :
                     j \in {j \in 1 .. Len(rule.pieces[k].parts) : rule.pieces[k].parts[j] \in Escaped}}
    BY <2>3
  <2> HIDE DEF Lit, spelled
  <2> QED
    BY <2>2, <2>4
<1>7. Wr(n) = Len(FrontPath(rule)) /\ FlattenSeq(w) = FrontPath(rule) \o Shape(LastPiece(rule), TRUE)
  <2>1. n \in 1 .. n
    BY <1>1
  <2> QED
    BY <1>3, <2>1 DEF FrontPath, LastPiece
<1> HIDE DEF w, Wr, Lit, spelled, parts
<1>8. m.rule = rule /\ m.verb = Octets(rule.verb) /\ m.path = FlattenSeq(w)
      /\ m.literals = UNION {Lit(k) : k \in spelled} /\ m.start = Wr(n) + 1
  BY <1>4
<1>9. m.template = (IF parts \in {<<"*">>, <<"**">>} THEN <<>> ELSE parts)
  BY <1>4
<1>10. m.empty_ok = (Last(parts) = "**")
  BY <1>4
<1> QED
  BY <1>6, <1>7, <1>8, <1>9, <1>10 DEF parts, MountedAs

\* The elements of a template, and where its last piece starts.
LEMMA ElementsAre ==
  ASSUME NEW rule, WellFormed(rule)
  PROVE  /\ Elements(rule) = FrontElems(rule) \o ElementsOf(LastPiece(rule), TRUE)
         /\ FlattenSeq([k \in 1 .. Len(rule.pieces) - 1 |-> Shape(rule.pieces[k], FALSE)]) = FrontPath(rule)
<1> DEFINE n == Len(rule.pieces)
           w == [k \in 1 .. n |-> ElementsOf(rule.pieces[k], k = n)]
           E == Elems(rule)
           z == ElementsOf(rule.pieces[n], TRUE)
<1>1. PICK S : Ends(w, n, E, z, S)
  BY FrontElements
<1>2. Elements(rule) = FlattenSeq(w)
  BY DEF Elements
<1>3. FlattenSeq(w) = Prefix(E, n - 1) \o z
  <2> HIDE DEF w, E, z, n
  <2>1. Parted(w, n, E, z)
    BY <1>1, LastLine
  <2> QED
    BY <2>1 DEF Parted
<1>4. n \in Nat
  BY PiecesOK
<1>5. [k \in 1 .. n - 1 |-> Shape(rule.pieces[k], FALSE)] = [i \in 1 .. n - 1 |-> Lines(rule)[i]]
  <2>1. \A i \in 1 .. n : Lines(rule)[i] = Shape(rule.pieces[i], FALSE)
    BY DEF Lines
  <2> DEFINE G(i) == Lines(rule)[i] = Shape(rule.pieces[i], FALSE)
  <2>3. \A i \in 1 .. n : G(i)
    BY <2>1
  <2> HIDE DEF n, G
  <2>4. \A i \in 1 .. n - 1 : G(i)
    BY <1>4, <2>3
  <2>2. \A i \in 1 .. n - 1 : Lines(rule)[i] = Shape(rule.pieces[i], FALSE)
    BY <2>4 DEF G
  <2> QED
    BY <2>2
<1> QED
  BY <1>2, <1>3, <1>5 DEF FrontElems, FrontPath, LastPiece, Prefix

-----------------------------------------------------------------------------
\* What Follows computes.

\* The positions followed from, with `left` parts of the template to go.
FollowOn(template, value, left, next) == Follow(template, value, Len(template) - left + 1, next)
Followed(from, template, value) ==
  from = [left \in 0 .. Len(template) |-> FollowOn(template, value, left, from[left - 1])]

\* There is such a function: with no part to go nothing is next.
LEMMA FollowedExists ==
  ASSUME NEW S, NEW template \in Seq(S), NEW value
  PROVE  \E from : Followed(from, template, value)
<1> DEFINE At(n, x) == FollowOn(template, value, n, x)
           Part(f, k) == f = [n \in 0 .. k |-> At(n, f[n - 1])]
           T == {k \in Nat : \E f : Part(f, k)}
<1>0. \A x, y : At(0, x) = At(0, y)
  <2> SUFFICES ASSUME NEW x, NEW y PROVE At(0, x) = At(0, y)
    OBVIOUS
  <2>1. Len(template) - 0 + 1 > Len(template)
    OBVIOUS
  <2> QED
    BY <2>1 DEF FollowOn, Follow
<1> HIDE DEF At
<1>1. 0 \in T
  <2> DEFINE f == [n \in 0 .. 0 |-> At(0, 0)]
  <2>1. \A n \in 0 .. 0 : f[n] = At(n, f[n - 1])
    BY <1>0
  <2>2. f = [n \in 0 .. 0 |-> f[n]]
    OBVIOUS
  <2> HIDE DEF f
  <2>3. Part(f, 0)
    BY <2>1, <2>2
  <2> QED
    BY <2>3
<1>2. ASSUME NEW k \in Nat, k \in T PROVE k + 1 \in T
  <2>1. PICK f : Part(f, k)
    BY <1>2
  <2> DEFINE g == [n \in 0 .. k + 1 |-> At(n, f[n - 1])]
  <2>2. \A n \in 0 .. k : g[n] = f[n]
    BY <2>1
  <2>3. ASSUME NEW n \in 0 .. k + 1 PROVE g[n] = At(n, g[n - 1])
    <3>1. CASE n = 0
      BY <1>0, <3>1
    <3>2. CASE n # 0
      <4>1. n - 1 \in 0 .. k
        BY <3>2
      <4> QED
        BY <2>2, <4>1
    <3> QED
      BY <3>1, <3>2
  <2>4. g = [n \in 0 .. k + 1 |-> g[n]]
    OBVIOUS
  <2> HIDE DEF g
  <2>5. [n \in 0 .. k + 1 |-> g[n]] = [n \in 0 .. k + 1 |-> At(n, g[n - 1])]
    BY <2>3
  <2>6. Part(g, k + 1)
    BY <2>4, <2>5
  <2> HIDE DEF Part
  <2>7. \E f2 : Part(f2, k + 1)
    BY <2>6
  <2> QED
    BY <2>7
<1> HIDE DEF T
<1>3. Len(template) \in T
  BY <1>1, <1>2, Induction
<1>4. PICK f : Part(f, Len(template))
  BY <1>3 DEF T
<1> QED
  BY <1>4 DEF At, Followed

\* Each part is a step on what the next follows from.
LEMMA FollowingDef ==
  ASSUME NEW S, NEW template \in Seq(S), NEW value
  PROVE  \A left \in 0 .. Len(template) :
           Following(template, value)[left] =
             Follow(template, value, Len(template) - left + 1, Following(template, value)[left - 1])
<1> DEFINE g == CHOOSE from : Followed(from, template, value)
<1>0. \E from : Followed(from, template, value)
  BY FollowedExists
<1>1. Followed(g, template, value)
  BY <1>0, Zenon
<1>2. Following(template, value) = g
  BY DEF Following, Followed, FollowOn
<1> HIDE DEF g
<1>3. \A left \in 0 .. Len(template) : g[left] = FollowOn(template, value, left, g[left - 1])
  BY <1>1 DEF Followed
<1> QED
  BY <1>2, <1>3 DEF FollowOn

\* A part takes a segment.
PartIs(part, seg) == IF part = "*" THEN seg # Empty ELSE SameOctets(seg, part)

\* A template of `fixed` parts, and `**` after them when it is open, is followed
\* by a value of that many segments, or more when it is open, each taken by its
\* part.
LEMMA FollowsIs ==
  ASSUME NEW S, NEW template \in Seq(S), NEW R, NEW value \in Seq(R),
         NEW fixed \in Nat, NEW open \in BOOLEAN,
         Len(template) = IF open THEN fixed + 1 ELSE fixed,
         \A i \in 1 .. fixed : template[i] # "**", open => template[fixed + 1] = "**"
  PROVE  Follows(template, value) <=>
           /\ fixed <= Len(value) /\ (open \/ fixed = Len(value))
           /\ \A i \in 1 .. fixed : PartIs(template[i], value[i])
<1> DEFINE L == Len(template)
           N == Len(value)
           K == L - fixed
           G == Following(template, value)
           Good(c, j) == /\ j + c <= N + 1 /\ (open \/ j + c = N + 1)
                         /\ \A d \in 1 .. c : PartIs(template[fixed - c + d], value[j + d - 1])
           T == {c \in Nat : c <= fixed => \A j \in 1 .. N + 1 : j \in G[K + c] <=> Good(c, j)}
<1>1. L \in Nat /\ N \in Nat /\ K \in Nat /\ L = fixed + K /\ (open => K = 1) /\ (~open => K = 0)
  OBVIOUS
<1>2. \A left \in 0 .. L : G[left] = Follow(template, value, L - left + 1, G[left - 1])
  BY FollowingDef
<1>3. G[0] = {j \in 1 .. N + 1 : j > N}
  <2>1. L - 0 + 1 > L /\ 0 \in 0 .. L
    BY <1>1
  <2>2. G[0] = Follow(template, value, L - 0 + 1, G[0 - 1])
    BY <1>2, <2>1
  <2> HIDE DEF G
  <2> QED
    BY <2>1, <2>2 DEF Follow
<1>4. open => G[1] = 1 .. N + 1
  <2> SUFFICES ASSUME open PROVE G[1] = 1 .. N + 1
    OBVIOUS
  <2>1. 1 \in 0 .. L /\ L - 1 + 1 = L /\ 1 - 1 = 0 /\ ~(L > L) /\ template[L] = "**"
    BY <1>1
  <2>2. G[1] = Follow(template, value, L, G[0])
    BY <1>2, <2>1
  <2> HIDE DEF G
  <2>3. G[1] = {j \in 1 .. N + 1 : \E k \in j .. N + 1 : k \in G[0]}
    BY <2>1, <2>2 DEF Follow
  <2>4. \A j \in 1 .. N + 1 : N + 1 \in j .. N + 1 /\ N + 1 \in G[0]
    BY <1>1, <1>3
  <2> QED
    BY <2>3, <2>4
<1>5. 0 \in T
  <2>1. ASSUME NEW j \in 1 .. N + 1 PROVE j \in G[K + 0] <=> Good(0, j)
    <3>1. CASE open
      BY <1>1, <1>4, <3>1
    <3>2. CASE ~open
      BY <1>1, <1>3, <3>2
    <3> QED
      BY <3>1, <3>2
  <2> QED
    BY <2>1
<1>6. ASSUME NEW c \in Nat, c \in T PROVE c + 1 \in T
  <2>1. SUFFICES ASSUME c + 1 <= fixed, NEW j \in 1 .. N + 1
                 PROVE  j \in G[K + (c + 1)] <=> Good(c + 1, j)
    <3> HIDE DEF Good, G, K, N
    <3> QED
      OBVIOUS
  <2>0. j <= N => (j + 1 \in G[K + c] <=> Good(c, j + 1))
    <3>1. j <= N => j + 1 \in 1 .. N + 1
      BY <1>1
    <3>2. c <= fixed
      BY <2>1
    <3> HIDE DEF Good, G, K, N
    <3> QED
      BY <1>6, <3>1, <3>2
  <2> DEFINE i == fixed - c
             left == K + (c + 1)
  <2>2. /\ left \in 0 .. L /\ L - left + 1 = i /\ left - 1 = K + c /\ ~(i > L)
        /\ i \in 1 .. fixed /\ fixed - (c + 1) = i - 1
    BY <1>1, <2>1
  <2>3. template[i] # "**"
    BY <2>2
  <2>4. G[left] = Follow(template, value, i, G[K + c])
    BY <1>2, <2>2
  <2> HIDE DEF G, T
  <2>5. j \in G[left] <=> j <= N /\ PartIs(template[i], value[j]) /\ j + 1 \in G[K + c]
    BY <2>2, <2>3, <2>4 DEF Follow, PartIs
  <2>6. j <= N => (j + 1 \in G[K + c] <=> Good(c, j + 1))
    BY <2>0
  <2>7. Good(c, j + 1) <=> /\ j + (c + 1) <= N + 1 /\ (open \/ j + (c + 1) = N + 1)
                           /\ \A d \in 1 .. c : PartIs(template[i + d], value[j + d])
    <3>1. \A d \in 1 .. c : (j + 1) + d - 1 = j + d /\ fixed - c + d = i + d
      OBVIOUS
    <3>2. (j + 1) + c = j + (c + 1)
      OBVIOUS
    <3> QED
      BY <3>1, <3>2
  <2>8. Good(c + 1, j) <=> /\ j + (c + 1) <= N + 1 /\ (open \/ j + (c + 1) = N + 1)
                           /\ PartIs(template[i], value[j])
                           /\ \A d \in 1 .. c : PartIs(template[i + d], value[j + d])
    <3> DEFINE Q(d) == PartIs(template[fixed - (c + 1) + d], value[j + d - 1])
    <3>1. Q(1) <=> PartIs(template[i], value[j])
      BY <2>2
    <3>2. \A d \in 1 .. c : Q(d + 1) <=> PartIs(template[i + d], value[j + d])
      <4> SUFFICES ASSUME NEW d \in 1 .. c PROVE Q(d + 1) <=> PartIs(template[i + d], value[j + d])
        OBVIOUS
      <4>1. fixed - (c + 1) + (d + 1) = i + d /\ j + (d + 1) - 1 = j + d
        BY <2>2
      <4> QED
        BY <4>1
    <3>3. Good(c + 1, j) <=> /\ j + (c + 1) <= N + 1 /\ (open \/ j + (c + 1) = N + 1)
                             /\ \A d \in 1 .. c + 1 : Q(d)
      OBVIOUS
    <3> HIDE DEF Q
    <3>4. (\A d \in 1 .. c + 1 : Q(d)) <=> Q(1) /\ \A d \in 1 .. c : Q(d + 1)
      <4>1. ASSUME Q(1), \A d \in 1 .. c : Q(d + 1), NEW d \in 1 .. c + 1 PROVE Q(d)
        <5>1. CASE d = 1
          BY <4>1, <5>1
        <5>2. CASE d # 1
          <6>1. d - 1 \in 1 .. c /\ (d - 1) + 1 = d
            BY <5>2
          <6> QED
            BY <4>1, <6>1
        <5> QED
          BY <5>1, <5>2
      <4>2. 1 \in 1 .. c + 1 /\ \A d \in 1 .. c : d + 1 \in 1 .. c + 1
        OBVIOUS
      <4> QED
        BY <4>1, <4>2
    <3> HIDE DEF Good
    <3> QED
      BY <3>1, <3>2, <3>3, <3>4
  <2> HIDE DEF Good, i
  <2>9. Good(c + 1, j) => j <= N
    BY <1>1, <2>8
  <2> QED
    BY <2>5, <2>6, <2>7, <2>8, <2>9
<1> HIDE DEF T
<1>7. fixed \in T
  BY <1>5, <1>6, Induction
<1>8. 1 \in G[K + fixed] <=> Good(fixed, 1)
  BY <1>1, <1>7 DEF T
<1>9. Follows(template, value) <=> Good(fixed, 1)
  <2>1. K + fixed = L
    BY <1>1
  <2> HIDE DEF Good, K
  <2> QED
    BY <1>8, <2>1 DEF Follows
<1>10. Good(fixed, 1) <=> /\ fixed <= N /\ (open \/ fixed = N)
                          /\ \A i \in 1 .. fixed : PartIs(template[i], value[i])
  <2>1. (1 + fixed <= N + 1 <=> fixed <= N) /\ (1 + fixed = N + 1 <=> fixed = N)
    BY <1>1
  <2>2. \A d \in 1 .. fixed : fixed - fixed + d = d /\ 1 + d - 1 = d
    OBVIOUS
  <2> QED
    BY <2>1, <2>2
<1> HIDE DEF Good
<1> QED
  BY <1>9, <1>10

-----------------------------------------------------------------------------
\* A template names the URLs its mount takes.

\* The path as a binding reads it, less its verb.
Read(verb, path) == IF verb = "" THEN path ELSE WithoutVerb(path)

\* What that changes.
ReadAs(verb, path, s) ==
  /\ s \in Seq(ToSet(s)) /\ Len(s) = Len(path)
  /\ \A i \in 1 .. Len(path) - 1 : s[i] = path[i]
  /\ verb = "" => s[Len(path)] = path[Len(path)]
  /\ verb # "" => (s[Len(path)] = Empty <=> path[Len(path)][1] = "")
  /\ path[Len(path)] = Empty => s[Len(path)] = Empty

\* A list of any elements is a list of its own.
LEMMA OwnList ==
  ASSUME NEW S, NEW s \in Seq(S)
  PROVE  s \in Seq(ToSet(s))
<1> DEFINE T == ToSet(s)
<1>1. DOMAIN s = 1 .. Len(s) /\ Len(s) \in Nat
  OBVIOUS
<1>2. \A i \in 1 .. Len(s) : s[i] \in T
  BY <1>1 DEF ToSet
<1> HIDE DEF T
<1>3. s \in Seq(T)
  BY <1>1, <1>2
<1> QED
  BY <1>3 DEF T

\* split_verb takes the verb off the last segment.
LEMMA ReadIs ==
  ASSUME NEW path, RequestPath(path), NEW verb
  PROVE  ReadAs(verb, path, Read(verb, path)) /\ Len(path) \in Nat /\ Len(path) >= 1
<1> DEFINE N == Len(path)
           t == path[N][1]
           x == <<t, "">>
           front == SubSeq(path, 1, N - 1)
           s == Append(front, x)
           S == ToSet(path) \cup {x}
<1>1. path \in Seq(ToSet(path)) /\ path # <<>>
  BY DEF RequestPath
<1>2. N \in Nat /\ N >= 1 /\ \A i \in 1 .. N : path[i] \in ToSet(path)
  BY <1>1, ListIs
<1>3. WithoutVerb(path) = s
  BY DEF WithoutVerb, Front, Last
<1>4. (x = Empty <=> t = "") /\ (path[N] = Empty => t = "")
  <2>1. <<"", "">>[1] = ""
    OBVIOUS
  <2>2. path[N] = Empty => t = ""
    BY <2>1 DEF Empty
  <2> HIDE DEF t
  <2>3. <<t, "">> = <<"", "">> <=> t = ""
    OBVIOUS
  <2> QED
    BY <2>2, <2>3 DEF Empty
<1>5. \A i \in 1 .. N - 1 : path[i] \in S
  <2>1. \A i \in 1 .. N : path[i] \in S
    BY <1>2
  <2> HIDE DEF S, N
  <2> QED
    BY <1>2, <2>1
<1>6. x \in S
  OBVIOUS
<1> HIDE DEF S, x
<1>7. front \in Seq(S) /\ Len(front) = N - 1 /\ \A i \in 1 .. N - 1 : front[i] = path[i]
  <2> DEFINE j == N - 1
  <2>0. j \in Nat /\ j \in Int /\ 1 \in Int
    BY <1>2
  <2>1. \A i \in 1 .. j : path[i] \in S
    BY <1>5
  <2> HIDE DEF j, N
  <2>4. LET u == SubSeq(path, 1, j)
        IN  /\ u \in Seq(S) /\ Len(u) = IF 1 <= j THEN j - 1 + 1 ELSE 0
            /\ \A i \in 1 .. j - 1 + 1 : u[i] = path[1 + i - 1]
    BY <2>0, <2>1, SubSeqProperties
  <2>5. front = SubSeq(path, 1, j)
    BY DEF j
  <2> HIDE DEF front
  <2>6. front \in Seq(S) /\ Len(front) = j /\ \A i \in 1 .. j : front[i] = path[i]
    <3>1. j - 1 + 1 = j /\ \A i \in 1 .. j : 1 + i - 1 = i
      BY <2>0
    <3> QED
      BY <2>0, <2>4, <2>5, <3>1
  <2> QED
    BY <2>6 DEF j
<1> HIDE DEF front
<1>8. s \in Seq(S) /\ Len(s) = N /\ (\A i \in 1 .. N - 1 : s[i] = path[i]) /\ s[N] = x
  <2>1. /\ s \in Seq(S) /\ Len(s) = Len(front) + 1 /\ (\A i \in 1 .. Len(front) : s[i] = front[i])
        /\ s[Len(front) + 1] = x
    BY <1>6, <1>7, AppendProperties
  <2>2. N - 1 + 1 = N
    BY <1>2
  <2> HIDE DEF s, N
  <2> QED
    BY <1>7, <2>1, <2>2
<1> HIDE DEF s
<1>9. s \in Seq(ToSet(s))
  BY <1>8, OwnList
<1>10. CASE verb = ""
  BY <1>1, <1>2, <1>10 DEF Read, ReadAs
<1>11. CASE verb # ""
  <2>1. Read(verb, path) = s
    BY <1>3, <1>11 DEF Read
  <2>2. ReadAs(verb, path, s)
    BY <1>4, <1>8, <1>9, <1>11 DEF ReadAs
  <2> QED
    BY <1>2, <2>1, <2>2
<1> QED
  BY <1>10, <1>11

\* A template as far as its last piece, of `front` segments, and that piece.
FrontNamed(rule, path) ==
  \A i \in 1 .. Len(FrontPath(rule)) : SegmentIs(FrontElems(rule)[i], path[i])
TailNamed(D, verb, f, path, s) ==
  LET d == Len(D)
      N == Len(path)
  IN  IF D[d].is = "rest"
      THEN /\ f + d - 1 <= N /\ \A j \in 1 .. d - 1 : SegmentIs(D[j], s[f + j])
           /\ ~(N = f + 1 /\ path[f + 1] = Empty)
      ELSE /\ N = f + d /\ \A j \in 1 .. d : SegmentIs(D[j], s[f + j])
           /\ D[d].is = "one" /\ s[f + d] = Empty => EmptyLast /\ verb = ""

\* What stands before the last piece.
LEMMA FrontIs ==
  ASSUME NEW rule, WellFormed(rule), Routable(rule)
  PROVE  /\ FrontPath(rule) \in Seq(SegsOf(rule)) /\ FrontElems(rule) \in Seq(ElsOf(rule))
         /\ Stands(FrontPath(rule), FrontElems(rule), FrontLits(rule, Len(rule.pieces) - 1))
         /\ PieceOK(LastPiece(rule)) /\ (rule.verb # "" => LastPiece(rule).kind # "literal")
         /\ LastPiece(rule).kind = "field" =>
              \A j \in 1 .. Len(LastPiece(rule).parts) :
                LastPiece(rule).parts[j] = "**" => j = Len(LastPiece(rule).parts)
<1> DEFINE n == Len(rule.pieces)
<1>1. /\ n \in Nat /\ n >= 1 /\ (\A k \in 1 .. n : PieceOK(rule.pieces[k]))
      /\ (rule.verb # "" => rule.pieces[n].kind # "literal")
  BY PiecesOK
<1>2. n - 1 \in 0 .. n /\ n \in 1 .. n
  <2>1. n \in Nat /\ n >= 1
    BY <1>1
  <2> HIDE DEF n
  <2> QED
    BY <2>1
<1>3. \A k \in 0 .. n : Prefix(Lines(rule), k) \in Seq(SegsOf(rule)) /\ Prefix(Elems(rule), k) \in Seq(ElsOf(rule))
  BY LinesGrow
<1>4. Stands(Prefix(Lines(rule), n - 1), Prefix(Elems(rule), n - 1), FrontLits(rule, n - 1))
  BY FrontStands
<1>5. rule.pieces[n].kind = "field" =>
        \A j \in 1 .. Len(rule.pieces[n].parts) :
          rule.pieces[n].parts[j] = "**" => j = Len(rule.pieces[n].parts)
  BY <1>2 DEF Routable
<1> QED
  BY <1>1, <1>2, <1>3, <1>4, <1>5 DEF FrontPath, FrontElems, LastPiece

\* Elements joined are segments' when those of each list are.
LEMMA SplitNamed ==
  ASSUME NEW E, NEW D, NEW e, Joined(E, D, e), NEW s, NEW k \in Nat, k <= Len(D)
  PROVE  (\A i \in 1 .. Len(E) + k : SegmentIs(e[i], s[i])) <=>
           /\ \A i \in 1 .. Len(E) : SegmentIs(E[i], s[i])
           /\ \A j \in 1 .. k : SegmentIs(D[j], s[Len(E) + j])
<1> DEFINE f == Len(E)
           Q(i) == SegmentIs(e[i], s[i])
<1>1. /\ f \in Nat /\ Len(D) \in Nat /\ (\A i \in 1 .. f : e[i] = E[i])
      /\ \A j \in 1 .. Len(D) : e[f + j] = D[j]
  BY DEF Joined
<1>2. \A i \in 1 .. f : Q(i) <=> SegmentIs(E[i], s[i])
  BY <1>1
<1>3. \A j \in 1 .. k : Q(f + j) <=> SegmentIs(D[j], s[f + j])
  <2> SUFFICES ASSUME NEW j \in 1 .. k PROVE Q(f + j) <=> SegmentIs(D[j], s[f + j])
    OBVIOUS
  <2>1. j \in 1 .. Len(D)
    BY <1>1
  <2> QED
    BY <1>1, <2>1
<1> HIDE DEF Q, f
<1>4. (\A i \in 1 .. f + k : Q(i)) <=> (\A i \in 1 .. f : Q(i)) /\ \A j \in 1 .. k : Q(f + j)
  <2>1. ASSUME \A i \in 1 .. f + k : Q(i) PROVE (\A i \in 1 .. f : Q(i)) /\ \A j \in 1 .. k : Q(f + j)
    BY <1>1, <2>1
  <2>2. ASSUME \A i \in 1 .. f : Q(i), \A j \in 1 .. k : Q(f + j), NEW i \in 1 .. f + k PROVE Q(i)
    <3>1. i \in 1 .. f \/ \E j \in 1 .. k : i = f + j
      BY <1>1, JoinIndex
    <3> QED
      BY <2>2, <3>1
  <2> QED
    BY <2>1, <2>2
<1> QED
  BY <1>2, <1>3, <1>4 DEF f, Q

\* The elements of the last piece.
LEMMA LastElements ==
  ASSUME NEW piece, PieceOK(piece)
  PROVE  /\ ElementsOf(piece, TRUE) \in Seq(ToSet(ElementsOf(piece, TRUE)))
         /\ Len(ElementsOf(piece, TRUE)) \in Nat /\ Len(ElementsOf(piece, TRUE)) >= 1
<1> DEFINE D == ElementsOf(piece, TRUE)
<1>1. D \in Seq(ToSet(D)) /\ Len(D) = IF piece.kind = "field" THEN Len(piece.parts) ELSE 1
  <2>1. TRUE \in BOOLEAN
    OBVIOUS
  <2> QED
    BY <2>1, ElementsOfList
<1>2. piece.kind = "field" => Len(piece.parts) \in Nat /\ Len(piece.parts) >= 1
  <2> SUFFICES ASSUME piece.kind = "field" PROVE Len(piece.parts) \in Nat /\ Len(piece.parts) >= 1
    OBVIOUS
  <2> DEFINE parts == piece.parts
  <2>1. parts \in Seq(ToSet(parts)) /\ parts # <<>>
    BY DEF PieceOK
  <2> HIDE DEF parts
  <2>2. Len(parts) \in Nat /\ Len(parts) >= 1
    BY <2>1, ListIs
  <2> QED
    BY <2>2 DEF parts
<1>3. Len(D) \in Nat /\ Len(D) >= 1
  <2> HIDE DEF D
  <2> QED
    BY <1>1, <1>2
<1> QED
  BY <1>1, <1>3

\* The URLs a template names, piece by piece.
LEMMA UrlIs ==
  ASSUME NEW rule, WellFormed(rule), Routable(rule), NEW path, RequestPath(path),
         NEW f, f = Len(FrontPath(rule))
  PROVE  UrlMatches(rule, path) <=>
           /\ rule.verb # "" => VerbOf(path) = Octets(rule.verb)
           /\ Len(path) >= f + 1 /\ FrontNamed(rule, path)
           /\ TailNamed(ElementsOf(LastPiece(rule), TRUE), rule.verb, f, path, Read(rule.verb, path))
<1> DEFINE E == FrontElems(rule)
           D == ElementsOf(LastPiece(rule), TRUE)
           e == Elements(rule)
           n == Len(e)
           d == Len(D)
           N == Len(path)
           s == Read(rule.verb, path)
           start == Len(FlattenSeq([k \in 1 .. Len(rule.pieces) - 1 |-> Shape(rule.pieces[k], FALSE)])) + 1
           Verb == rule.verb # "" => VerbOf(path) = Octets(rule.verb)
           Matched(m) == m <= Len(s) /\ \A i \in 1 .. m : SegmentIs(e[i], s[i])
           Front1 == \A i \in 1 .. f : SegmentIs(E[i], path[i])
<1>1. UrlMatches(rule, path) <=>
        /\ Verb /\ N >= start
        /\ IF e[n].is = "rest" THEN Matched(n - 1) /\ ~(N = start /\ path[start] = Empty)
           ELSE /\ Len(s) = n /\ Matched(n)
                /\ e[n].is = "one" /\ s[n] = Empty => EmptyLast /\ rule.verb = ""
  BY DEF UrlMatches, Read
<1>2. e = E \o D /\ start = f + 1
  BY ElementsAre
<1>3. PieceOK(LastPiece(rule)) /\ E \in Seq(ElsOf(rule)) /\ Len(E) = f
  BY FrontIs DEF Stands
<1>4. D \in Seq(ToSet(D)) /\ d \in Nat /\ d >= 1
  BY <1>3, LastElements
<1>5. Joined(E, D, E \o D)
  <2> DEFINE A == ElsOf(rule)
             B == ToSet(D)
             S == A \cup B
  <2>1. E \in Seq(A) /\ D \in Seq(B) /\ A \subseteq S /\ B \subseteq S
    BY <1>3, <1>4
  <2> HIDE DEF A, B, S, E, D
  <2>2. E \in Seq(S) /\ D \in Seq(S)
    BY <2>1, MoreList
  <2> QED
    BY <2>2, JoinIs
<1>6. Joined(E, D, e)
  BY <1>2, <1>5
<1>7. /\ N \in Nat /\ N >= 1 /\ Len(s) = N /\ \A i \in 1 .. N - 1 : s[i] = path[i]
  BY ReadIs DEF ReadAs
<1>8. FrontNamed(rule, path) <=> Front1
  BY DEF FrontNamed
<1>9. TailNamed(D, rule.verb, f, path, s) <=>
        IF D[d].is = "rest"
        THEN /\ f + d - 1 <= N /\ \A j \in 1 .. d - 1 : SegmentIs(D[j], s[f + j])
             /\ ~(N = f + 1 /\ path[f + 1] = Empty)
        ELSE /\ N = f + d /\ \A j \in 1 .. d : SegmentIs(D[j], s[f + j])
             /\ D[d].is = "one" /\ s[f + d] = Empty => EmptyLast /\ rule.verb = ""
  BY DEF TailNamed
<1> HIDE DEF E, D, e, s, start, Verb
<1>10. /\ n = f + d /\ f \in Nat /\ (\A i \in 1 .. f : e[i] = E[i])
       /\ \A j \in 1 .. d : e[f + j] = D[j]
  BY <1>3, <1>6 DEF Joined
<1>11. e[n] = D[d]
  BY <1>4, <1>10
<1>12. ASSUME N >= f + 1, NEW k \in Nat, k <= d
       PROVE  (\A i \in 1 .. f + k : SegmentIs(e[i], s[i])) <=>
                Front1 /\ \A j \in 1 .. k : SegmentIs(D[j], s[f + j])
  <2>1. (\A i \in 1 .. Len(E) + k : SegmentIs(e[i], s[i])) <=>
          /\ \A i \in 1 .. Len(E) : SegmentIs(E[i], s[i])
          /\ \A j \in 1 .. k : SegmentIs(D[j], s[Len(E) + j])
    BY <1>6, <1>12, SplitNamed
  <2>2. \A i \in 1 .. f : s[i] = path[i]
    BY <1>7, <1>10, <1>12
  <2> HIDE DEF d
  <2> QED
    BY <1>3, <2>1, <2>2
<1>13. n - 1 = f + (d - 1) /\ d - 1 \in Nat /\ d - 1 <= d
  BY <1>4, <1>10
<1>14. CASE ~(N >= f + 1)
  BY <1>1, <1>2, <1>14
<1>15. CASE N >= f + 1 /\ D[d].is = "rest"
  <2>1. (\A i \in 1 .. n - 1 : SegmentIs(e[i], s[i])) <=> Front1 /\ \A j \in 1 .. d - 1 : SegmentIs(D[j], s[f + j])
    BY <1>12, <1>13, <1>15
  <2>2. Matched(n - 1) <=> f + d - 1 <= N /\ Front1 /\ \A j \in 1 .. d - 1 : SegmentIs(D[j], s[f + j])
    BY <1>7, <1>10, <1>13, <2>1
  <2> HIDE DEF Front1, Matched, n, d, N
  <2> QED
    BY <1>1, <1>2, <1>8, <1>9, <1>11, <1>15, <2>2 DEF D, s, Verb, N
<1>16. CASE N >= f + 1 /\ D[d].is # "rest"
  <2>1. (\A i \in 1 .. n : SegmentIs(e[i], s[i])) <=> Front1 /\ \A j \in 1 .. d : SegmentIs(D[j], s[f + j])
    <3>1. d \in Nat /\ d <= d /\ n = f + d
      BY <1>4, <1>10
    <3>2. (\A i \in 1 .. f + d : SegmentIs(e[i], s[i])) <=> Front1 /\ \A j \in 1 .. d : SegmentIs(D[j], s[f + j])
      <4> HIDE DEF d, Front1
      <4> QED
        BY <1>12, <1>16, <3>1
    <3> HIDE DEF d, n, Front1
    <3> QED
      BY <3>1, <3>2
  <2>2. (Len(s) = n /\ Matched(n)) <=> N = f + d /\ Front1 /\ \A j \in 1 .. d : SegmentIs(D[j], s[f + j])
    BY <1>7, <1>10, <2>1
  <2>3. s[n] = s[f + d]
    BY <1>10
  <2> HIDE DEF Front1, Matched, n, d, N
  <2> QED
    BY <1>1, <1>2, <1>8, <1>9, <1>11, <1>16, <2>2, <2>3 DEF D, s, Verb, N
<1> QED
  BY <1>14, <1>15, <1>16

\* No verb is spelled as none.
LEMMA OctetsNone == \A t : Octets(t) = "" <=> t = ""
BY DEF Octets, Escaped

\* What the router and Binding::fits make of the last piece.
TailTaken(x, b, verb, f, path, s) ==
  LET N == Len(path)
      value == SubSeq(s, f + 1, N)
  IN  /\ IF x = RestSeg THEN ~(N = f + 1 /\ path[N] = Empty)
         ELSE N = f + 1 /\ (x = path[N] \/ (x = AnySeg /\ (path[N] # Empty \/ EmptyLast)))
      /\ verb # "" => b.empty_ok \/ path[N][1] # ""
      /\ b.template # <<>> => Follows(b.template, IF value = <<Empty>> THEN <<>> ELSE value)

\* The pieces before the last: the router takes the segments and the escaped
\* literals have the right octets.
LEMMA FrontTaken ==
  ASSUME NEW P, NEW E, NEW lits, Stands(P, E, lits), NEW path, RequestPath(path), Len(P) \in Nat, Len(path) >= Len(P) + 1,
         NEW s, \A i \in 1 .. Len(P) : s[i] = P[i]
  PROVE  (/\ \A i \in 1 .. Len(P) : TakesAt(s, path, i)
          /\ \A l \in lits : l[1] <= Len(path) /\ SameOctets(path[l[1]], l[2]))
         <=> \A i \in 1 .. Len(P) : SegmentIs(E[i], path[i])
<1> DEFINE f == Len(P)
           N == Len(path)
<1>0. N \in Nat
  BY ReadIs
<1>1. /\ \A l \in lits : l[1] \in 1 .. f
      /\ \A i \in 1 .. f : \A x : x # AnySeg =>
           (SegmentIs(E[i], x) <=>
              /\ x = P[i] \/ P[i] = AnySeg
              /\ \A l \in lits : l[1] = i => SameOctets(x, l[2]))
  BY DEF Stands
<1>2. \A i \in 1 .. f : i \in 1 .. N /\ i < N /\ path[i] # AnySeg
  <2>1. \A i \in 1 .. N : path[i] # AnySeg
    BY DEF RequestPath
  <2>2. \A i \in 1 .. f : i \in 1 .. N /\ i < N
    BY <1>0
  <2> QED
    BY <2>1, <2>2
<1>3. \A i \in 1 .. f : TakesAt(s, path, i) <=> (path[i] = P[i] \/ P[i] = AnySeg)
  BY <1>2 DEF TakesAt
<1>4. \A i \in 1 .. f : SegmentIs(E[i], path[i]) <=>
        TakesAt(s, path, i) /\ \A l \in lits : l[1] = i => SameOctets(path[i], l[2])
  BY <1>1, <1>2, <1>3
<1>5. \A l \in lits : l[1] \in 1 .. f /\ l[1] <= N
  <2> HIDE DEF f
  <2> QED
    BY <1>1, <1>2
<1> HIDE DEF f, N
<1>6. ASSUME \A i \in 1 .. f : TakesAt(s, path, i), \A l \in lits : SameOctets(path[l[1]], l[2])
      PROVE  \A i \in 1 .. f : SegmentIs(E[i], path[i])
  BY <1>4, <1>6
<1>7. ASSUME \A i \in 1 .. f : SegmentIs(E[i], path[i])
      PROVE  (\A i \in 1 .. f : TakesAt(s, path, i)) /\ \A l \in lits : SameOctets(path[l[1]], l[2])
  <2>1. \A i \in 1 .. f : TakesAt(s, path, i)
    BY <1>4, <1>7
  <2>2. ASSUME NEW l \in lits PROVE SameOctets(path[l[1]], l[2])
    <3> DEFINE i == l[1]
    <3>1. i \in 1 .. f
      BY <1>5
    <3>2. \A k \in lits : k[1] = i => SameOctets(path[i], k[2])
      <4> HIDE DEF i
      <4> QED
        BY <1>4, <1>7, <3>1
    <3> QED
      BY <3>2
  <2> QED
    BY <2>1, <2>2
<1> QED
  BY <1>5, <1>6, <1>7 DEF f, N

\* What a mount takes, piece by piece.
LEMMA TakenIs ==
  ASSUME NEW rule, WellFormed(rule), Routable(rule), NEW path, RequestPath(path),
         NEW f, f = Len(FrontPath(rule)), NEW b, b = Mount(rule), NEW x, Shape(LastPiece(rule), TRUE) = <<x>>
  PROVE  (PathMatches(b.path, path) /\ Admits(b, b.verb, path)) <=>
           /\ Len(path) >= f + 1 /\ FrontNamed(rule, path)
           /\ TailTaken(x, b, rule.verb, f, path, Read(rule.verb, path))
<1> DEFINE P == FrontPath(rule)
           E == FrontElems(rule)
           lits == FrontLits(rule, Len(rule.pieces) - 1)
           p == b.path
           N == Len(path)
           s == Read(rule.verb, path)
           value == SubSeq(s, f + 1, N)
           Lits == \A l \in lits : l[1] <= N /\ SameOctets(path[l[1]], l[2])
           Takes == \A i \in 1 .. f : TakesAt(p, path, i)
           At == IF x = RestSeg THEN ~(N = f + 1 /\ path[N] = Empty)
                 ELSE N = f + 1 /\ (x = path[N] \/ (x = AnySeg /\ (path[N] # Empty \/ EmptyLast)))
           Ver == rule.verb # "" => b.empty_ok \/ path[N][1] # ""
           Fol == b.template # <<>> => Follows(b.template, IF value = <<Empty>> THEN <<>> ELSE value)
<1>1. /\ b.verb = Octets(rule.verb) /\ p = P \o <<x>> /\ b.literals = lits /\ b.start = f + 1
  <2>1. b.verb = Octets(rule.verb) /\ b.path = FrontPath(rule) \o Shape(LastPiece(rule), TRUE)
        /\ b.literals = FrontLits(rule, Len(rule.pieces) - 1) /\ b.start = Len(FrontPath(rule)) + 1
    <3>1. MountedAs(rule, b)
      BY MountIs
    <3> QED
      BY <3>1 DEF MountedAs
  <2>2. b.path = FrontPath(rule) \o <<x>>
    BY <2>1, Zenon
  <2> QED
    BY <2>1, <2>2
<1>2. P \in Seq(SegsOf(rule)) /\ Stands(P, E, lits) /\ Len(P) = f
  BY FrontIs
<1>3. N \in Nat /\ N >= 1
  BY ReadIs
<1>4. b.verb = "" <=> rule.verb = ""
  BY <1>1, OctetsNone
<1>5. /\ f \in Nat /\ Len(p) = f + 1 /\ (\A i \in 1 .. f : p[i] = P[i]) /\ p[f + 1] = x
  <2> DEFINE A == SegsOf(rule)
             S == A \cup {x}
  <2>1. P \in Seq(A) /\ A \subseteq S /\ x \in S
    BY <1>2
  <2> HIDE DEF A, S, P
  <2>2. P \in Seq(S) /\ <<x>> \in Seq(S) /\ Len(<<x>>) = 1 /\ <<x>>[1] = x
    BY <2>1, MoreList
  <2>3. Joined(P, <<x>>, P \o <<x>>)
    BY <2>2, JoinIs
  <2> HIDE DEF p
  <2>4. Joined(P, <<x>>, p)
    BY <1>1, <2>3
  <2>5. f \in Nat /\ Len(p) = f + Len(<<x>>) /\ (\A i \in 1 .. f : p[i] = P[i])
        /\ \A j \in 1 .. Len(<<x>>) : p[f + j] = <<x>>[j]
    BY <1>2, <2>4 DEF Joined
  <2>6. p[f + 1] = <<x>>[1]
    BY <2>2, <2>5
  <2> QED
    BY <2>2, <2>5, <2>6
<1>6. Admits(b, b.verb, path) <=> Ver /\ Lits /\ (b.template # <<>> => f + 1 <= N) /\ Fol
  <2>1. Last(path) = path[N]
    BY DEF Last
  <2>2. (IF b.verb = "" THEN path ELSE WithoutVerb(path)) = s
    BY <1>4 DEF Read
  <2>3. Len(s) = N
    BY ReadIs DEF ReadAs
  <2>4. Fits(b, path) <=>
          LET v == SubSeq(s, b.start, Len(s))
          IN  /\ \A l \in b.literals : l[1] <= N /\ SameOctets(path[l[1]], l[2])
              /\ b.template # <<>> => b.start <= N /\ Follows(b.template, IF v = <<Empty>> THEN <<>> ELSE v)
    BY <2>2 DEF Fits
  <2>5. Fits(b, path) <=> Lits /\ (b.template # <<>> => f + 1 <= N) /\ Fol
    BY <1>1, <2>3, <2>4
  <2>6. Admits(b, b.verb, path) <=> (b.verb # "" => b.empty_ok \/ Last(path)[1] # "") /\ Fits(b, path)
    BY DEF Admits
  <2> HIDE DEF Lits, Fol
  <2> QED
    BY <1>4, <2>1, <2>5, <2>6
<1>7. PathMatches(p, path) <=> N >= f + 1 /\ Takes /\ At
  <2>1. PathMatches(p, path) <=>
           IF p[Len(p)] = RestSeg
           THEN /\ Len(path) >= Len(p) /\ \A i \in 1 .. Len(p) - 1 : TakesAt(p, path, i)
                /\ ~(Len(path) = Len(p) /\ path[Len(p)] = Empty)
           ELSE Len(path) = Len(p) /\ \A i \in 1 .. Len(p) : TakesAt(p, path, i)
    BY MatchesIs
  <2> HIDE DEF p
  <2>2. p[Len(p)] = x /\ Len(p) = f + 1 /\ Len(p) - 1 = f
    BY <1>5
  <2>3. CASE x = RestSeg
    <3>1. (N = f + 1 /\ path[f + 1] = Empty) <=> (N = f + 1 /\ path[N] = Empty)
      OBVIOUS
    <3> QED
      BY <2>1, <2>2, <2>3, <3>1
  <2>4. CASE x # RestSeg
    <3>1. (\A i \in 1 .. f + 1 : TakesAt(p, path, i)) <=> Takes /\ TakesAt(p, path, f + 1)
      <4>1. \A i : i \in 1 .. f + 1 <=> i \in 1 .. f \/ i = f + 1
        BY <1>5
      <4> QED
        BY <4>1
    <3>2. N = f + 1 => (TakesAt(p, path, f + 1) <=> (x = path[N] \/ (x = AnySeg /\ (path[N] # Empty \/ EmptyLast))))
      <4> SUFFICES ASSUME N = f + 1
                   PROVE  TakesAt(p, path, N) <=> (x = path[N] \/ (x = AnySeg /\ (path[N] # Empty \/ EmptyLast)))
        OBVIOUS
      <4>1. p[N] = x /\ ~(N < N)
        BY <1>3, <1>5
      <4> QED
        BY <4>1 DEF TakesAt
    <3>3. PathMatches(p, path) <=> N = f + 1 /\ \A i \in 1 .. f + 1 : TakesAt(p, path, i)
      BY <2>1, <2>2, <2>4
    <3>4. N = f + 1 => N >= f + 1
      BY <1>3, <1>5
    <3> HIDE DEF Takes, N
    <3> QED
      BY <2>4, <3>1, <3>2, <3>3, <3>4
  <2> QED
    BY <2>3, <2>4
<1>8. N >= f + 1 => (Takes /\ Lits <=> FrontNamed(rule, path))
  <2> SUFFICES ASSUME N >= f + 1 PROVE Takes /\ Lits <=> FrontNamed(rule, path)
    OBVIOUS
  <2>1. \A i \in 1 .. Len(P) : p[i] = P[i]
    BY <1>2, <1>5
  <2>2. Len(P) \in Nat /\ Len(path) >= Len(P) + 1
    BY <1>2, <1>5
  <2> HIDE DEF P, E, lits, p
  <2>3. (/\ \A i \in 1 .. Len(P) : TakesAt(p, path, i)
         /\ \A l \in lits : l[1] <= Len(path) /\ SameOctets(path[l[1]], l[2]))
        <=> \A i \in 1 .. Len(P) : SegmentIs(E[i], path[i])
    BY <1>2, <2>1, <2>2, FrontTaken
  <2> QED
    BY <1>2, <2>3 DEF FrontNamed, P, E
<1>9. TailTaken(x, b, rule.verb, f, path, s) <=> At /\ Ver /\ Fol
  BY DEF TailTaken
<1> HIDE DEF Takes, Lits, At, Ver, Fol
<1>10. N >= f + 1 <=> f + 1 <= N
  BY <1>3, <1>5
<1> QED
  BY <1>6, <1>7, <1>8, <1>9, <1>10

\* An empty segment is taken by no part.
LEMMA NoneTaken == \A t : t # "" => ~PartIs(t, Empty)
<1> SUFFICES ASSUME NEW t, t # "", PartIs(t, Empty) PROVE FALSE
  OBVIOUS
<1>1. t # "*" /\ SameOctets(Empty, t)
  BY DEF PartIs
<1>2. Empty[1] = "" /\ Empty[2] = ""
  BY DEF Empty
<1>3. <<Octets(Empty[1]), Empty[2]>> = <<Octets(t), "">>
  BY <1>1 DEF SameOctets
<1> DEFINE o == Octets(t)
           e == Octets("")
<1>4. <<e, "">> = <<o, "">>
  BY <1>2, <1>3
<1>5. e = "" /\ o # ""
  BY OctetsNone
<1> HIDE DEF o, e
<1>6. e = o
  BY <1>4
<1> QED
  BY <1>5, <1>6

\* No segments are a sequence of any.
LEMMA NoneIn == \A R : <<>> \in Seq(R)
OBVIOUS

\* A length that is not zero has a first position.
LEMMA SomePosition == \A n \in Nat : n >= 1 => ~(n <= 0) /\ 1 \in 1 .. n
OBVIOUS

\* There is one position in a sequence of one.
LEMMA JustOne == \A j : j \in 1 .. 1 <=> j = 1
OBVIOUS

\* A template is followed by an empty last capture only when it may be empty.
LEMMA FieldFollows ==
  ASSUME NEW S, NEW parts \in Seq(S), NEW R, NEW v \in Seq(R), v # <<>>,
         NEW fixed \in Nat, fixed >= 1, NEW open \in BOOLEAN,
         Len(parts) = IF open THEN fixed + 1 ELSE fixed,
         \A i \in 1 .. fixed : parts[i] # "**" /\ parts[i] # "", open => parts[fixed + 1] = "**"
  PROVE  Follows(parts, IF v = <<Empty>> THEN <<>> ELSE v) <=>
           /\ fixed <= Len(v) /\ (open \/ fixed = Len(v))
           /\ \A i \in 1 .. fixed : PartIs(parts[i], v[i])
<1> DEFINE Q(u) == /\ fixed <= Len(u) /\ (open \/ fixed = Len(u))
                   /\ \A i \in 1 .. fixed : PartIs(parts[i], u[i])
<1>1. \A u \in Seq(R) : Follows(parts, u) <=> Q(u)
  BY FollowsIs
<1>2. CASE v = <<Empty>>
  <2>0. <<>> \in Seq(R)
    BY NoneIn, Zenon
  <2>1. Len(<<>>) = 0
    OBVIOUS
  <2>a. ~(fixed <= 0)
    BY SomePosition, Zenon
  <2>2. ~Q(<<>>)
    BY <2>1, <2>a
  <2>3. ~Follows(parts, <<>>)
    <3> HIDE DEF Q
    <3> QED
      BY <1>1, <2>0, <2>2
  <2>b. 1 \in 1 .. fixed
    BY SomePosition, Zenon
  <2>c. <<Empty>>[1] = Empty
    OBVIOUS
  <2>d. v[1] = Empty
    BY <1>2, <2>c, Zenon
  <2>4. 1 \in 1 .. fixed /\ v[1] = Empty
    BY <2>b, <2>d
  <2>5. ~PartIs(parts[1], Empty)
    BY <2>4, NoneTaken
  <2>6. ~Q(v)
    BY <2>4, <2>5
  <2> HIDE DEF Q
  <2>7. Follows(parts, IF v = <<Empty>> THEN <<>> ELSE v) <=> Q(v)
    BY <1>2, <2>3, <2>6
  <2> QED
    BY <2>7 DEF Q
<1>3. CASE v # <<Empty>>
  <2> HIDE DEF Q
  <2>1. Follows(parts, IF v = <<Empty>> THEN <<>> ELSE v) <=> Q(v)
    BY <1>1, <1>3
  <2> QED
    BY <2>1 DEF Q
<1> QED
  BY <1>2, <1>3

\* What is left of a path from a position on.
LEMMA RestOf ==
  ASSUME NEW s, s \in Seq(ToSet(s)), NEW f \in Nat, NEW N \in Nat, N = Len(s), N >= f + 1
  PROVE  /\ SubSeq(s, f + 1, N) \in Seq(ToSet(s)) /\ Len(SubSeq(s, f + 1, N)) = N - f
         /\ \A i \in 1 .. N - f : SubSeq(s, f + 1, N)[i] = s[f + i]
         /\ SubSeq(s, f + 1, N) # <<>>
<1> DEFINE v == SubSeq(s, f + 1, N)
           a == f + 1
<1>1. a \in Int /\ N \in Int /\ a <= N
  OBVIOUS
<1>2. \A i \in a .. N : s[i] \in ToSet(s)
  BY ListIs
<1>3. /\ v \in Seq(ToSet(s)) /\ Len(v) = IF a <= N THEN N - a + 1 ELSE 0
      /\ \A i \in 1 .. N - a + 1 : v[i] = s[a + i - 1]
  BY <1>1, <1>2, SubSeqProperties
<1> HIDE DEF v
<1>4. N - a + 1 = N - f /\ \A i \in 1 .. N - f : a + i - 1 = f + i
  OBVIOUS
<1>5. Len(v) = N - f /\ \A i \in 1 .. N - f : v[i] = s[f + i]
  BY <1>1, <1>3, <1>4
<1>6. v # <<>>
  BY <1>3, <1>5
<1> QED
  BY <1>3, <1>5, <1>6 DEF v

\* The elements of a last field.
LEMMA LastField ==
  ASSUME NEW piece, piece.kind = "field", NEW j \in 1 .. Len(piece.parts), NEW p, p = piece.parts[j]
  PROVE  LET e == ElementsOf(piece, TRUE)[j]
         IN  /\ p = "**" => e.is = "rest"
             /\ p = "*" => e.is = "some"
             /\ p \notin {"*", "**"} => e.is = "octets" /\ e.seg = <<p, "">>
<1> DEFINE El(q) == CASE q = "**" -> [is |-> "rest"]
                      [] q = "*" -> [is |-> "some"]
                      [] OTHER -> [is |-> "octets", seg |-> <<q, "">>]
           E == ElementsOf(piece, TRUE)
<1>1. E = [k \in 1 .. Len(piece.parts) |-> El(piece.parts[k])]
  BY DEF ElementsOf
<1>2. /\ p = "**" => El(p).is = "rest"
      /\ p = "*" => El(p).is = "some"
      /\ p \notin {"*", "**"} => El(p).is = "octets" /\ El(p).seg = <<p, "">>
  OBVIOUS
<1> HIDE DEF El, E
<1>3. E[j] = El(p)
  BY <1>1
<1> QED
  BY <1>2, <1>3 DEF E

\* What is left to agree on of the last piece.
TailAlike(piece, verb, f, path, s, b, x) ==
  TailNamed(ElementsOf(piece, TRUE), verb, f, path, s) <=> TailTaken(x, b, verb, f, path, s)
TailOf(piece, b) ==
  /\ b.template = IF PartsOf(piece) \in {<<"*">>, <<"**">>} THEN <<>> ELSE PartsOf(piece)
  /\ b.empty_ok = (Last(PartsOf(piece)) = "**")

\* A literal: the router compares it, and no verb follows it.
LEMMA LiteralTail ==
  ASSUME NEW piece, PieceOK(piece), piece.kind = "literal", NEW path, RequestPath(path),
         NEW s, ReadAs("", path, s), NEW f \in Nat, NEW N \in Nat, N = Len(path), N >= f + 1,
         NEW b, TailOf(piece, b), NEW x, Shape(piece, TRUE) = <<x>>
  PROVE  TailAlike(piece, "", f, path, s, b, x)
<1> DEFINE D == ElementsOf(piece, TRUE)
<1>1. Len(D) = 1 /\ D[1].is = "exact" /\ D[1].seg = piece.seg
  <2>1. TRUE \in BOOLEAN
    OBVIOUS
  <2> QED
    BY <2>1, OneElement
<1>2. x = piece.seg /\ x # AnySeg /\ x # RestSeg
  <2>1. Shape(piece, TRUE) = <<piece.seg>>
    BY DEF Shape
  <2>2. <<x>>[1] = x /\ <<piece.seg>>[1] = piece.seg
    OBVIOUS
  <2>3. x = piece.seg
    BY <2>1, <2>2, Zenon
  <2>4. piece.seg # AnySeg /\ piece.seg # RestSeg
    BY DEF PieceOK
  <2> QED
    BY <2>3, <2>4
<1>3. b.template = <<>>
  BY DEF TailOf, PartsOf
<1>4. s[N] = path[N]
  BY DEF ReadAs
<1>5. \A y : SegmentIs(D[1], y) <=> y = x
  BY <1>1, <1>2, SegmentIsOf
<1> HIDE DEF D
<1>6. TailNamed(D, "", f, path, s) <=> N = f + 1 /\ path[N] = x
  <2>1. TailNamed(D, "", f, path, s) <=> N = f + 1 /\ \A j \in 1 .. 1 : SegmentIs(D[j], s[f + j])
    BY <1>1 DEF TailNamed
  <2>2. (\A j \in 1 .. 1 : SegmentIs(D[j], s[f + j])) <=> SegmentIs(D[1], s[f + 1])
    BY JustOne, Zenon
  <2> QED
    BY <1>4, <1>5, <2>1, <2>2
<1>7. TailTaken(x, b, "", f, path, s) <=> N = f + 1 /\ x = path[N]
  BY <1>2, <1>3 DEF TailTaken
<1> QED
  BY <1>6, <1>7 DEF TailAlike, D

\* A variable: not empty, unless the router has it so and no verb follows.
LEMMA VariableTail ==
  ASSUME NEW piece, piece.kind = "variable", NEW verb, NEW path, RequestPath(path),
         NEW s, ReadAs(verb, path, s), NEW f \in Nat, NEW N \in Nat, N = Len(path), N >= f + 1,
         NEW b, TailOf(piece, b), NEW x, Shape(piece, TRUE) = <<x>>
  PROVE  TailAlike(piece, verb, f, path, s, b, x)
<1> DEFINE D == ElementsOf(piece, TRUE)
<1>1. Len(D) = 1 /\ D[1].is = "one"
  <2>1. TRUE \in BOOLEAN
    OBVIOUS
  <2> QED
    BY <2>1, OneElement
<1>2. x = AnySeg /\ x # RestSeg
  <2>1. Shape(piece, TRUE) = <<AnySeg>>
    BY DEF Shape
  <2>2. <<x>>[1] = x /\ <<AnySeg>>[1] = AnySeg
    OBVIOUS
  <2>3. x = AnySeg
    BY <2>1, <2>2, Zenon
  <2> QED
    BY <2>3 DEF AnySeg, RestSeg
<1>3. b.template = <<>> /\ ~b.empty_ok
  <2>1. PartsOf(piece) = <<"*">>
    BY DEF PartsOf
  <2>2. Last(<<"*">>) = "*"
    BY DEF Last
  <2> QED
    BY <2>1, <2>2 DEF TailOf
<1>4. N >= 1 /\ path[N] # AnySeg
  BY DEF RequestPath
<1>5. /\ verb = "" => s[N] = path[N]
      /\ verb # "" => (s[N] = Empty <=> path[N][1] = "")
      /\ path[N] = Empty => s[N] = Empty
  BY DEF ReadAs
<1>6. \A y : SegmentIs(D[1], y)
  BY <1>1, SegmentIsOf
<1> HIDE DEF D
<1>7. TailNamed(D, verb, f, path, s) <=> N = f + 1 /\ (s[N] = Empty => EmptyLast /\ verb = "")
  <2>1. TailNamed(D, verb, f, path, s) <=>
          /\ N = f + 1 /\ \A j \in 1 .. 1 : SegmentIs(D[j], s[f + j])
          /\ s[f + 1] = Empty => EmptyLast /\ verb = ""
    BY <1>1 DEF TailNamed
  <2>2. (\A j \in 1 .. 1 : SegmentIs(D[j], s[f + j])) <=> SegmentIs(D[1], s[f + 1])
    BY JustOne, Zenon
  <2> QED
    BY <1>6, <2>1, <2>2
<1>8. TailTaken(x, b, verb, f, path, s) <=>
        N = f + 1 /\ (path[N] # Empty \/ EmptyLast) /\ (verb # "" => path[N][1] # "")
  BY <1>2, <1>3, <1>4 DEF TailTaken
<1> QED
  BY <1>5, <1>7, <1>8 DEF TailAlike, D

\* `**` alone: anything, but not an empty last segment.
LEMMA RestTail ==
  ASSUME NEW piece, PieceOK(piece), piece.kind = "field", piece.parts = <<"**">>, NEW verb,
         NEW path, RequestPath(path),
         NEW s, ReadAs(verb, path, s), NEW f \in Nat, NEW N \in Nat, N = Len(path), N >= f + 1,
         NEW b, TailOf(piece, b), NEW x, Shape(piece, TRUE) = <<x>>
  PROVE  TailAlike(piece, verb, f, path, s, b, x)
<1> DEFINE D == ElementsOf(piece, TRUE)
           parts == piece.parts
<1>0. Len(parts) = 1 /\ parts[1] = "**" /\ 1 \in 1 .. Len(parts) /\ Last(parts) = "**"
  BY DEF Last
<1>1. Len(D) = 1 /\ D[1].is = "rest"
  <2>1. TRUE \in BOOLEAN
    OBVIOUS
  <2>2. Len(D) = 1
    BY <1>0, <2>1, ElementsOfList
  <2>3. D[1].is = "rest"
    <3>1. parts[1] = "**" /\ 1 \in 1 .. Len(piece.parts)
      BY <1>0
    <3>2. \A j \in 1 .. Len(piece.parts) : piece.parts[j] = "**" => D[j].is = "rest"
      BY LastField
    <3> QED
      BY <3>1, <3>2, Zenon
  <2> QED
    BY <2>2, <2>3
<1>2. x = RestSeg
  <2>1. Shape(piece, TRUE) = <<RestSeg>>
    BY DEF Shape
  <2>2. <<x>>[1] = x /\ <<RestSeg>>[1] = RestSeg
    OBVIOUS
  <2> QED
    BY <2>1, <2>2, Zenon
<1>3. b.template = <<>> /\ b.empty_ok
  BY <1>0 DEF TailOf, PartsOf
<1> HIDE DEF D
<1>4. TailNamed(D, verb, f, path, s) <=> ~(N = f + 1 /\ path[f + 1] = Empty)
  <2>1. TailNamed(D, verb, f, path, s) <=>
          /\ f + 1 - 1 <= N /\ \A j \in 1 .. 1 - 1 : SegmentIs(D[j], s[f + j])
          /\ ~(N = f + 1 /\ path[f + 1] = Empty)
    BY <1>1 DEF TailNamed
  <2>2. f + 1 - 1 <= N /\ \A j \in 1 .. 1 - 1 : SegmentIs(D[j], s[f + j])
    OBVIOUS
  <2> QED
    BY <2>1, <2>2
<1>5. TailTaken(x, b, verb, f, path, s) <=> ~(N = f + 1 /\ path[N] = Empty)
  BY <1>2, <1>3 DEF TailTaken
<1> QED
  BY <1>4, <1>5 DEF TailAlike, D

\* An element of a last field is its part.
LEMMA FieldPart ==
  ASSUME NEW piece, piece.kind = "field", NEW j \in 1 .. Len(piece.parts), NEW p, p = piece.parts[j], NEW y
  PROVE  LET e == ElementsOf(piece, TRUE)[j]
         IN  /\ p = "**" => e.is = "rest"
             /\ p # "**" => e.is \in {"some", "octets"} /\ (SegmentIs(e, y) <=> PartIs(p, y))
<1> DEFINE e == ElementsOf(piece, TRUE)[j]
<1>1. /\ p = "**" => e.is = "rest"
      /\ p = "*" => e.is = "some"
      /\ p \notin {"*", "**"} => e.is = "octets" /\ e.seg = <<p, "">>
  BY LastField
<1> HIDE DEF e
<1>2. /\ e.is = "octets" => (SegmentIs(e, y) <=> SameOctets(y, e.seg[1]))
      /\ e.is = "some" => (SegmentIs(e, y) <=> y # Empty)
  BY SegmentIsOf
<1>3. <<p, "">>[1] = p
  OBVIOUS
<1>4. p \notin {"*", "**"} => e.seg[1] = p
  BY <1>1, <1>3, Zenon
<1>5. PartIs(p, y) <=> IF p = "*" THEN y # Empty ELSE SameOctets(y, p)
  BY DEF PartIs
<1> QED
  BY <1>1, <1>2, <1>4, <1>5 DEF e

\* What a last field is made of.
FieldAs(parts, d, D, x) ==
  /\ d \in Nat /\ d >= 1 /\ Len(D) = d
  /\ \A j \in 1 .. d : parts[j] # "" /\ (parts[j] = "**" => j = d)
  /\ D[d].is = "rest" <=> parts[d] = "**"
  /\ D[d].is # "one"
  /\ \A j \in 1 .. d : parts[j] # "**" => \A y : SegmentIs(D[j], y) <=> PartIs(parts[j], y)
  /\ parts[d] = "**" => d >= 2
  /\ x = IF d = 1 THEN AnySeg ELSE RestSeg

\* So it is.
LEMMA FieldIs ==
  ASSUME NEW piece, PieceOK(piece), piece.kind = "field", piece.parts # <<"**">>,
         \A j \in 1 .. Len(piece.parts) : piece.parts[j] = "**" => j = Len(piece.parts),
         NEW x, Shape(piece, TRUE) = <<x>>
  PROVE  FieldAs(piece.parts, Len(piece.parts), ElementsOf(piece, TRUE), x)
<1> DEFINE parts == piece.parts
           d == Len(parts)
           D == ElementsOf(piece, TRUE)
<1>1. parts \in Seq(ToSet(parts)) /\ parts # <<>>
  BY DEF PieceOK
<1>2. d \in Nat /\ d >= 1
  <2> HIDE DEF parts
  <2> QED
    BY <1>1, ListIs
<1>3. Len(D) = d
  <2>1. TRUE \in BOOLEAN
    OBVIOUS
  <2> QED
    BY <2>1, ElementsOfList
<1>4. \A j \in 1 .. d : parts[j] # ""
  BY DEF PieceOK
<1>5. \A j \in 1 .. d : \A y :
        /\ parts[j] = "**" => D[j].is = "rest"
        /\ parts[j] # "**" => D[j].is \in {"some", "octets"} /\ (SegmentIs(D[j], y) <=> PartIs(parts[j], y))
  BY FieldPart, ZenonT(60)
<1>6. d \in 1 .. d
  <2> HIDE DEF d
  <2> QED
    BY <1>2
<1>7. parts[d] = "**" => d >= 2
  <2> SUFFICES ASSUME parts[d] = "**", ~(d >= 2) PROVE FALSE
    OBVIOUS
  <2>1. d = 1
    <3> HIDE DEF d
    <3> QED
      BY <1>2
  <2> HIDE DEF parts
  <2>2. parts = <<"**">>
    <3>1. Len(parts) = 1 /\ parts[1] = "**"
      BY <2>1
    <3> QED
      BY <1>1, <3>1
  <2> QED
    BY <2>2 DEF parts
<1>8. x = IF d = 1 THEN AnySeg ELSE RestSeg
  <2>1. Shape(piece, TRUE) = <<IF d = 1 THEN AnySeg ELSE RestSeg>>
    BY DEF Shape
  <2>2. \A a, c : <<a>> = <<c>> => a = c
    OBVIOUS
  <2> QED
    BY <2>1, <2>2, Zenon
<1> HIDE DEF D
<1>9. /\ D[d].is = "rest" <=> parts[d] = "**"
      /\ D[d].is # "one"
  <2>1. /\ parts[d] = "**" => D[d].is = "rest"
        /\ parts[d] # "**" => D[d].is \in {"some", "octets"}
    BY <1>5, <1>6
  <2> QED
    BY <2>1
<1>10. \A j \in 1 .. d : parts[j] # "**" => \A y : SegmentIs(D[j], y) <=> PartIs(parts[j], y)
  BY <1>5
<1>11. \A j \in 1 .. d : parts[j] = "**" => j = d
  OBVIOUS
<1> HIDE DEF d, parts
<1>12. FieldAs(parts, d, D, x)
  BY <1>2, <1>3, <1>4, <1>7, <1>8, <1>9, <1>10, <1>11 DEF FieldAs
<1> QED
  BY <1>12 DEF D, d, parts

\* Arithmetic of a field that ends with `**`.
LEMMA OneLess ==
  /\ \A n \in Nat : n >= 2 => /\ n # 1 /\ n - 1 \in Nat /\ n - 1 >= 1 /\ n = n - 1 + 1
                             /\ \A j \in 1 .. n - 1 : j \in 1 .. n /\ j # n
  /\ \A a, n, g, m \in Nat : n = g + 1 => n - 1 = g /\ (a + n - 1 <= m <=> g <= m - a)
OBVIOUS

\* A field: its template is followed by what is left of the path.
LEMMA FieldTail ==
  ASSUME NEW piece, PieceOK(piece), piece.kind = "field", piece.parts # <<"**">>,
         \A j \in 1 .. Len(piece.parts) : piece.parts[j] = "**" => j = Len(piece.parts), NEW verb,
         NEW path, RequestPath(path),
         NEW s, ReadAs(verb, path, s), NEW f \in Nat, NEW N \in Nat, N = Len(path), N >= f + 1,
         NEW b, TailOf(piece, b), NEW x, Shape(piece, TRUE) = <<x>>
  PROVE  TailAlike(piece, verb, f, path, s, b, x)
<1> DEFINE parts == piece.parts
           d == Len(parts)
           D == ElementsOf(piece, TRUE)
           v == SubSeq(s, f + 1, N)
           Fol == Follows(parts, IF v = <<Empty>> THEN <<>> ELSE v)
<1>1. FieldAs(parts, d, D, x)
  BY FieldIs
<1>2. parts \in Seq(ToSet(parts)) /\ parts # <<>> /\ parts # <<"*">>
  BY DEF PieceOK
<1>3. b.template = parts /\ (b.empty_ok <=> parts[d] = "**") /\ b.template # <<>>
  <2>1. PartsOf(piece) = parts
    BY DEF PartsOf
  <2>2. b.template = parts
    BY <1>2, <2>1 DEF TailOf
  <2>3. b.empty_ok <=> parts[d] = "**"
    BY <2>1 DEF TailOf, Last
  <2> QED
    BY <1>2, <2>2, <2>3
<1>4. s \in Seq(ToSet(s)) /\ Len(s) = N
  BY DEF ReadAs
<1>5. /\ v \in Seq(ToSet(s)) /\ Len(v) = N - f
      /\ \A i \in 1 .. N - f : v[i] = s[f + i]
      /\ v # <<>>
  BY <1>4, RestOf
<1>6. /\ path[N] = Empty => s[N] = Empty
      /\ verb # "" => (s[N] = Empty <=> path[N][1] = "")
  BY DEF ReadAs
<1>7. N \in 1 .. N /\ path[N] # AnySeg
  <2>1. N \in 1 .. N
    OBVIOUS
  <2> QED
    BY <2>1 DEF RequestPath
<1>8. TailTaken(x, b, verb, f, path, s) <=>
        /\ IF x = RestSeg THEN ~(N = f + 1 /\ path[N] = Empty)
           ELSE N = f + 1 /\ (x = path[N] \/ (x = AnySeg /\ (path[N] # Empty \/ EmptyLast)))
        /\ verb # "" => b.empty_ok \/ path[N][1] # ""
        /\ Fol
  BY <1>3 DEF TailTaken
<1> HIDE DEF v, D
<1> SUFFICES TailNamed(D, verb, f, path, s) <=> TailTaken(x, b, verb, f, path, s)
  BY DEF TailAlike, D
<1>a. d \in Nat /\ d >= 1 /\ Len(D) = d /\ d \in 1 .. d
  <2>1. d \in Nat /\ d >= 1 /\ Len(D) = d
    BY <1>1 DEF FieldAs
  <2> HIDE DEF d
  <2> QED
    BY <2>1
<1>b. /\ \A j \in 1 .. d : parts[j] # "" /\ (parts[j] = "**" => j = d)
      /\ D[d].is = "rest" <=> parts[d] = "**"
      /\ D[d].is # "one"
      /\ \A j \in 1 .. d : parts[j] # "**" => \A y : SegmentIs(D[j], y) <=> PartIs(parts[j], y)
      /\ parts[d] = "**" => d >= 2
      /\ x = IF d = 1 THEN AnySeg ELSE RestSeg
  BY <1>1 DEF FieldAs
<1>c. Len(parts) = d
  OBVIOUS
<1>d. AnySeg # RestSeg
  BY DEF AnySeg, RestSeg
<1> HIDE DEF parts, d
<1>9. CASE parts[d] = "**"
  <2> DEFINE g == d - 1
  <2>1. g \in Nat /\ g >= 1 /\ d = g + 1 /\ \A j \in 1 .. g : j \in 1 .. d /\ j # d
    <3>1. d >= 2
      BY <1>9, <1>b, Zenon
    <3> QED
      BY <1>a, <3>1, OneLess, Zenon
  <2>2. \A i \in 1 .. g : parts[i] # "**" /\ parts[i] # ""
    BY <1>b, <2>1
  <2> HIDE DEF g
  <2>3. parts[g + 1] = "**" /\ Len(parts) = g + 1
    BY <1>9, <1>c, <2>1
  <2>4. Fol <=> g <= Len(v) /\ \A i \in 1 .. g : PartIs(parts[i], v[i])
    <3>1. TRUE \in BOOLEAN
      OBVIOUS
    <3>2. Fol <=> /\ g <= Len(v) /\ (TRUE \/ g = Len(v))
                  /\ \A i \in 1 .. g : PartIs(parts[i], v[i])
      BY <1>2, <1>5, <2>1, <2>2, <2>3, <3>1, FieldFollows
    <3> QED
      BY <3>2
  <2>5. TailNamed(D, verb, f, path, s) <=>
          /\ f + d - 1 <= N /\ \A j \in 1 .. d - 1 : SegmentIs(D[j], s[f + j])
          /\ ~(N = f + 1 /\ path[f + 1] = Empty)
    BY <1>9, <1>a, <1>b DEF TailNamed
  <2>6. d - 1 = g /\ (f + d - 1 <= N <=> g <= Len(v))
    <3>1. d - 1 = g /\ (f + d - 1 <= N <=> g <= N - f)
      BY <1>a, <2>1, OneLess, Zenon
    <3> QED
      BY <1>5, <3>1, Zenon
  <2>7. ASSUME g <= Len(v)
        PROVE  (\A j \in 1 .. g : SegmentIs(D[j], s[f + j])) <=> \A i \in 1 .. g : PartIs(parts[i], v[i])
    <3>1. \A j \in 1 .. g : j \in 1 .. N - f /\ j \in 1 .. d
      BY <1>5, <2>1, <2>7
    <3>2. \A j \in 1 .. g : v[j] = s[f + j]
      BY <1>5, <3>1
    <3>3. \A j \in 1 .. g : SegmentIs(D[j], s[f + j]) <=> PartIs(parts[j], s[f + j])
      BY <1>b, <2>2, <3>1
    <3> QED
      BY <3>2, <3>3, Zenon
  <2>8. x = RestSeg
    <3>1. d # 1
      <4>1. d >= 2
        BY <1>9, <1>b, Zenon
      <4> QED
        BY <1>a, <4>1, OneLess, Zenon
    <3> QED
      BY <1>b, <3>1
  <2> HIDE DEF Fol
  <2>9. TailTaken(x, b, verb, f, path, s) <=> ~(N = f + 1 /\ path[f + 1] = Empty) /\ Fol
    BY <1>3, <1>8, <1>9, <2>8
  <2> DEFINE A == \A j \in 1 .. g : SegmentIs(D[j], s[f + j])
             B == \A i \in 1 .. g : PartIs(parts[i], v[i])
  <2>10. \A j \in 1 .. d - 1 : j \in 1 .. g
    BY <2>6
  <2>11. (\A j \in 1 .. d - 1 : SegmentIs(D[j], s[f + j])) <=> A
    BY <2>6
  <2> HIDE DEF A, B
  <2> QED
    BY <2>4, <2>5, <2>6, <2>7, <2>9, <2>11 DEF A, B
<1>10. CASE parts[d] # "**"
  <2>1. \A i \in 1 .. d : parts[i] # "**" /\ parts[i] # ""
    BY <1>10, <1>b
  <2>2. Fol <=> d = Len(v) /\ \A i \in 1 .. d : PartIs(parts[i], v[i])
    <3>1. FALSE \in BOOLEAN
      OBVIOUS
    <3>2. Fol <=> /\ d <= Len(v) /\ (FALSE \/ d = Len(v))
                  /\ \A i \in 1 .. d : PartIs(parts[i], v[i])
      BY <1>2, <1>5, <1>a, <1>c, <2>1, <3>1, FieldFollows
    <3> QED
      BY <1>a, <3>2
  <2>3. TailNamed(D, verb, f, path, s) <=> N = f + d /\ \A j \in 1 .. d : SegmentIs(D[j], s[f + j])
    BY <1>10, <1>a, <1>b DEF TailNamed
  <2>4. N = f + d <=> d = Len(v)
    BY <1>5, <1>a
  <2>5. ASSUME d = Len(v)
        PROVE  (\A j \in 1 .. d : SegmentIs(D[j], s[f + j])) <=> \A i \in 1 .. d : PartIs(parts[i], v[i])
    <3>1. \A j \in 1 .. d : j \in 1 .. N - f
      BY <1>5, <1>a, <2>5
    <3>2. \A j \in 1 .. d : v[j] = s[f + j]
      BY <1>5, <3>1
    <3>3. \A j \in 1 .. d : SegmentIs(D[j], s[f + j]) <=> PartIs(parts[j], s[f + j])
      BY <1>b, <2>1
    <3> QED
      BY <3>2, <3>3, Zenon
  <2>6. TailNamed(D, verb, f, path, s) <=> Fol
    <3> HIDE DEF Fol
    <3> QED
      BY <2>2, <2>3, <2>4, <2>5
  <2>7. ASSUME Fol PROVE s[N] # Empty /\ N = f + d
    <3>1. d = Len(v) /\ N = f + d /\ PartIs(parts[d], v[d])
      BY <1>a, <2>2, <2>4, <2>7
    <3>2. v[d] = s[N]
      <4>1. d \in 1 .. N - f /\ f + d = N
        BY <1>5, <1>a, <3>1
      <4> QED
        BY <1>5, <4>1
    <3>3. ~PartIs(parts[d], Empty)
      BY <1>a, <2>1, NoneTaken
    <3> QED
      BY <3>1, <3>2, <3>3
  <2>8. ASSUME Fol PROVE TailTaken(x, b, verb, f, path, s)
    <3>1. path[N] # Empty /\ (verb # "" => path[N][1] # "")
      BY <1>6, <2>7, <2>8
    <3>2. x # RestSeg => x = AnySeg /\ N = f + 1
      <4>1. x # RestSeg => x = AnySeg /\ d = 1
        BY <1>b
      <4> QED
        BY <2>7, <2>8, <4>1
    <3> HIDE DEF Fol
    <3> QED
      BY <1>8, <2>8, <3>1, <3>2
  <2>9. TailTaken(x, b, verb, f, path, s) => Fol
    <3> HIDE DEF Fol
    <3> QED
      BY <1>8
  <2> HIDE DEF Fol
  <2> QED
    BY <2>6, <2>8, <2>9
<1> QED
  BY <1>9, <1>10

\* The last piece is mounted as one segment.
LEMMA LastShape ==
  ASSUME NEW piece, PieceOK(piece)
  PROVE  \E x : Shape(piece, TRUE) = <<x>>
<1>1. CASE piece.kind = "literal"
  BY <1>1 DEF Shape
<1>2. CASE piece.kind = "variable"
  BY <1>2 DEF Shape
<1>3. CASE piece.kind = "field"
  <2>1. Shape(piece, TRUE) = IF Len(piece.parts) = 1 /\ piece.parts # <<"**">> THEN <<AnySeg>> ELSE <<RestSeg>>
    BY <1>3 DEF Shape
  <2> QED
    BY <2>1, Zenon
<1> QED
  BY <1>1, <1>2, <1>3 DEF PieceOK

\* Whatever the last piece is.
LEMMA TailIs ==
  ASSUME NEW piece, PieceOK(piece), NEW verb, verb # "" => piece.kind # "literal",
         piece.kind = "field" => \A j \in 1 .. Len(piece.parts) : piece.parts[j] = "**" => j = Len(piece.parts),
         NEW path, RequestPath(path),
         NEW s, ReadAs(verb, path, s), NEW f \in Nat, NEW N \in Nat, N = Len(path), N >= f + 1,
         NEW b, TailOf(piece, b), NEW x, Shape(piece, TRUE) = <<x>>
  PROVE  TailAlike(piece, verb, f, path, s, b, x)
<1>1. CASE piece.kind = "literal"
  <2>1. verb = ""
    BY <1>1
  <2>2. ReadAs("", path, s)
    BY <2>1
  <2>3. TailAlike(piece, "", f, path, s, b, x)
    BY <1>1, <2>2, LiteralTail
  <2> QED
    BY <2>1, <2>3
<1>2. CASE piece.kind = "variable"
  BY <1>2, VariableTail
<1>3. CASE piece.kind = "field" /\ piece.parts = <<"**">>
  BY <1>3, RestTail
<1>4. CASE piece.kind = "field" /\ piece.parts # <<"**">>
  BY <1>4, FieldTail
<1> QED
  BY <1>1, <1>2, <1>3, <1>4 DEF PieceOK

\* The URLs a template names are those its mount takes: what the router matches
\* and Binding::fits lets through, with the template's verb.
NamedAs(rule, b, path) ==
  UrlMatches(rule, path) <=>
    /\ rule.verb # "" => VerbOf(path) = b.verb
    /\ PathMatches(b.path, path) /\ Admits(b, b.verb, path)

\* So they are.
LEMMA NamedIs ==
  ASSUME NEW rule, WellFormed(rule), Routable(rule), NEW path, RequestPath(path),
         NEW b, b = Mount(rule)
  PROVE  NamedAs(rule, b, path)
<1> DEFINE piece == LastPiece(rule)
           f == Len(FrontPath(rule))
           N == Len(path)
           s == Read(rule.verb, path)
<1>1. /\ FrontPath(rule) \in Seq(SegsOf(rule)) /\ PieceOK(piece)
      /\ rule.verb # "" => piece.kind # "literal"
      /\ piece.kind = "field" => \A j \in 1 .. Len(piece.parts) : piece.parts[j] = "**" => j = Len(piece.parts)
  BY FrontIs
<1>2. f \in Nat
  <2> DEFINE P == FrontPath(rule)
  <2>1. P \in Seq(SegsOf(rule))
    BY <1>1
  <2> HIDE DEF P
  <2>2. Len(P) \in Nat
    BY <2>1
  <2> QED
    BY <2>2 DEF P
<1>3. ReadAs(rule.verb, path, s) /\ N \in Nat
  BY ReadIs
<1>4. MountedAs(rule, b)
  BY MountIs
<1>5. TailOf(piece, b) /\ b.verb = Octets(rule.verb)
  BY <1>4 DEF TailOf, MountedAs
<1>6. PICK x : Shape(piece, TRUE) = <<x>>
  BY <1>1, LastShape
<1> DEFINE A == FrontNamed(rule, path)
           B == TailNamed(ElementsOf(piece, TRUE), rule.verb, f, path, s)
           C == TailTaken(x, b, rule.verb, f, path, s)
           V == rule.verb # "" => VerbOf(path) = b.verb
<1>7. UrlMatches(rule, path) <=> V /\ N >= f + 1 /\ A /\ B
  <2>1. UrlMatches(rule, path) <=>
           /\ rule.verb # "" => VerbOf(path) = Octets(rule.verb)
           /\ N >= f + 1 /\ A /\ B
    BY UrlIs
  <2> HIDE DEF A, B, N, f
  <2> QED
    BY <1>5, <2>1
<1>8. (PathMatches(b.path, path) /\ Admits(b, b.verb, path)) <=> N >= f + 1 /\ A /\ C
  BY <1>6, TakenIs
<1>9. N >= f + 1 => (B <=> C)
  <2> SUFFICES ASSUME N >= f + 1 PROVE TailAlike(piece, rule.verb, f, path, s, b, x)
    BY DEF TailAlike
  <2> HIDE DEF piece, f, s, N
  <2> QED
    BY <1>1, <1>2, <1>3, <1>5, <1>6, TailIs DEF N
<1> HIDE DEF A, B, C, V, N, f, s, piece
<1>10. UrlMatches(rule, path) <=> V /\ PathMatches(b.path, path) /\ Admits(b, b.verb, path)
  BY <1>7, <1>8, <1>9
<1> QED
  BY <1>10 DEF NamedAs, V

\* What a template mounts is a router path.
LEMMA MountRouter ==
  ASSUME NEW rule, WellFormed(rule), Routable(rule)
  PROVE  RouterPath(Mount(rule).path)
<1> DEFINE P == FrontPath(rule)
           A == SegsOf(rule)
           p == Mount(rule).path
<1>1. /\ P \in Seq(A) /\ PieceOK(LastPiece(rule))
      /\ Stands(P, FrontElems(rule), FrontLits(rule, Len(rule.pieces) - 1))
  BY FrontIs
<1>2. PICK x : Shape(LastPiece(rule), TRUE) = <<x>>
  BY <1>1, LastShape
<1>3. \A i \in 1 .. Len(P) : P[i] # RestSeg
  BY <1>1 DEF Stands
<1>4. p = P \o <<x>>
  <2>1. MountedAs(rule, Mount(rule))
    BY MountIs
  <2> QED
    BY <1>2, <2>1 DEF MountedAs
<1> DEFINE S == A \cup {x}
<1>5. A \subseteq S /\ x \in S
  OBVIOUS
<1> HIDE DEF A, S, P, p
<1>6. P \in Seq(S) /\ <<x>> \in Seq(S) /\ Len(<<x>>) = 1
  BY <1>1, <1>5, MoreList
<1>7. Joined(P, <<x>>, P \o <<x>>)
  BY <1>6, JoinIs
<1>8. Len(P) \in Nat /\ Len(p) = Len(P) + 1 /\ \A i \in 1 .. Len(P) : p[i] = P[i]
  BY <1>4, <1>6, <1>7 DEF Joined
<1>9. p \in Seq(S)
  BY <1>4, <1>6, ConcatProperties
<1>10. p \in Seq(ToSet(p))
  BY <1>9, OwnList
<1>11. p # <<>> /\ \A i \in 1 .. Len(p) - 1 : p[i] # RestSeg
  <2>1. Len(<<>>) = 0 /\ Len(p) # 0
    BY <1>8
  <2>2. Len(p) - 1 = Len(P)
    BY <1>8
  <2>3. p # <<>>
    BY <2>1
  <2> QED
    BY <1>3, <1>8, <2>2, <2>3
<1>12. RouterPath(p)
  BY <1>10, <1>11 DEF RouterPath
<1> QED
  BY <1>12 DEF p

-----------------------------------------------------------------------------
\* Where an answer comes from.

\* A table's answer: the first binding admitted that answers the method, one of
\* the method itself before a GET for HEAD; a 405 when none does; or none, when
\* no binding is admitted.
Owns(b, method) == b.rule.method \in {"*", method}
Best(bs, i, method, path, verb) ==
  /\ Admits(bs[i], verb, path) /\ Serves(bs[i].rule, method)
  /\ \A k \in DOMAIN bs : Admits(bs[k], verb, path) /\ Serves(bs[k].rule, method)
                            => i <= k \/ (Owns(bs[i], method) /\ ~Owns(bs[k], method))
Unserved(bs, method, path, verb) ==
  \A i \in DOMAIN bs : Admits(bs[i], verb, path) => ~Serves(bs[i].rule, method)
Unadmitted(bs, path, verb) == \A i \in DOMAIN bs : ~Admits(bs[i], verb, path)
Rpc(c, t, bs, method, path, verb) ==
  \E i \in DOMAIN bs : /\ c = [kind |-> "rpc", at |-> t, binding |-> bs[i]]
                       /\ Best(bs, i, method, path, verb)
Denied(c, t, bs, method, path, verb) ==
  /\ \E m : c = [kind |-> "405", at |-> t, allow |-> m]
  /\ ~Unadmitted(bs, path, verb) /\ Unserved(bs, method, path, verb)

\* PathTable::choose among some bindings.
LEMMA AmongIs ==
  ASSUME NEW t, NEW bs, bs \in Seq(ToSet(bs)), NEW path, NEW verb, NEW method,
         NEW adm, adm = {i \in DOMAIN bs : Admits(bs[i], verb, path)}, adm # {}
  PROVE  \/ Rpc(Among(t, bs, adm, method), t, bs, method, path, verb)
         \/ Denied(Among(t, bs, adm, method), t, bs, method, path, verb)
<1> DEFINE own == {i \in adm : bs[i].rule.method \in {"*", method}}
           head == {i \in adm : method = "HEAD" /\ bs[i].rule.method = "GET"}
           c == Among(t, bs, adm, method)
           any == IF own # {} THEN own ELSE head
           i == Min(any)
<1>1. DOMAIN bs \in SUBSET Nat
  BY ListIs
<1>2. own \in SUBSET Nat /\ head \in SUBSET Nat
  BY <1>1
<1>3. \A k \in adm : Serves(bs[k].rule, method) <=> k \in own \cup head
  BY DEF Serves
<1>4. \A k \in adm : Owns(bs[k], method) <=> k \in own
  BY DEF Owns
<1>5. CASE own \cup head # {}
  <2>1. c = [kind |-> "rpc", at |-> t, binding |-> bs[i]]
    BY <1>5 DEF Among
  <2>2. any \in SUBSET Nat /\ any # {} /\ any \subseteq own \cup head
    <3> HIDE DEF own, head
    <3> QED
      BY <1>2, <1>5
  <2>3. i \in any /\ \A y \in any : i <= y
    <3> HIDE DEF any
    <3> QED
      BY <2>2, MinIn
  <2> HIDE DEF i, c
  <2>4. i \in adm /\ i \in DOMAIN bs
    BY <2>2, <2>3
  <2>5. \A k \in adm : Serves(bs[k].rule, method) => i <= k \/ (Owns(bs[i], method) /\ ~Owns(bs[k], method))
    <3> HIDE DEF own, head
    <3>1. ASSUME NEW k \in adm, k \in own \cup head, ~(i <= k)
          PROVE  Owns(bs[i], method) /\ ~Owns(bs[k], method)
      <4>1. k \notin any
        BY <2>3, <3>1
      <4>2. own # {} /\ k \notin own
        BY <3>1, <4>1
      <4>3. i \in own
        BY <2>3, <4>2
      <4> QED
        BY <1>4, <2>4, <4>2, <4>3
    <3> QED
      BY <1>3, <3>1
  <2>6. Serves(bs[i].rule, method)
    <3>1. i \in own \cup head
      BY <2>2, <2>3
    <3> QED
      BY <1>3, <2>4, <3>1
  <2>7. Best(bs, i, method, path, verb)
    BY <2>4, <2>5, <2>6 DEF Best
  <2>8. Rpc(c, t, bs, method, path, verb)
    BY <2>1, <2>4, <2>7 DEF Rpc
  <2> QED
    BY <2>8 DEF c
<1>6. CASE own \cup head = {}
  <2>1. \E m : c = [kind |-> "405", at |-> t, allow |-> m]
    BY <1>6, Zenon DEF Among
  <2>2. Unserved(bs, method, path, verb)
    <3> HIDE DEF own, head
    <3>1. \A k \in adm : ~Serves(bs[k].rule, method)
      BY <1>3, <1>6
    <3> QED
      BY <3>1 DEF Unserved
  <2>3. ~Unadmitted(bs, path, verb)
    BY DEF Unadmitted
  <2> HIDE DEF c
  <2>4. Denied(c, t, bs, method, path, verb)
    BY <2>1, <2>2, <2>3 DEF Denied
  <2> QED
    BY <2>4 DEF c
<1> QED
  BY <1>5, <1>6

\* What a table answers.
TableSays(c, t, method, path, verb) ==
  \/ c = NotFound /\ Unadmitted(tables[t], path, verb)
  \/ Rpc(c, t, tables[t], method, path, verb)
  \/ Denied(c, t, tables[t], method, path, verb)

\* The bindings of every table are a list.
TablesList == \A t \in DOMAIN tables : tables[t] \in Seq(ToSet(tables[t]))

\* So it answers.
LEMMA TableChooseIs ==
  ASSUME TablesList, NEW t \in DOMAIN tables, NEW method, NEW path, NEW verb
  PROVE  TableSays(TableChoose(t, method, path, verb), t, method, path, verb)
<1> DEFINE bs == tables[t]
           adm == {i \in DOMAIN bs : Admits(bs[i], verb, path)}
           c == Among(t, bs, adm, method)
<1>1. TableChoose(t, method, path, verb) = IF adm = {} THEN NotFound ELSE c
  BY DEF TableChoose, Admitted
<1>2. bs \in Seq(ToSet(bs))
  BY DEF TablesList
<1>3. CASE adm = {}
  <2>1. Unadmitted(bs, path, verb)
    BY <1>3 DEF Unadmitted
  <2> QED
    BY <1>1, <1>3, <2>1 DEF TableSays
<1>4. CASE adm # {}
  <2> HIDE DEF bs
  <2>1. Rpc(c, t, bs, method, path, verb) \/ Denied(c, t, bs, method, path, verb)
    BY <1>2, <1>4, AmongIs
  <2> HIDE DEF adm, c
  <2>2. TableChoose(t, method, path, verb) = c
    BY <1>1, <1>4
  <2> QED
    BY <2>1, <2>2 DEF TableSays, bs
<1> QED
  BY <1>3, <1>4

\* The kinds of answer.
LEMMA SaysKind ==
  ASSUME NEW c, NEW t, NEW method, NEW path, NEW verb, TableSays(c, t, method, path, verb)
  PROVE  /\ c.kind \in {"none", "rpc", "405"}
         /\ c.kind = "none" => c = NotFound /\ Unadmitted(tables[t], path, verb)
         /\ c.kind = "rpc" => Rpc(c, t, tables[t], method, path, verb)
         /\ c.kind = "405" => Denied(c, t, tables[t], method, path, verb)
<1> DEFINE bs == tables[t]
<1> HIDE DEF bs
<1>0. \/ c = NotFound /\ Unadmitted(bs, path, verb)
      \/ Rpc(c, t, bs, method, path, verb)
      \/ Denied(c, t, bs, method, path, verb)
  BY DEF TableSays, bs
<1>1. c = NotFound => c.kind = "none"
  BY DEF NotFound
<1>2. Rpc(c, t, bs, method, path, verb) => c.kind = "rpc"
  BY DEF Rpc
<1>3. Denied(c, t, bs, method, path, verb) => c.kind = "405"
  BY DEF Denied
<1> QED
  BY <1>0, <1>1, <1>2, <1>3 DEF bs

\* The index SelectInSeq gives, when there is one.
LEMMA SelectedSome ==
  ASSUME NEW seq, NEW kind, NEW i \in 1 .. Len(seq), seq[i].kind = kind
  PROVE  Selected(seq, kind) # 0
<1> DEFINE I == {j \in 1 .. Len(seq) : seq[j].kind = kind}
<1>1. Selected(seq, kind) = IF I # {} THEN Min(I) ELSE 0
  BY DEF Selected, SelectInSeq
<1>2. I # {} /\ I \in SUBSET Nat /\ 0 \notin I
  OBVIOUS
<1> HIDE DEF I
<1>3. Min(I) \in I
  BY <1>2, MinIn
<1> QED
  BY <1>1, <1>2, <1>3

\* The answer settled on: one of those given; a binding when any table has one;
\* none only when none has an answer.
SettledOn(c, answers) ==
  /\ c = NotFound \/ \E i \in 1 .. Len(answers) : c = answers[i]
  /\ c.kind # "rpc" => \A i \in 1 .. Len(answers) : answers[i].kind # "rpc"
  /\ c = NotFound => \A i \in 1 .. Len(answers) : answers[i].kind \notin {"rpc", "405"}

\* So it is.
LEMMA SettleIs ==
  ASSUME NEW answers
  PROVE  SettledOn(Settle(answers), answers)
<1> DEFINE R == Selected(answers, "rpc")
           D == Selected(answers, "405")
           c == Settle(answers)
<1>1. c = IF R # 0 THEN answers[R] ELSE IF D # 0 THEN answers[D] ELSE NotFound
  BY DEF Settle, Selected
<1>2. R # 0 => R \in 1 .. Len(answers) /\ answers[R].kind = "rpc"
  BY SelectedIs
<1>3. D # 0 => D \in 1 .. Len(answers) /\ answers[D].kind = "405"
  BY SelectedIs
<1>4. R = 0 => \A i \in 1 .. Len(answers) : answers[i].kind # "rpc"
  BY SelectedSome
<1>5. D = 0 => \A i \in 1 .. Len(answers) : answers[i].kind # "405"
  BY SelectedSome
<1>6. NotFound.kind = "none"
  BY DEF NotFound
<1> HIDE DEF R, D, c
<1>7. CASE R # 0
  <2>1. c = answers[R] /\ c.kind = "rpc" /\ c # NotFound
    BY <1>1, <1>2, <1>6, <1>7
  <2> QED
    BY <1>2, <1>7, <2>1 DEF SettledOn, c
<1>8. CASE R = 0 /\ D # 0
  <2>1. c = answers[D] /\ c.kind = "405" /\ c # NotFound
    BY <1>1, <1>3, <1>6, <1>8
  <2> QED
    BY <1>3, <1>4, <1>8, <2>1 DEF SettledOn, c
<1>9. CASE R = 0 /\ D = 0
  <2>1. c = NotFound
    BY <1>1, <1>9
  <2> QED
    BY <1>4, <1>5, <1>9, <2>1 DEF SettledOn, c
<1> QED
  BY <1>7, <1>8, <1>9

\* What remains of a sequence without one of its elements.
LEMMA RemoveFirstKeeps ==
  ASSUME NEW S, NEW s \in Seq(S), NEW e, NEW j \in 1 .. Len(s), s[j] # e
  PROVE  \E k \in 1 .. Len(RemoveFirst(s, e)) : RemoveFirst(s, e)[k] = s[j]
<1>1. CASE \E i \in 1 .. Len(s) : s[i] = e
  <2> DEFINE at == SelectInSeq(s, LAMBDA v : v = e)
             I == {i \in 1 .. Len(s) : s[i] = e}
             N == Len(s)
             a == SubSeq(s, 1, at - 1)
             b == SubSeq(s, at + 1, N)
  <2>1. at = Min(I)
    BY <1>1 DEF SelectInSeq
  <2>2. I \in SUBSET Nat /\ I # {}
    BY <1>1
  <2>3. Min(I) \in I
    <3> HIDE DEF I
    <3> QED
      BY <2>2, MinIn
  <2>4. at \in 1 .. N /\ N \in Nat /\ s[at] = e
    BY <2>1, <2>3
  <2>5. RemoveFirst(s, e) = a \o b
    BY <1>1 DEF RemoveFirst, RemoveAt
  <2> HIDE DEF at
  <2>6. /\ a \in Seq(S) /\ Len(a) = at - 1 /\ \A i \in 1 .. at - 1 : a[i] = s[i]
    BY <2>4
  <2>7. /\ b \in Seq(S) /\ Len(b) = N - at /\ \A i \in 1 .. N - at : b[i] = s[at + i]
    BY <2>4
  <2> HIDE DEF a, b
  <2>8. Joined(a, b, a \o b)
    BY <2>6, <2>7, JoinIs
  <2>9. /\ Len(a \o b) = N - 1
        /\ \A i \in 1 .. at - 1 : (a \o b)[i] = s[i]
        /\ \A i \in 1 .. N - at : (a \o b)[at - 1 + i] = s[at + i]
    <3> DEFINE c == a \o b
    <3>1. Joined(a, b, c)
      BY <2>8
    <3> HIDE DEF c
    <3>2. Len(c) = N - 1
      BY <2>4, <2>6, <2>7, <3>1 DEF Joined
    <3>3. \A i \in 1 .. at - 1 : c[i] = s[i]
      BY <2>4, <2>6, <3>1 DEF Joined
    <3>4. \A i \in 1 .. N - at : c[at - 1 + i] = s[at + i]
      BY <2>4, <2>6, <2>7, <3>1 DEF Joined
    <3> QED
      BY <3>2, <3>3, <3>4 DEF c
  <2>10. j \in 1 .. N /\ j # at
    BY <2>4
  <2>11. CASE j < at
    <3>1. j \in 1 .. at - 1 /\ j \in 1 .. N - 1
      BY <2>4, <2>10, <2>11
    <3> QED
      BY <2>5, <2>9, <3>1
  <2>12. CASE at < j
    <3> DEFINE i == j - at
    <3>1. i \in 1 .. N - at /\ at - 1 + i = j - 1 /\ at + i = j /\ j - 1 \in 1 .. N - 1
      BY <2>4, <2>10, <2>12
    <3>2. (a \o b)[j - 1] = s[j]
      BY <2>9, <3>1
    <3> QED
      BY <2>5, <2>9, <3>1, <3>2
  <2> QED
    BY <2>4, <2>10, <2>11, <2>12
<1>2. CASE ~\E i \in 1 .. Len(s) : s[i] = e
  BY <1>2 DEF RemoveFirst
<1> QED
  BY <1>1, <1>2

\* The tables tried: the first, then those that rank first; all of them when
\* they all do.
TriedAs(tried, first, each, method, path) ==
  /\ Len(tried) \in Nat
  /\ \E k \in 1 .. Len(tried) : tried[k] = first
  /\ \A k \in 1 .. Len(tried) : tried[k] = first \/ RanksFirst(tried[k], method, path)
  /\ (\A j \in 1 .. Len(each) : RanksFirst(each[j], method, path))
       => \A j \in 1 .. Len(each) : \E k \in 1 .. Len(tried) : tried[k] = each[j]
AnswersOf(tried, method, path, verb) ==
  [k \in 1 .. Len(tried) |-> TableChoose(tried[k], method, path, verb)]

\* So they are.
LEMMA AnswerIs ==
  ASSUME NEW first, NEW X, NEW each \in Seq(X), NEW method, NEW path, NEW verb
  PROVE  \E tried : /\ TriedAs(tried, first, each, method, path)
                    /\ Answer(first, each, method, path, verb) = Settle(AnswersOf(tried, method, path, verb))
<1> DEFINE rest == RemoveFirst(each, first)
           L == Len(rest)
           K == {k \in 0 .. L : \A j \in 1 .. k : RanksFirst(rest[j], method, path)}
           top == Max(K)
           upto == SubSeq(rest, 1, top)
           tried == <<first>> \o upto
<1>1. Answer(first, each, method, path, verb) = Settle(AnswersOf(tried, method, path, verb))
  BY DEF Answer, AnswersOf
<1>2. rest \in Seq(X) /\ L \in Nat
  <2>1. rest \in Seq(X)
    BY RemoveFirstType
  <2> QED
    BY <2>1
<1>20. \A j \in 1 .. Len(each) : each[j] # first => \E k \in 1 .. L : rest[k] = each[j]
  BY RemoveFirstKeeps
<1>21. \A k \in 1 .. L : \E j \in 1 .. Len(each) : rest[k] = each[j]
  <2> DEFINE Y == {each[j] : j \in 1 .. Len(each)}
  <2>1. each \in Seq(Y)
    OBVIOUS
  <2> HIDE DEF Y
  <2>2. rest \in Seq(Y)
    BY <2>1, RemoveFirstType
  <2> HIDE DEF rest
  <2>3. \A k \in 1 .. L : rest[k] \in Y
    BY <2>2
  <2> QED
    BY <2>3 DEF Y
<1> HIDE DEF rest, L
<1>3. top \in K /\ \A y \in K : y <= top
  <2>1. K \in SUBSET (0 .. L) /\ 0 \in K
    BY <1>2
  <2> HIDE DEF K
  <2> QED
    BY <1>2, <2>1, MaxIn
<1> HIDE DEF top
<1>4. top \in 0 .. L /\ \A j \in 1 .. top : RanksFirst(rest[j], method, path)
  BY <1>3
<1>5. upto \in Seq(X) /\ Len(upto) = top /\ \A j \in 1 .. top : upto[j] = rest[j]
  BY <1>2, <1>4 DEF L
<1> HIDE DEF upto
<1>6. /\ Len(tried) = top + 1 /\ tried[1] = first
      /\ \A k \in 2 .. top + 1 : tried[k] = upto[k - 1]
  <2> DEFINE Y == X \cup {first}
  <2>1. upto \in Seq(Y) /\ <<first>> \in Seq(Y) /\ Len(<<first>>) = 1 /\ <<first>>[1] = first
    BY <1>5
  <2> HIDE DEF Y
  <2>2. /\ Len(<<first>> \o upto) = 1 + Len(upto)
        /\ \A k \in 1 .. 1 + Len(upto) : (<<first>> \o upto)[k] = IF k <= 1 THEN <<first>>[k] ELSE upto[k - 1]
    BY <2>1
  <2> QED
    BY <1>4, <1>5, <2>1, <2>2
<1> HIDE DEF tried
<1>7. Len(tried) \in Nat /\ \E k \in 1 .. Len(tried) : tried[k] = first
  BY <1>4, <1>6
<1>8. ASSUME NEW k \in 1 .. Len(tried) PROVE tried[k] = first \/ RanksFirst(tried[k], method, path)
  <2>1. CASE k = 1
    BY <1>6, <2>1
  <2>2. CASE k # 1
    <3>1. k \in 2 .. top + 1 /\ k - 1 \in 1 .. top
      BY <1>4, <1>6, <2>2
    <3> QED
      BY <1>4, <1>5, <1>6, <3>1
  <2> QED
    BY <2>1, <2>2
<1>9. ASSUME \A j \in 1 .. Len(each) : RanksFirst(each[j], method, path), NEW j \in 1 .. Len(each)
      PROVE  \E k \in 1 .. Len(tried) : tried[k] = each[j]
  <2>1. CASE each[j] = first
    BY <1>7, <2>1
  <2>2. CASE each[j] # first
    <3>1. \A k \in 1 .. L : RanksFirst(rest[k], method, path)
      BY <1>9, <1>21
    <3>2. L \in K
      BY <1>2, <3>1
    <3>3. top = L
      BY <1>2, <1>3, <1>4, <3>2
    <3>4. PICK k \in 1 .. L : rest[k] = each[j]
      BY <1>20, <2>2
    <3>5. k + 1 \in 2 .. top + 1 /\ k + 1 - 1 = k /\ k + 1 \in 1 .. Len(tried) /\ k \in 1 .. top
      BY <1>2, <1>6, <3>3, <3>4
    <3>6. tried[k + 1] = each[j]
      BY <1>5, <1>6, <3>4, <3>5
    <3> QED
      BY <3>5, <3>6
  <2> QED
    BY <2>1, <2>2
<1>10. TriedAs(tried, first, each, method, path)
  BY <1>7, <1>8, <1>9 DEF TriedAs
<1> QED
  BY <1>1, <1>10

\* The tables that rank before the other routes a request reaches.
Ahead(method, path) == {t \in DOMAIN tables : RanksFirst(t, method, path)}

\* A table that ranks first is one, and the request's path matches it.
LEMMA AheadIs ==
  ASSUME NEW t, NEW method, NEW path, RanksFirst(t, method, path)
  PROVE  /\ t \in Ahead(method, path)
         /\ \E k \in 1 .. Len(Each(AllPaths, path)) : Each(AllPaths, path)[k] = t
<1> DEFINE each == Each(AllPaths, path)
<1>1. \E k \in 1 .. Len(each) : /\ each[k] = t
                                /\ \A j \in 1 .. k : each[j] \in DOMAIN tables /\ ~Theirs(each[j], method)
  BY DEF RanksFirst
<1> HIDE DEF each
<1>2. t \in DOMAIN tables
  BY <1>1
<1> QED
  BY <1>1, <1>2 DEF Ahead, each

\* The answer is a binding or a 405 of a table of S, or there is none.
Given(c, S, method, path, verb) ==
  \/ c = NotFound
  \/ \E t \in S : Rpc(c, t, tables[t], method, path, verb) \/ Denied(c, t, tables[t], method, path, verb)

\* No table of S has a better one.
Whole(c, S, method, path, verb) ==
  /\ c.kind # "rpc" => \A t \in S : Unserved(tables[t], method, path, verb)
  /\ c = NotFound => \A t \in S : Unadmitted(tables[t], path, verb)

\* An answer of some tables is one of more.
LEMMA GivenMore ==
  ASSUME NEW c, NEW S, NEW T, S \subseteq T, NEW method, NEW path, NEW verb, Given(c, S, method, path, verb)
  PROVE  Given(c, T, method, path, verb)
BY DEF Given

\* Beyond the first table only those that rank first are tried, and the best of
\* their answers is given.
LEMMA AnswerGiven ==
  ASSUME TablesList, NEW first \in DOMAIN tables, NEW X, NEW each \in Seq(X), NEW method, NEW path, NEW verb
  PROVE  LET c == Answer(first, each, method, path, verb)
         IN  /\ Given(c, {first} \cup Ahead(method, path), method, path, verb)
             /\ (\A j \in 1 .. Len(each) : RanksFirst(each[j], method, path))
                  => Whole(c, {each[j] : j \in 1 .. Len(each)}, method, path, verb)
<1> DEFINE c == Answer(first, each, method, path, verb)
           S == {first} \cup Ahead(method, path)
           All == {each[j] : j \in 1 .. Len(each)}
<1>1. PICK tried : TriedAs(tried, first, each, method, path) /\ c = Settle(AnswersOf(tried, method, path, verb))
  BY AnswerIs
<1> DEFINE answers == AnswersOf(tried, method, path, verb)
<1>2. /\ Len(tried) \in Nat
      /\ \A k \in 1 .. Len(tried) : tried[k] = first \/ RanksFirst(tried[k], method, path)
  BY <1>1 DEF TriedAs
<1>3. \A k \in 1 .. Len(tried) : tried[k] \in S /\ tried[k] \in DOMAIN tables
  <2>1. \A t : RanksFirst(t, method, path) => t \in Ahead(method, path)
    BY AheadIs
  <2>2. Ahead(method, path) \subseteq DOMAIN tables
    BY DEF Ahead
  <2> QED
    BY <1>2, <2>1, <2>2
<1>4. Len(answers) = Len(tried) /\ \A k \in 1 .. Len(tried) : answers[k] = TableChoose(tried[k], method, path, verb)
  BY <1>2 DEF AnswersOf
<1>5. SettledOn(c, answers)
  BY <1>1, SettleIs
<1> HIDE DEF answers, c
<1>6. \A k \in 1 .. Len(tried) : TableSays(answers[k], tried[k], method, path, verb)
  BY <1>3, <1>4, TableChooseIs
<1>7. Given(c, S, method, path, verb)
  <2> SUFFICES ASSUME c # NotFound PROVE Given(c, S, method, path, verb)
    BY DEF Given
  <2>1. PICK k \in 1 .. Len(tried) : c = answers[k]
    BY <1>4, <1>5 DEF SettledOn
  <2> DEFINE t == tried[k]
  <2>2. TableSays(c, t, method, path, verb) /\ t \in S
    BY <1>3, <1>6, <2>1
  <2> HIDE DEF t, S
  <2> QED
    BY <2>2 DEF TableSays, Given
<1>8. ASSUME \A j \in 1 .. Len(each) : RanksFirst(each[j], method, path)
      PROVE  Whole(c, All, method, path, verb)
  <2>1. \A t \in All : \E k \in 1 .. Len(tried) : tried[k] = t
    BY <1>1, <1>8 DEF TriedAs
  <2> HIDE DEF All
  <2>2. ASSUME c.kind # "rpc", NEW t \in All PROVE Unserved(tables[t], method, path, verb)
    <3>1. PICK k \in 1 .. Len(tried) : tried[k] = t
      BY <2>1
    <3>2. answers[k].kind # "rpc" /\ TableSays(answers[k], t, method, path, verb)
      BY <1>4, <1>5, <1>6, <2>2, <3>1 DEF SettledOn
    <3>3. Unadmitted(tables[t], path, verb) \/ Denied(answers[k], t, tables[t], method, path, verb)
      BY <3>2, SaysKind
    <3>4. Unadmitted(tables[t], path, verb) => Unserved(tables[t], method, path, verb)
      BY DEF Unadmitted, Unserved
    <3> QED
      BY <3>3, <3>4 DEF Denied
  <2>3. ASSUME c = NotFound, NEW t \in All PROVE Unadmitted(tables[t], path, verb)
    <3>1. PICK k \in 1 .. Len(tried) : tried[k] = t
      BY <2>1
    <3>2. answers[k].kind \notin {"rpc", "405"} /\ TableSays(answers[k], t, method, path, verb)
      BY <1>4, <1>5, <1>6, <2>3, <3>1 DEF SettledOn
    <3> QED
      BY <3>2, SaysKind
  <2> QED
    BY <2>2, <2>3 DEF Whole
<1> HIDE DEF S, All
<1> QED
  BY <1>7, <1>8 DEF S, All, c

\* Router paths for the tables and the other routes, a list of bindings in each.
PathsOK ==
  /\ \A s \in DOMAIN tables : RouterPath(s)
  /\ \A o \in others : RouterPath(o.path)
  /\ TablesList

\* Routed to a table, that table or one that ranks first answers.
LEMMA FromTableGiven ==
  ASSUME TablesList, NEW s, NEW X \in SUBSET DOMAIN tables, NEW each \in Seq(X), NEW method, NEW path, NEW verb
  PROVE  Given(FromTable(s, each, method, path, verb), {s} \cup Ahead(method, path), method, path, verb)
<1> DEFINE S == {s} \cup Ahead(method, path)
           c == Answer(Head(each), each, method, path, verb)
<1>2. Given(NotFound, S, method, path, verb)
  BY DEF Given
<1>3. CASE each # <<>> /\ (Head(each) = s \/ RanksFirst(Head(each), method, path))
  <2>0. Head(each) \in DOMAIN tables
    BY <1>3
  <2>1. FromTable(s, each, method, path, verb) = c
    BY <1>3 DEF FromTable
  <2>2. {Head(each)} \cup Ahead(method, path) \subseteq S
    BY <1>3, AheadIs
  <2>3. Given(c, {Head(each)} \cup Ahead(method, path), method, path, verb)
    BY <2>0, AnswerGiven
  <2> HIDE DEF c, S
  <2> QED
    BY <2>1, <2>2, <2>3, GivenMore DEF S
<1>4. CASE ~(each # <<>> /\ (Head(each) = s \/ RanksFirst(Head(each), method, path)))
  <2>1. FromTable(s, each, method, path, verb) = NotFound
    BY <1>4 DEF FromTable
  <2> QED
    BY <1>2, <2>1
<1> QED
  BY <1>3, <1>4

\* The tables with a verb that a path matches, in rank order.
LEMMA HoldingEach ==
  ASSUME PathsOK, NEW path, RequestPath(path), NEW v
  PROVE  /\ InRank(Each(Holding(v), path), Matching(Holding(v), path))
         /\ Each(Holding(v), path) \in Seq(Matching(Holding(v), path))
         /\ Matching(Holding(v), path) \in SUBSET DOMAIN tables
<1>1. \A t \in Holding(v) : RouterPath(t)
  BY DEF Holding, PathsOK
<1>2. InRank(Each(Holding(v), path), Matching(Holding(v), path))
  BY <1>1, EachInRank
<1>3. Matching(Holding(v), path) \in SUBSET DOMAIN tables
  BY DEF Matching, Holding
<1> QED
  BY <1>2, <1>3 DEF InRank

\* The answer is one for the request's verb, or for none.
Verbs(path) == {"", VerbOf(path)}

\* choose_ranked, in its three tries.
One(s, method, path) == IF Last(s) \notin {AnySeg, RestSeg} THEN TableChoose(s, method, path, "") ELSE NotFound
Two(s, method, path) ==
  IF VerbOf(path) # "" THEN FromTable(s, Each(Holding(VerbOf(path)), path), method, path, VerbOf(path)) ELSE NotFound
Three(s, method, path) ==
  IF s \in Holding("") THEN Answer(s, Each(Holding(""), path), method, path, "")
  ELSE FromTable(s, Each(Holding(""), path), method, path, "")
ChosenFrom(c, S, method, path) == \E v \in Verbs(path) : Given(c, S, method, path, v)

\* Each gives an answer of its verb.
LEMMA TriesGiven ==
  ASSUME PathsOK, NEW s \in DOMAIN tables, NEW method, NEW path, RequestPath(path),
         NEW S, S = {s} \cup Ahead(method, path)
  PROVE  /\ Given(One(s, method, path), S, method, path, "")
         /\ Given(Two(s, method, path), S, method, path, VerbOf(path))
         /\ Given(Three(s, method, path), S, method, path, "")
<1> DEFINE verb == VerbOf(path)
<1>0. TablesList
  BY DEF PathsOK
<1>1. \A v : /\ Each(Holding(v), path) \in Seq(Matching(Holding(v), path))
             /\ Matching(Holding(v), path) \in SUBSET DOMAIN tables
  BY HoldingEach
<1>2. \A v : Given(NotFound, S, method, path, v)
  BY DEF Given
<1>3. Given(One(s, method, path), S, method, path, "")
  <2> DEFINE c == TableChoose(s, method, path, "")
  <2>1. TableSays(c, s, method, path, "")
    BY <1>0, TableChooseIs
  <2>2. s \in S
    OBVIOUS
  <2> HIDE DEF c
  <2>3. Given(c, S, method, path, "")
    BY <2>1, <2>2 DEF TableSays, Given
  <2> QED
    BY <1>2, <2>3 DEF One, c
<1> HIDE DEF verb
<1>4. \A v : Given(FromTable(s, Each(Holding(v), path), method, path, v), S, method, path, v)
  <2> SUFFICES ASSUME NEW v PROVE Given(FromTable(s, Each(Holding(v), path), method, path, v), S, method, path, v)
    OBVIOUS
  <2> DEFINE X == Matching(Holding(v), path)
             each == Each(Holding(v), path)
  <2>1. X \in SUBSET DOMAIN tables /\ each \in Seq(X)
    BY <1>1
  <2> HIDE DEF X, each
  <2>2. Given(FromTable(s, each, method, path, v), {s} \cup Ahead(method, path), method, path, v)
    BY <1>0, <2>1, FromTableGiven
  <2> QED
    BY <2>2 DEF each
<1>5. Given(Two(s, method, path), S, method, path, verb)
  BY <1>2, <1>4 DEF Two, verb
<1>6. Given(Three(s, method, path), S, method, path, "")
  <2> DEFINE each == Each(Holding(""), path)
             c == Answer(s, each, method, path, "")
  <2>1. each \in Seq(Matching(Holding(""), path))
    BY <1>1
  <2> HIDE DEF each
  <2>2. Given(c, {s} \cup Ahead(method, path), method, path, "")
    BY <1>0, <2>1, AnswerGiven
  <2> HIDE DEF c
  <2> QED
    BY <1>4, <2>2 DEF Three, each, c
<1> QED
  BY <1>3, <1>5, <1>6 DEF verb

\* choose_ranked gives one of the three.
LEMMA ChooseRankedIs ==
  ASSUME NEW s, NEW method, NEW path
  PROVE  ChooseRanked(s, method, path) =
           OrElse(One(s, method, path), OrElse(Two(s, method, path), Three(s, method, path)))
BY DEF ChooseRanked, One, Two, Three

\* choose_ranked too gives an answer of such a table.
LEMMA ChooseRankedGiven ==
  ASSUME PathsOK, NEW s \in DOMAIN tables, NEW method, NEW path, RequestPath(path)
  PROVE  ChosenFrom(ChooseRanked(s, method, path), {s} \cup Ahead(method, path), method, path)
<1> DEFINE S == {s} \cup Ahead(method, path)
           a == One(s, method, path)
           b == Two(s, method, path)
           c == Three(s, method, path)
<1>1. Given(a, S, method, path, "") /\ Given(b, S, method, path, VerbOf(path)) /\ Given(c, S, method, path, "")
  BY TriesGiven
<1>2. ChooseRanked(s, method, path) = OrElse(a, OrElse(b, c))
  BY ChooseRankedIs
<1> HIDE DEF S, a, b, c
<1>3. ChooseRanked(s, method, path) \in {a, b, c}
  BY <1>2 DEF OrElse
<1> QED
  BY <1>1, <1>3 DEF ChosenFrom, Verbs, S

\* The methods a 405 lists are all that choose adds.
LEMMA ChooseIs ==
  ASSUME PathsOK, NEW s \in DOMAIN tables, NEW method, NEW path, RequestPath(path),
         NEW c, c = ChooseRanked(s, method, path), NEW d, d = Choose(s, method, path)
  PROVE  /\ ChosenFrom(d, {s} \cup Ahead(method, path), method, path)
         /\ d.kind = c.kind /\ (c.kind # "405" => d = c)
<1> DEFINE S == {s} \cup Ahead(method, path)
           shared == Shared(c.at)
           e == [c EXCEPT !.allow = @ \cup shared \cup (IF "GET" \in shared THEN {"HEAD"} ELSE {})]
<1>0. d = IF c.kind = "405" THEN e ELSE c
  BY DEF Choose
<1>1. ChosenFrom(c, S, method, path)
  BY ChooseRankedGiven
<1> HIDE DEF S, shared
<1>2. CASE c.kind = "405"
  <2>1. PICK v \in Verbs(path) : Given(c, S, method, path, v)
    BY <1>1 DEF ChosenFrom
  <2>2. c # NotFound
    BY <1>2 DEF NotFound
  <2>3. PICK t \in S : \/ Rpc(c, t, tables[t], method, path, v)
                       \/ Denied(c, t, tables[t], method, path, v)
    BY <2>1, <2>2 DEF Given
  <2> DEFINE bs == tables[t]
  <2> HIDE DEF bs
  <2>4. ~Rpc(c, t, bs, method, path, v)
    BY <1>2 DEF Rpc
  <2>5. Denied(c, t, bs, method, path, v)
    BY <2>3, <2>4 DEF bs
  <2>6. PICK m : c = [kind |-> "405", at |-> t, allow |-> m]
    BY <2>5 DEF Denied
  <2> DEFINE n == m \cup shared \cup (IF "GET" \in shared THEN {"HEAD"} ELSE {})
  <2>7. e = [c EXCEPT !.allow = n]
    BY <2>6
  <2> HIDE DEF n, e
  <2>8. e = [kind |-> "405", at |-> t, allow |-> n]
    BY <2>6, <2>7
  <2>9. Denied(e, t, bs, method, path, v) /\ e.kind = "405"
    BY <2>5, <2>8 DEF Denied
  <2>10. Given(e, S, method, path, v)
    BY <2>9 DEF Given, bs
  <2>11. d = e
    BY <1>0, <1>2
  <2> QED
    BY <1>2, <2>9, <2>10, <2>11 DEF ChosenFrom, S
<1>3. CASE c.kind # "405"
  <2>1. d = c
    BY <1>0, <1>3
  <2> QED
    BY <1>1, <2>1 DEF S
<1> QED
  BY <1>2, <1>3

-----------------------------------------------------------------------------
\* The two ways to an answer.

\* No other route of the proxy answers every method at a table's path, which
\* the startup check refuses.
NoneForAll == \A o \in others : o.path \in DOMAIN tables => o.method # "*"

\* Every path of the proxy is a router path.
LEMMA AllPathsOK ==
  ASSUME PathsOK
  PROVE  (\A s \in AllPaths : RouterPath(s)) /\ {o.path : o \in others} \in SUBSET AllPaths
BY DEF PathsOK, AllPaths

\* The other routes alone answer a request their route is picked for.
LEMMA ElsewherePick ==
  ASSUME PathsOK, NEW path, NEW method, NEW x \in Matching(AllPaths, path),
         \A t \in Matching(AllPaths, path) : t = x \/ Before(x, t), x \in {o.path : o \in others}
  PROVE  Elsewhere(method, path) = OtherAt(x, method)
<1> DEFINE P == {o.path : o \in others}
<1>1. (\A s \in AllPaths : RouterPath(s)) /\ P \in SUBSET AllPaths
  BY AllPathsOK
<1>2. Elsewhere(method, path) = IF Matching(P, path) = {} THEN NotFound ELSE OtherAt(Pick(P, path), method)
  BY DEF Elsewhere
<1>3. x \in P
  OBVIOUS
<1> HIDE DEF P
<1>4. Matching(P, path) # {} /\ Pick(P, path) = x
  BY <1>1, <1>3, PickAmongFewer
<1> QED
  BY <1>2, <1>4

\* Nothing matches, nothing answers elsewhere.
LEMMA ElsewhereNone ==
  ASSUME NEW path, NEW method, Matching(AllPaths, path) = {}
  PROVE  Elsewhere(method, path) = NotFound
<1> DEFINE P == {o.path : o \in others}
<1>1. Matching(P, path) \subseteq Matching(AllPaths, path)
  BY DEF Matching, AllPaths
<1>2. Elsewhere(method, path) = IF Matching(P, path) = {} THEN NotFound ELSE OtherAt(Pick(P, path), method)
  BY DEF Elsewhere
<1> HIDE DEF P
<1> QED
  BY <1>1, <1>2

\* What the other routes answer.
LEMMA OtherAtIs ==
  ASSUME NEW s, NEW method
  PROVE  /\ OtherAt(s, method).kind \in {"other", "denied"} /\ OtherAt(s, method) # NotFound
         /\ OtherAt(s, method).kind = "other" <=>
              \/ method \in Shared(s) \/ "*" \in Shared(s)
              \/ method = "HEAD" /\ "GET" \in Shared(s)
<1> DEFINE at == Shared(s)
           handler == CASE method \in at -> method
                        [] method \notin at /\ method = "HEAD" /\ "GET" \in at -> "GET"
                        [] OTHER -> "*"
<1>1. OtherAt(s, method) = IF handler \in at THEN [kind |-> "other", at |-> s, handler |-> handler]
                           ELSE [kind |-> "denied", at |-> s]
  BY DEF OtherAt
<1> HIDE DEF at
<1>2. handler \in at => method \in at \/ "*" \in at \/ (method = "HEAD" /\ "GET" \in at)
  OBVIOUS
<1>3. method \in at => handler = method
  OBVIOUS
<1>4. method \notin at /\ method = "HEAD" /\ "GET" \in at => handler = "GET"
  OBVIOUS
<1>5. method \notin at /\ ~(method = "HEAD" /\ "GET" \in at) => handler = "*"
  OBVIOUS
<1>6. handler \in at <=> method \in at \/ "*" \in at \/ (method = "HEAD" /\ "GET" \in at)
  <2> HIDE DEF handler
  <2> QED
    BY <1>2, <1>3, <1>4, <1>5
<1> HIDE DEF handler
<1>7. CASE handler \in at
  <2>1. OtherAt(s, method) = [kind |-> "other", at |-> s, handler |-> handler]
    BY <1>1, <1>7
  <2> QED
    BY <1>6, <1>7, <2>1 DEF NotFound, at
<1>8. CASE handler \notin at
  <2>1. OtherAt(s, method) = [kind |-> "denied", at |-> s]
    BY <1>1, <1>8
  <2> QED
    BY <1>6, <1>8, <2>1 DEF NotFound, at
<1> QED
  BY <1>7, <1>8

\* The ranking of the proxy and the router come to the same answer.
LEMMA Alike ==
  ASSUME PathsOK, NoneForAll, NEW path, RequestPath(path), NEW method
  PROVE  DirectAnswer(method, path) = RoutedAnswer(method, path)
<1> DEFINE M == Matching(AllPaths, path)
           each == Each(AllPaths, path)
           s == Pick(AllPaths, path)
           chosen == Choose(s, method, path)
           other == OtherAt(s, method)
           own == method = "HEAD" /\ BindsHead(s) /\ "HEAD" \notin Shared(s)
           elsewhere == Elsewhere(method, path)
<1>1. \A p \in AllPaths : RouterPath(p)
  BY AllPathsOK
<1>2. /\ M = {} => each = <<>>
      /\ M # {} => each # <<>> /\ Head(each) = s /\ s \in M /\ \A t \in M : t = s \/ Before(s, t)
  BY <1>1, PickIsFirst
<1>3. CASE M = {}
  <2>1. DirectAnswer(method, path) = OrElse(NotFound, elsewhere)
    BY <1>2, <1>3 DEF DirectAnswer
  <2>2. elsewhere = NotFound
    BY <1>3, ElsewhereNone
  <2>3. RoutedAnswer(method, path) = NotFound
    BY <1>3 DEF RoutedAnswer
  <2> QED
    BY <2>1, <2>2, <2>3 DEF OrElse
<1>4. CASE M # {}
  <2>1. s \in M /\ s \in AllPaths /\ each # <<>> /\ Head(each) = s
    BY <1>2, <1>4 DEF Matching
  <2>2. DirectAnswer(method, path) =
          OrElse(IF s \in DOMAIN tables /\ ~Theirs(s, method) THEN chosen ELSE NotFound, elsewhere)
    BY <2>1 DEF DirectAnswer
  <2>3. RoutedAnswer(method, path) =
          IF s \in DOMAIN tables
          THEN IF chosen = NotFound THEN elsewhere
               ELSE IF other.kind = "other" /\ ~own THEN other ELSE chosen
          ELSE other
    BY <1>4 DEF RoutedAnswer
  <2>4. s \in {o.path : o \in others} => elsewhere = other
    BY <1>2, <1>4, <2>1, ElsewherePick
  <2>5. /\ other.kind \in {"other", "denied"} /\ other # NotFound
        /\ other.kind = "other" <=>
              \/ method \in Shared(s) \/ "*" \in Shared(s)
              \/ method = "HEAD" /\ "GET" \in Shared(s)
    BY OtherAtIs
  <2>6. Theirs(s, method) <=> (method \in Shared(s) \/ (method = "HEAD" /\ ~BindsHead(s) /\ "GET" \in Shared(s)))
    BY DEF Theirs
  <2>7. Shared(s) # {} => s \in {o.path : o \in others}
    BY DEF Shared
  <2>8. s \in DOMAIN tables => "*" \notin Shared(s)
    BY DEF Shared, NoneForAll
  <2>9. s \notin DOMAIN tables => s \in {o.path : o \in others}
    BY <2>1 DEF AllPaths
  <2>10. own <=> (method = "HEAD" /\ BindsHead(s) /\ "HEAD" \notin Shared(s))
    OBVIOUS
  <2> HIDE DEF M, each, s, chosen, other, own, elsewhere
  <2>11. CASE s \notin DOMAIN tables
    BY <2>2, <2>3, <2>4, <2>9, <2>11 DEF OrElse
  <2>12. CASE s \in DOMAIN tables /\ Theirs(s, method)
    <3>1. elsewhere = other
      BY <2>4, <2>6, <2>7, <2>12
    <3>2. other.kind = "other" /\ ~own
      BY <2>5, <2>6, <2>10, <2>12
    <3> QED
      BY <2>2, <2>3, <2>12, <3>1, <3>2 DEF OrElse
  <2>13. CASE s \in DOMAIN tables /\ ~Theirs(s, method)
    <3>1. ~(other.kind = "other" /\ ~own)
      BY <2>5, <2>6, <2>8, <2>10, <2>13
    <3> QED
      BY <2>2, <2>3, <2>13, <3>1 DEF OrElse
  <2> QED
    BY <2>11, <2>12, <2>13
<1> QED
  BY <1>3, <1>4

\* A binding or a 405 comes from the table the request reaches first, or from
\* one that ranks before every other route the request reaches.
DirectFrom(d, s, method, path) ==
  /\ s \in DOMAIN tables /\ ~Theirs(s, method) /\ d = Choose(s, method, path)
  /\ d.at \in {s} \cup Ahead(method, path)
  /\ \E v \in Verbs(path) : \/ Rpc(d, d.at, tables[d.at], method, path, v)
                            \/ Denied(d, d.at, tables[d.at], method, path, v)

\* So it does.
LEMMA DirectGiven ==
  ASSUME PathsOK, NEW path, RequestPath(path), NEW method,
         NEW d, d = DirectAnswer(method, path), d.kind \in {"rpc", "405"}
  PROVE  Matching(AllPaths, path) # {} /\ DirectFrom(d, Pick(AllPaths, path), method, path)
<1> DEFINE M == Matching(AllPaths, path)
           each == Each(AllPaths, path)
           s == Pick(AllPaths, path)
           chosen == Choose(s, method, path)
           elsewhere == Elsewhere(method, path)
<1>1. \A q \in AllPaths : RouterPath(q)
  BY AllPathsOK
<1>2. /\ M = {} => each = <<>>
      /\ M # {} => each # <<>> /\ Head(each) = s
  BY <1>1, PickIsFirst
<1>3. elsewhere.kind \notin {"rpc", "405"}
  <2>1. elsewhere = NotFound \/ \E x : elsewhere = OtherAt(x, method)
    BY DEF Elsewhere
  <2>2. \A x : OtherAt(x, method).kind \notin {"rpc", "405"}
    BY OtherAtIs
  <2> HIDE DEF elsewhere
  <2> QED
    BY <2>1, <2>2 DEF NotFound
<1>4. M = {} => d = OrElse(NotFound, elsewhere)
  BY <1>2 DEF DirectAnswer
<1>5. M # {} => d = OrElse(IF s \in DOMAIN tables /\ ~Theirs(s, method) THEN chosen ELSE NotFound, elsewhere)
  BY <1>2 DEF DirectAnswer
<1> HIDE DEF M, s, chosen, elsewhere
<1>6. M # {} /\ s \in DOMAIN tables /\ ~Theirs(s, method) /\ d = chosen
  BY <1>3, <1>4, <1>5 DEF OrElse
<1>7. d = Choose(s, method, path)
  BY <1>6 DEF chosen
<1>8. ChosenFrom(d, {s} \cup Ahead(method, path), method, path)
  BY <1>6, <1>7, ChooseIs
<1>9. d # NotFound
  BY DEF NotFound
<1>10. PICK v \in Verbs(path) : \E t \in {s} \cup Ahead(method, path) :
         Rpc(d, t, tables[t], method, path, v) \/ Denied(d, t, tables[t], method, path, v)
  BY <1>8, <1>9 DEF ChosenFrom, Given
<1>11. PICK t \in {s} \cup Ahead(method, path) :
         Rpc(d, t, tables[t], method, path, v) \/ Denied(d, t, tables[t], method, path, v)
  BY <1>10
<1> DEFINE bs == tables[t]
<1> HIDE DEF bs
<1>12. Rpc(d, t, bs, method, path, v) \/ Denied(d, t, bs, method, path, v)
  BY <1>11 DEF bs
<1>13. d.at = t
  BY <1>12 DEF Rpc, Denied
<1>14. DirectFrom(d, s, method, path)
  BY <1>6, <1>7, <1>10, <1>11, <1>13 DEF DirectFrom
<1> QED
  BY <1>6, <1>14 DEF M, s

\* So it overtakes none of them.
LEMMA NotOvertaken ==
  ASSUME PathsOK, NEW path, RequestPath(path), NEW method,
         NEW d, d = DirectAnswer(method, path), d.kind \in {"rpc", "405"},
         NEW o \in others, PathMatches(o.path, path), Before(o.path, d.at)
  PROVE  o.path \in DOMAIN tables /\ ~Theirs(o.path, method)
<1> DEFINE M == Matching(AllPaths, path)
           each == Each(AllPaths, path)
           s == Pick(AllPaths, path)
           p == o.path
<1>1. (\A q \in AllPaths : RouterPath(q)) /\ p \in AllPaths /\ RouterPath(p)
  BY AllPathsOK DEF AllPaths
<1>2. M # {} => each # <<>> /\ Head(each) = s /\ s \in M /\ \A t \in M : t = s \/ Before(s, t)
  BY <1>1, PickIsFirst
<1>3. p \in M
  BY <1>1 DEF Matching
<1>4. InRank(each, M)
  BY <1>1, EachInRank
<1>5. s \in AllPaths /\ each # <<>> /\ Head(each) = s /\ \A t \in M : t = s \/ Before(s, t)
  BY <1>2, <1>3 DEF Matching
<1>8. s \in DOMAIN tables /\ ~Theirs(s, method) /\ d.at \in {s} \cup Ahead(method, path)
  BY DirectGiven DEF DirectFrom
<1>11. Before(p, d.at)
  OBVIOUS
<1> HIDE DEF M, s, p, each
<1>12. CASE d.at = s
  <2>1. p = s \/ Before(s, p)
    BY <1>3, <1>5
  <2>2. RouterPath(s)
    BY <1>1, <1>5
  <2>3. Before(p, s)
    BY <1>11, <1>12
  <2>4. ~Before(s, p)
    BY <1>1, <2>2, <2>3, BeforeAsymmetric
  <2> QED
    BY <1>8, <2>1, <2>4 DEF p
<1>13. CASE d.at \in Ahead(method, path)
  <2> DEFINE t == d.at
  <2>1. t \in DOMAIN tables /\ RanksFirst(t, method, path)
    BY <1>13 DEF Ahead
  <2>2. PICK k \in 1 .. Len(each) : each[k] = t /\ \A j \in 1 .. k : each[j] \in DOMAIN tables /\ ~Theirs(each[j], method)
    BY <2>1 DEF RanksFirst, each
  <2>3. PICK j \in 1 .. Len(each) : each[j] = p
    BY <1>3, <1>4 DEF InRank
  <2>4. Len(each) \in Nat
    BY <1>4 DEF InRank
  <2>5. CASE j <= k
    <3>1. j \in 1 .. k
      BY <2>4, <2>5
    <3> QED
      BY <2>2, <2>3, <3>1 DEF p
  <2>6. CASE k < j
    <3>1. Before(t, p)
      BY <1>4, <2>2, <2>3, <2>6 DEF InRank
    <3>2. RouterPath(t)
      BY <2>1 DEF PathsOK
    <3>3. Before(p, t)
      BY <1>11
    <3> HIDE DEF t
    <3>4. FALSE
      BY <1>1, <3>1, <3>2, <3>3, BeforeAsymmetric
    <3> QED
      BY <3>4
  <2> QED
    BY <2>4, <2>5, <2>6
<1> QED
  BY <1>8, <1>12, <1>13

-----------------------------------------------------------------------------
\* The tables hold mounted templates of their path, the constrained ones first.
Mountings(t) == {Mount(r) : r \in {r \in Rules : Routable(r) /\ Mount(r).path = t}}
Ordered(bs) == \A j, k \in 1 .. Len(bs) : Constrained(bs[k]) /\ ~Constrained(bs[j]) => k < j
TableOK(t, bs) == bs \in Seq(Mountings(t)) /\ Ordered(bs)
TablesOK == \A t \in DOMAIN tables : TableOK(t, tables[t])

\* A sequence with one more element.
Inserted(S, s, at, e, r) ==
  /\ r \in Seq(S) /\ Len(r) = Len(s) + 1 /\ r[at] = e
  /\ \A i \in 1 .. at - 1 : r[i] = s[i]
  /\ \A i \in at + 1 .. Len(s) + 1 : r[i] = s[i - 1]

\* InsertAt gives it.
LEMMA InsertAtIs ==
  ASSUME NEW S, NEW s \in Seq(S), NEW e \in S, NEW at \in 1 .. Len(s) + 1
  PROVE  Inserted(S, s, at, e, InsertAt(s, at, e))
<1> DEFINE N == Len(s)
           a == SubSeq(s, 1, at - 1)
           b == SubSeq(s, at, N)
           c == a \o <<e>>
           r == c \o b
<1>1. InsertAt(s, at, e) = r
  BY DEF InsertAt
<1>2. N \in Nat /\ at \in 1 .. N + 1
  OBVIOUS
<1>3. a \in Seq(S) /\ Len(a) = at - 1 /\ \A i \in 1 .. at - 1 : a[i] = s[i]
  BY <1>2
<1>4. b \in Seq(S) /\ Len(b) = N - at + 1 /\ \A i \in 1 .. N - at + 1 : b[i] = s[at + i - 1]
  BY <1>2
<1>5. <<e>> \in Seq(S) /\ Len(<<e>>) = 1 /\ <<e>>[1] = e
  OBVIOUS
<1> HIDE DEF a, b, N
<1>6. Joined(a, <<e>>, c) /\ c \in Seq(S)
  BY <1>3, <1>5, JoinIs, ConcatProperties
<1>7. Len(c) = at /\ c[at] = e /\ \A i \in 1 .. at - 1 : c[i] = s[i]
  <2>1. Len(c) = Len(a) + 1 /\ (\A i \in 1 .. Len(a) : c[i] = a[i]) /\ c[Len(a) + 1] = <<e>>[1]
    BY <1>5, <1>6 DEF Joined
  <2> HIDE DEF c
  <2>2. Len(a) + 1 = at
    BY <1>2, <1>3
  <2> QED
    BY <1>3, <1>5, <2>1, <2>2
<1> HIDE DEF c
<1>8. Joined(c, b, r) /\ r \in Seq(S)
  BY <1>4, <1>6, JoinIs, ConcatProperties
<1>9. /\ Len(r) = at + (N - at + 1) /\ (\A i \in 1 .. at : r[i] = c[i])
      /\ \A j \in 1 .. N - at + 1 : r[at + j] = b[j]
  BY <1>4, <1>7, <1>8 DEF Joined
<1> HIDE DEF r
<1>10. Len(r) = N + 1 /\ r[at] = e /\ \A i \in 1 .. at - 1 : r[i] = s[i]
  BY <1>2, <1>7, <1>9
<1>11. ASSUME NEW i \in at + 1 .. N + 1 PROVE r[i] = s[i - 1]
  <2> DEFINE j == i - at
  <2>1. j \in 1 .. N - at + 1 /\ at + j = i /\ at + j - 1 = i - 1
    BY <1>2
  <2> QED
    BY <1>4, <1>9, <2>1
<1> QED
  BY <1>1, <1>8, <1>10, <1>11 DEF Inserted, N

\* PathTable::add keeps the constrained bindings before the open ones.
LEMMA AddedOK ==
  ASSUME NEW t, NEW bs, TableOK(t, bs), NEW b \in Mountings(t)
  PROVE  TableOK(t, Added(bs, b))
<1> DEFINE S == Mountings(t)
           N == Len(bs)
           open == SelectInSeq(bs, LAMBDA x : ~Constrained(x))
           at == IF Constrained(b) /\ open # 0 THEN open ELSE N + 1
           I == {i \in 1 .. N : ~Constrained(bs[i])}
           r == InsertAt(bs, at, b)
<1>0. bs \in Seq(S) /\ N \in Nat /\ Ordered(bs)
  BY DEF TableOK
<1>1. Added(bs, b) = IF \E i \in 1 .. N : Clash(bs[i], b) THEN bs ELSE r
  BY DEF Added
<1>2. open = IF I # {} THEN Min(I) ELSE 0
  BY DEF SelectInSeq
<1>3. I # {} => Min(I) \in I /\ \A y \in I : Min(I) <= y
  <2>1. I \in SUBSET Nat
    OBVIOUS
  <2> HIDE DEF I
  <2> QED
    BY <2>1, MinIn
<1> HIDE DEF open
<1>4. /\ open # 0 => open \in 1 .. N /\ ~Constrained(bs[open]) /\ \A i \in 1 .. N : i < open => Constrained(bs[i])
      /\ open = 0 => \A i \in 1 .. N : Constrained(bs[i])
  <2>1. CASE I = {}
    BY <1>2, <2>1
  <2>2. CASE I # {}
    <3>1. open \in I /\ open # 0 /\ \A y \in I : open <= y
      BY <1>2, <1>3, <2>2
    <3>2. \A i \in 1 .. N : i < open => i \notin I
      BY <3>1
    <3> QED
      BY <3>1, <3>2
  <2> QED
    BY <2>1, <2>2
<1>5. at \in 1 .. N + 1
  BY <1>0, <1>4
<1>6. Inserted(S, bs, at, b, r)
  <2>1. b \in S
    OBVIOUS
  <2> HIDE DEF S, at
  <2> QED
    BY <1>0, <1>5, <2>1, InsertAtIs
<1> HIDE DEF r, S
<1>7. /\ r \in Seq(S) /\ Len(r) = N + 1 /\ r[at] = b
      /\ \A i \in 1 .. at - 1 : r[i] = bs[i]
      /\ \A i \in at + 1 .. N + 1 : r[i] = bs[i - 1]
  BY <1>6 DEF Inserted
<1>8. ASSUME NEW i \in 1 .. N + 1
      PROVE  /\ i < at => i \in 1 .. N /\ r[i] = bs[i]
             /\ i = at => r[i] = b
             /\ i > at => i - 1 \in 1 .. N /\ i - 1 \in Nat /\ r[i] = bs[i - 1]
  <2> HIDE DEF at
  <2>1. i < at => i \in 1 .. at - 1 /\ i \in 1 .. N
    BY <1>0, <1>5
  <2>2. i > at => i \in at + 1 .. N + 1 /\ i - 1 \in 1 .. N
    BY <1>0, <1>5
  <2> QED
    BY <1>7, <2>1, <2>2
<1>9. Ordered(r)
  <2> SUFFICES ASSUME NEW j \in 1 .. N + 1, NEW k \in 1 .. N + 1, Constrained(r[k]), ~Constrained(r[j]), ~(k < j)
               PROVE  FALSE
    BY <1>7 DEF Ordered
  <2>0. \A m, n \in 1 .. N : Constrained(bs[m]) /\ ~Constrained(bs[n]) => m < n
    BY <1>0 DEF Ordered
  <2>1. CASE Constrained(b) /\ open # 0
    <3>1. at = open
      BY <2>1
    <3> HIDE DEF at
    <3>2. j > at
      <4>1. j < at => FALSE
        <5> SUFFICES ASSUME j < at PROVE FALSE
          OBVIOUS
        <5>1. j \in 1 .. N /\ r[j] = bs[j]
          BY <1>8
        <5> QED
          BY <1>4, <2>1, <3>1, <5>1
      <4>2. j # at
        BY <1>8, <2>1
      <4> QED
        BY <1>5, <4>1, <4>2
    <3>3. k > at
      BY <1>0, <1>5, <3>2
    <3>4. k - 1 \in 1 .. N /\ r[k] = bs[k - 1]
      BY <1>8, <3>3
    <3>5. k - 1 < open
      <4>1. open \in 1 .. N /\ ~Constrained(bs[open])
        BY <1>4, <2>1
      <4> QED
        BY <2>0, <3>4, <4>1
    <3> QED
      BY <1>0, <1>5, <3>1, <3>3, <3>5
  <2>2. CASE ~(Constrained(b) /\ open # 0)
    <3>1. at = N + 1
      BY <2>2
    <3> HIDE DEF at
    <3>2. (k = N + 1 => r[k] = b) /\ (k # N + 1 => k \in 1 .. N /\ r[k] = bs[k])
      BY <1>0, <1>8, <3>1
    <3>3. (j = N + 1 => r[j] = b) /\ (j # N + 1 => j \in 1 .. N /\ r[j] = bs[j])
      BY <1>0, <1>8, <3>1
    <3>4. CASE k = N + 1
      <4>1. Constrained(b) /\ open = 0
        BY <2>2, <3>2, <3>4
      <4>2. j # N + 1
        BY <3>3, <4>1
      <4> QED
        BY <1>4, <3>3, <4>1, <4>2
    <3>5. CASE k # N + 1
      <4>1. j # N + 1
        BY <1>0, <3>5
      <4> QED
        BY <2>0, <3>2, <3>3, <3>5, <4>1
    <3> QED
      BY <3>4, <3>5
  <2> QED
    BY <2>1, <2>2
<1> QED
  BY <1>0, <1>1, <1>7, <1>9 DEF TableOK, S

\* A table of one binding.
LEMMA OneOK ==
  ASSUME NEW t, NEW b \in Mountings(t)
  PROVE  TableOK(t, <<b>>)
<1> DEFINE S == Mountings(t)
<1> HIDE DEF S
<1>1. b \in S
  BY DEF S
<1>2. <<b>> \in Seq(S) /\ Len(<<b>>) = 1
  BY <1>1
<1>3. Ordered(<<b>>)
  <2>1. \A j \in 1 .. Len(<<b>>) : j = 1
    BY <1>2
  <2> QED
    BY <2>1, Zenon DEF Ordered
<1> QED
  BY <1>2, <1>3 DEF TableOK, S

\* The bindings of the tables are lists.
LEMMA TablesAreLists == TablesOK => TablesList
<1> SUFFICES ASSUME TablesOK, NEW t \in DOMAIN tables PROVE tables[t] \in Seq(ToSet(tables[t]))
  BY DEF TablesList
<1> DEFINE bs == tables[t]
<1>1. bs \in Seq(Mountings(t))
  BY DEF TablesOK, TableOK
<1> HIDE DEF bs
<1>2. bs \in Seq(ToSet(bs))
  BY <1>1, OwnList
<1> QED
  BY <1>2 DEF bs

\* A binding of a table: a template mounted at its path.
LEMMA BindingIs ==
  ASSUME TablesOK, NEW t \in DOMAIN tables, NEW i \in DOMAIN tables[t]
  PROVE  \E r \in Rules : Routable(r) /\ Mount(r).path = t /\ tables[t][i] = Mount(r)
<1> DEFINE bs == tables[t]
<1>1. bs \in Seq(Mountings(t))
  BY DEF TablesOK, TableOK
<1> HIDE DEF bs
<1>2. \A k \in DOMAIN bs : bs[k] \in Mountings(t)
  BY <1>1
<1>3. tables[t][i] \in Mountings(t)
  BY <1>2 DEF bs
<1> QED
  BY <1>3 DEF Mountings

\* A binding takes what its template names.
Bound(b, t, path) ==
  /\ UrlMatches(b.rule, path) <=>
       /\ b.verb # "" => VerbOf(path) = b.verb
       /\ PathMatches(t, path) /\ Admits(b, b.verb, path)
  /\ b.rule.verb = "" <=> b.verb = ""

\* So it does in every table.
LEMMA BoundIs ==
  ASSUME TablesOK, NEW t \in DOMAIN tables, NEW i \in DOMAIN tables[t], NEW path, RequestPath(path)
  PROVE  Bound(tables[t][i], t, path)
<1>1. PICK r \in Rules : Routable(r) /\ Mount(r).path = t /\ tables[t][i] = Mount(r)
  BY BindingIs
<1> DEFINE b == Mount(r)
<1>2. WellFormed(r)
  BY RoutingAssumption
<1>3. NamedAs(r, b, path)
  BY <1>1, <1>2, NamedIs
<1>4. MountedAs(r, b)
  BY <1>2, MountIs
<1>5. b.path = t /\ tables[t][i] = b
  BY <1>1
<1> HIDE DEF b
<1>6. b.rule = r /\ b.verb = Octets(r.verb)
  BY <1>4 DEF MountedAs
<1>7. b.verb = "" <=> r.verb = ""
  BY <1>6, OctetsNone
<1>8. Bound(b, t, path)
  BY <1>3, <1>5, <1>6, <1>7 DEF Bound, NamedAs
<1> QED
  BY <1>5, <1>8

\* The table that answers is one the path matches.
LEMMA AnswersAtMatch ==
  ASSUME PathsOK, NEW path, RequestPath(path), NEW method, Matching(AllPaths, path) # {},
         NEW t \in {Pick(AllPaths, path)} \cup Ahead(method, path)
  PROVE  PathMatches(t, path)
<1> DEFINE M == Matching(AllPaths, path)
           each == Each(AllPaths, path)
<1>1. \A q \in AllPaths : RouterPath(q)
  BY AllPathsOK
<1>2. Pick(AllPaths, path) \in M
  BY <1>1, PickIsFirst
<1>3. InRank(each, M)
  BY <1>1, EachInRank
<1>4. each \in Seq(M)
  BY <1>3 DEF InRank
<1>5. t \in Ahead(method, path) => \E k \in 1 .. Len(each) : each[k] = t
  BY AheadIs DEF Ahead
<1> HIDE DEF each
<1>6. t \in M
  <2> HIDE DEF M
  <2> QED
    BY <1>2, <1>4, <1>5
<1> QED
  BY <1>6 DEF Matching

\* A binding that answers is one the request names, with a method it serves, and
\* the first of them in its table.
RpcRight(b, bs, method, path) ==
  /\ UrlMatches(b.rule, path) /\ Serves(b.rule, method)
  /\ ~Constrained(b) => \A k \in DOMAIN bs :
       (/\ Constrained(bs[k]) /\ bs[k].verb = b.verb
        /\ UrlMatches(bs[k].rule, path) /\ Serves(bs[k].rule, method))
       => Owns(b, method) /\ ~Owns(bs[k], method)

\* So it is.
LEMMA RpcIsRight ==
  ASSUME PathsOK, TablesOK, NEW path, RequestPath(path), NEW method,
         NEW d, d = DirectAnswer(method, path), d.kind = "rpc"
  PROVE  d.at \in DOMAIN tables /\ RpcRight(d.binding, tables[d.at], method, path)
<1> DEFINE s == Pick(AllPaths, path)
           t == d.at
           bs == tables[t]
<1>1. Matching(AllPaths, path) # {} /\ DirectFrom(d, s, method, path)
  BY DirectGiven
<1> HIDE DEF s
<1>2. s \in DOMAIN tables /\ t \in {s} \cup Ahead(method, path)
  BY <1>1 DEF DirectFrom
<1>3. PICK v \in Verbs(path) : Rpc(d, t, bs, method, path, v) \/ Denied(d, t, bs, method, path, v)
  BY <1>1 DEF DirectFrom
<1>4. t \in DOMAIN tables /\ PathMatches(t, path)
  <2>1. Ahead(method, path) \subseteq DOMAIN tables
    BY DEF Ahead
  <2>2. t \in {Pick(AllPaths, path)} \cup Ahead(method, path)
    BY <1>2 DEF s
  <2> HIDE DEF t
  <2>3. PathMatches(t, path)
    BY <1>1, <2>2, AnswersAtMatch
  <2> QED
    BY <1>2, <2>1, <2>3
<1>5. \A k \in DOMAIN bs : Bound(bs[k], t, path)
  <2> HIDE DEF t
  <2> QED
    BY <1>4, BoundIs
<1>6. TableOK(t, bs)
  <2> HIDE DEF t
  <2> QED
    BY <1>4 DEF TablesOK
<1>7. bs \in Seq(Mountings(t)) /\ Ordered(bs)
  BY <1>6 DEF TableOK
<1> HIDE DEF bs, t
<1>8. ~Denied(d, t, bs, method, path, v)
  BY DEF Denied
<1>9. Rpc(d, t, bs, method, path, v)
  BY <1>3, <1>8
<1>10. PICK i \in DOMAIN bs : /\ d = [kind |-> "rpc", at |-> t, binding |-> bs[i]]
                              /\ Best(bs, i, method, path, v)
  BY <1>9 DEF Rpc
<1> DEFINE b == bs[i]
<1>11. d.binding = b
  BY <1>10
<1>12. /\ Admits(b, v, path) /\ Serves(b.rule, method)
       /\ \A k \in DOMAIN bs : Admits(bs[k], v, path) /\ Serves(bs[k].rule, method)
                                => i <= k \/ (Owns(b, method) /\ ~Owns(bs[k], method))
  BY <1>10 DEF Best
<1>13. b.verb = v /\ Bound(b, t, path)
  BY <1>5, <1>12 DEF Admits
<1> HIDE DEF b
<1>14. b.verb # "" => VerbOf(path) = b.verb
  BY <1>13 DEF Verbs
<1>15. UrlMatches(b.rule, path)
  BY <1>4, <1>12, <1>13, <1>14 DEF Bound
<1>16. ASSUME ~Constrained(b), NEW k \in DOMAIN bs, Constrained(bs[k]), bs[k].verb = b.verb,
              UrlMatches(bs[k].rule, path), Serves(bs[k].rule, method)
       PROVE  Owns(b, method) /\ ~Owns(bs[k], method)
  <2>1. Admits(bs[k], v, path)
    BY <1>5, <1>13, <1>16 DEF Bound
  <2>2. DOMAIN bs = 1 .. Len(bs) /\ Len(bs) \in Nat
    BY <1>7
  <2>3. k < i
    BY <1>7, <1>16, <2>2 DEF Ordered, b
  <2>4. ~(i <= k)
    BY <2>2, <2>3
  <2> QED
    BY <1>12, <1>16, <2>1, <2>4
<1>17. RpcRight(b, bs, method, path)
  BY <1>12, <1>15, <1>16 DEF RpcRight
<1> QED
  BY <1>4, <1>11, <1>17 DEF t, bs

-----------------------------------------------------------------------------
\* The owners of a URL no other route of the proxy takes.

\* Where no other route takes the path every table it matches ranks first.
LEMMA FreeRanks ==
  ASSUME PathsOK, NEW path, RequestPath(path), Free(path), NEW method, NEW q \in Matching(AllPaths, path)
  PROVE  q \in DOMAIN tables /\ ~Theirs(q, method) /\ RanksFirst(q, method, path)
<1> DEFINE M == Matching(AllPaths, path)
           each == Each(AllPaths, path)
<1>1. \A p \in AllPaths : RouterPath(p)
  BY AllPathsOK
<1>2. \A p \in M : p \in DOMAIN tables /\ Shared(p) = {}
  BY DEF Matching, AllPaths, Free, Shared
<1>3. \A p \in M : ~Theirs(p, method)
  BY <1>2 DEF Theirs
<1>4. InRank(each, M)
  BY <1>1, EachInRank
<1>5. each \in Seq(M) /\ \E k \in 1 .. Len(each) : each[k] = q
  BY <1>4 DEF InRank
<1>6. RanksFirst(q, method, path) <=>
        \E k \in 1 .. Len(each) : /\ each[k] = q
                                  /\ \A j \in 1 .. k : each[j] \in DOMAIN tables /\ ~Theirs(each[j], method)
  BY DEF RanksFirst
<1>7. q \in M
  OBVIOUS
<1> HIDE DEF M, each
<1>8. PICK k \in 1 .. Len(each) : each[k] = q
  BY <1>5
<1>9. \A j \in 1 .. k : j \in 1 .. Len(each)
  BY <1>5
<1>10. \A j \in 1 .. k : each[j] \in M
  BY <1>5, <1>9
<1> QED
  BY <1>2, <1>3, <1>6, <1>7, <1>8, <1>10

\* And none answers elsewhere.
LEMMA FreeElsewhere ==
  ASSUME NEW path, Free(path), NEW method
  PROVE  Elsewhere(method, path) = NotFound
<1> DEFINE P == {o.path : o \in others}
<1>1. Matching(P, path) = {}
  BY DEF Matching, Free
<1> QED
  BY <1>1 DEF Elsewhere

\* The answer past any router is then that of the table picked.
LEMMA FreeDirect ==
  ASSUME PathsOK, NEW path, RequestPath(path), Free(path), NEW method,
         NEW s, s = Pick(AllPaths, path), NEW d, d = DirectAnswer(method, path)
  PROVE  /\ Matching(AllPaths, path) = {} => d = NotFound
         /\ Matching(AllPaths, path) # {} =>
              s \in DOMAIN tables /\ s \in Matching(AllPaths, path) /\ d = Choose(s, method, path)
<1> DEFINE M == Matching(AllPaths, path)
           each == Each(AllPaths, path)
           chosen == Choose(s, method, path)
           elsewhere == Elsewhere(method, path)
<1>1. \A q \in AllPaths : RouterPath(q)
  BY AllPathsOK
<1>2. /\ M = {} => each = <<>>
      /\ M # {} => each # <<>> /\ Head(each) = s /\ s \in M
  BY <1>1, PickIsFirst
<1>3. elsewhere = NotFound
  BY FreeElsewhere
<1>4. M = {} => d = OrElse(NotFound, elsewhere)
  BY <1>2 DEF DirectAnswer
<1>5. M # {} => d = OrElse(IF s \in DOMAIN tables /\ ~Theirs(s, method) THEN chosen ELSE NotFound, elsewhere)
  BY <1>2 DEF DirectAnswer
<1>6. M # {} => s \in DOMAIN tables /\ ~Theirs(s, method)
  BY <1>2, FreeRanks
<1> HIDE DEF M, chosen, elsewhere, each
<1> QED
  BY <1>2, <1>3, <1>4, <1>5, <1>6 DEF OrElse, M, chosen

\* The tables of a verb the path matches.
Held(v, path) == Matching(Holding(v), path)

\* They rank first too, and are all there is to try.
LEMMA HeldRanks ==
  ASSUME PathsOK, NEW path, RequestPath(path), Free(path), NEW method, NEW v, NEW each, each = Each(Holding(v), path)
  PROVE  /\ each \in Seq(Held(v, path)) /\ Held(v, path) \in SUBSET DOMAIN tables
         /\ {each[j] : j \in 1 .. Len(each)} = Held(v, path)
         /\ \A j \in 1 .. Len(each) : RanksFirst(each[j], method, path)
<1> DEFINE X == Held(v, path)
<1>1. InRank(each, X) /\ each \in Seq(X) /\ X \in SUBSET DOMAIN tables
  BY HoldingEach DEF Held
<1>2. X \subseteq Matching(AllPaths, path)
  BY DEF Held, Matching, Holding, AllPaths
<1>3. \A q \in X : RanksFirst(q, method, path)
  BY <1>2, FreeRanks
<1> HIDE DEF X
<1>4. \A j \in 1 .. Len(each) : each[j] \in X
  BY <1>1
<1>5. \A q \in X : \E j \in 1 .. Len(each) : each[j] = q
  BY <1>1 DEF InRank
<1>6. {each[j] : j \in 1 .. Len(each)} = X
  BY <1>4, <1>5
<1> QED
  BY <1>1, <1>3, <1>4, <1>6 DEF X

\* So the best answer is given.
LEMMA TriesWhole ==
  ASSUME PathsOK, NEW s \in DOMAIN tables, NEW method, NEW path, RequestPath(path), Free(path)
  PROVE  /\ VerbOf(path) # "" => Whole(Two(s, method, path), Held(VerbOf(path), path), method, path, VerbOf(path))
         /\ Whole(Three(s, method, path), Held("", path), method, path, "")
<1>0. TablesList
  BY DEF PathsOK
<1>1. ASSUME NEW v
      PROVE  Whole(FromTable(s, Each(Holding(v), path), method, path, v), Held(v, path), method, path, v)
  <2> DEFINE each == Each(Holding(v), path)
             X == Held(v, path)
             c == FromTable(s, each, method, path, v)
  <2>1. /\ each \in Seq(X) /\ X \in SUBSET DOMAIN tables
        /\ {each[j] : j \in 1 .. Len(each)} = X
        /\ \A j \in 1 .. Len(each) : RanksFirst(each[j], method, path)
    BY HeldRanks
  <2>2. c = IF each # <<>> /\ (Head(each) = s \/ RanksFirst(Head(each), method, path))
            THEN Answer(Head(each), each, method, path, v) ELSE NotFound
    BY DEF FromTable
  <2> HIDE DEF each, X, c
  <2>3. CASE each = <<>>
    <3>1. X = {}
      <4>1. Len(<<>>) = 0
        OBVIOUS
      <4>2. \A j \in 1 .. Len(each) : FALSE
        BY <2>3, <4>1
      <4> QED
        BY <2>1, <4>2
    <3>2. Whole(c, X, method, path, v)
      BY <3>1 DEF Whole
    <3> QED
      BY <3>2 DEF c, X, each
  <2>4. CASE each # <<>>
    <3>1. 1 \in 1 .. Len(each) /\ Head(each) = each[1] /\ Head(each) \in X
      BY <2>1, <2>4
    <3>2. RanksFirst(Head(each), method, path) /\ Head(each) \in DOMAIN tables
      BY <2>1, <3>1
    <3>3. c = Answer(Head(each), each, method, path, v)
      BY <2>2, <2>4, <3>2
    <3>4. Whole(c, {each[j] : j \in 1 .. Len(each)}, method, path, v)
      BY <1>0, <2>1, <3>2, <3>3, AnswerGiven
    <3>5. Whole(c, X, method, path, v)
      BY <2>1, <3>4
    <3> QED
      BY <3>5 DEF c, X, each
  <2> QED
    BY <2>3, <2>4
<1>2. Whole(Answer(s, Each(Holding(""), path), method, path, ""), Held("", path), method, path, "")
  <2> DEFINE each == Each(Holding(""), path)
             X == Held("", path)
             c == Answer(s, each, method, path, "")
  <2>1. /\ each \in Seq(X) /\ X \in SUBSET DOMAIN tables
        /\ {each[j] : j \in 1 .. Len(each)} = X
        /\ \A j \in 1 .. Len(each) : RanksFirst(each[j], method, path)
    BY HeldRanks
  <2> HIDE DEF each, X
  <2>2. Whole(c, {each[j] : j \in 1 .. Len(each)}, method, path, "")
    BY <1>0, <2>1, AnswerGiven
  <2> HIDE DEF c
  <2>3. Whole(c, X, method, path, "")
    BY <2>1, <2>2
  <2> QED
    BY <2>3 DEF c, X, each
<1>3. VerbOf(path) # "" => Whole(Two(s, method, path), Held(VerbOf(path), path), method, path, VerbOf(path))
  BY <1>1 DEF Two
<1>4. Whole(Three(s, method, path), Held("", path), method, path, "")
  BY <1>1, <1>2 DEF Three
<1> QED
  BY <1>3, <1>4

\* The rules a verb's tables admit the request to.
Hits(v, path) ==
  {r \in Mounted : \E t \in Held(v, path) : \E i \in DOMAIN tables[t] :
                     r = tables[t][i].rule /\ Admits(tables[t][i], v, path)}

\* The rules mounted are those of the tables' bindings.
LEMMA MountedIs ==
  ASSUME TablesOK, NEW r
  PROVE  r \in Mounted <=> \E t \in DOMAIN tables : \E i \in DOMAIN tables[t] : r = tables[t][i].rule
<1>1. \A t \in DOMAIN tables : DOMAIN tables[t] = 1 .. Len(tables[t])
  <2> SUFFICES ASSUME NEW t \in DOMAIN tables PROVE DOMAIN tables[t] = 1 .. Len(tables[t])
    OBVIOUS
  <2> DEFINE bs == tables[t]
  <2>1. bs \in Seq(Mountings(t))
    BY DEF TablesOK, TableOK
  <2> HIDE DEF bs
  <2>2. DOMAIN bs = 1 .. Len(bs)
    BY <2>1
  <2> QED
    BY <2>2 DEF bs
<1> QED
  BY <1>1 DEF Mounted

\* A rule named is hit with its verb or without one.
LEMMA NamedHit ==
  ASSUME TablesOK, NEW path, RequestPath(path), NEW r \in Mounted, UrlMatches(r, path)
  PROVE  \/ r.verb = "" /\ r \in Hits("", path)
         \/ r.verb # "" /\ VerbOf(path) # "" /\ r \in Hits(VerbOf(path), path)
<1>1. PICK t \in DOMAIN tables : \E i \in DOMAIN tables[t] : r = tables[t][i].rule
  BY MountedIs
<1>2. PICK i \in DOMAIN tables[t] : r = tables[t][i].rule
  BY <1>1
<1> DEFINE bs == tables[t]
           b == bs[i]
<1>3. Bound(b, t, path)
  BY BoundIs
<1>4. TableOK(t, bs)
  BY DEF TablesOK
<1>40. bs \in Seq(Mountings(t)) /\ i \in DOMAIN bs
  BY <1>4 DEF TableOK
<1> HIDE DEF bs
<1>5. b \in ToSet(bs)
  BY <1>40 DEF ToSet
<1>6. r = b.rule
  BY <1>2 DEF bs
<1> HIDE DEF b
<1>7. PathMatches(t, path) /\ Admits(b, b.verb, path) /\ (b.verb # "" => VerbOf(path) = b.verb)
  BY <1>3, <1>6 DEF Bound
<1>8. r.verb = "" <=> b.verb = ""
  BY <1>3, <1>6 DEF Bound
<1>9. t \in Held(b.verb, path)
  BY <1>5, <1>7 DEF Held, Matching, Holding, bs
<1>10. r \in Hits(b.verb, path)
  BY <1>2, <1>7, <1>9 DEF Hits, b, bs
<1> QED
  BY <1>7, <1>8, <1>10

\* A rule hit is named.
LEMMA HitNamed ==
  ASSUME TablesOK, NEW path, RequestPath(path), NEW v \in Verbs(path), NEW r \in Hits(v, path)
  PROVE  /\ r \in Mounted /\ UrlMatches(r, path) /\ (r.verb = "" <=> v = "")
         /\ v # "" => Last(path)[1] # "" \/ Mount(r).empty_ok
<1>1. PICK t \in Held(v, path) : \E i \in DOMAIN tables[t] : r = tables[t][i].rule /\ Admits(tables[t][i], v, path)
  BY DEF Hits
<1>2. t \in DOMAIN tables /\ PathMatches(t, path)
  BY <1>1 DEF Held, Matching, Holding
<1>3. PICK i \in DOMAIN tables[t] : r = tables[t][i].rule /\ Admits(tables[t][i], v, path)
  BY <1>1
<1>4. Bound(tables[t][i], t, path)
  BY <1>2, BoundIs
<1>5. PICK q \in Rules : Routable(q) /\ Mount(q).path = t /\ tables[t][i] = Mount(q)
  BY <1>2, BindingIs
<1>6. MountedAs(q, Mount(q))
  BY <1>5, MountIs, RoutingAssumption
<1> DEFINE b == tables[t][i]
<1>7. Mount(r) = b
  <2>1. Mount(q).rule = q
    BY <1>6 DEF MountedAs
  <2> QED
    BY <1>3, <1>5, <2>1
<1> HIDE DEF b
<1>8. Admits(b, v, path) /\ b.rule = r /\ Bound(b, t, path)
  BY <1>3, <1>4 DEF b
<1>9. b.verb = v /\ (v # "" => b.empty_ok \/ Last(path)[1] # "")
  BY <1>8 DEF Admits
<1>10. UrlMatches(r, path) /\ (r.verb = "" <=> v = "")
  <2>1. b.verb # "" => VerbOf(path) = b.verb
    BY <1>9 DEF Verbs
  <2> QED
    BY <1>2, <1>8, <1>9, <2>1 DEF Bound
<1> QED
  BY <1>7, <1>9, <1>10 DEF Hits

\* An answer resolved among some rules: one of them that serves the method, a 405
\* when none does, none when there is none.
Resolved(c, H, method) ==
  \/ c = NotFound /\ H = {}
  \/ c.kind = "rpc" /\ c.binding.rule \in H /\ Serves(c.binding.rule, method)
  \/ c.kind = "405" /\ H # {} /\ \A r \in H : ~Serves(r, method)

\* So it is when it is given by a table and no table has a better one.
LEMMA ResolvedIs ==
  ASSUME TablesOK, NEW method, NEW path, NEW v, NEW c, NEW S \in SUBSET DOMAIN tables,
         \A t \in S : PathMatches(t, path),
         Given(c, S, method, path, v), Whole(c, Held(v, path), method, path, v)
  PROVE  Resolved(c, Hits(v, path), method)
<1> DEFINE H == Hits(v, path)
<1>1. ASSUME NEW t \in S, NEW i \in DOMAIN tables[t], Admits(tables[t][i], v, path)
      PROVE  tables[t][i].rule \in H
  <2> DEFINE bs == tables[t]
             b == bs[i]
  <2>1. TableOK(t, bs)
    BY DEF TablesOK
  <2>2. bs \in Seq(Mountings(t)) /\ i \in DOMAIN bs
    BY <2>1 DEF TableOK
  <2> HIDE DEF bs
  <2>3. b \in ToSet(bs)
    BY <2>2 DEF ToSet
  <2>4. Admits(b, v, path)
    BY <1>1 DEF bs
  <2>5. b.verb = v
    BY <2>4 DEF Admits
  <2>6. t \in Held(v, path)
    BY <2>3, <2>5 DEF Held, Matching, Holding, bs
  <2>7. tables[t][i].rule \in Mounted
    BY MountedIs
  <2> QED
    BY <1>1, <2>6, <2>7 DEF Hits
<1>2. CASE c = NotFound
  <2>1. c = NotFound => \A t \in Held(v, path) : Unadmitted(tables[t], path, v)
    BY DEF Whole
  <2>2. H = {}
    BY <1>2, <2>1 DEF Hits, Unadmitted
  <2> QED
    BY <1>2, <2>2 DEF Resolved
<1>3. CASE c # NotFound
  <2>1. PICK t \in S : Rpc(c, t, tables[t], method, path, v) \/ Denied(c, t, tables[t], method, path, v)
    BY <1>3 DEF Given
  <2> DEFINE bs == tables[t]
  <2> HIDE DEF bs
  <2>2. \A i \in DOMAIN bs : Admits(bs[i], v, path) => bs[i].rule \in H
    BY <1>1 DEF bs
  <2> HIDE DEF H
  <2>3. CASE Rpc(c, t, bs, method, path, v)
    <3>1. PICK i \in DOMAIN bs : /\ c = [kind |-> "rpc", at |-> t, binding |-> bs[i]]
                                 /\ Best(bs, i, method, path, v)
      BY <2>3 DEF Rpc
    <3>2. c.kind = "rpc" /\ c.binding = bs[i]
      BY <3>1
    <3>3. Admits(bs[i], v, path) /\ Serves(bs[i].rule, method)
      BY <3>1 DEF Best
    <3>4. c.binding.rule \in H /\ Serves(c.binding.rule, method)
      BY <2>2, <3>2, <3>3
    <3> QED
      BY <3>2, <3>4 DEF Resolved, H
  <2>4. CASE Denied(c, t, bs, method, path, v)
    <3>1. c.kind = "405" /\ ~Unadmitted(bs, path, v)
      BY <2>4 DEF Denied
    <3>2. H # {}
      BY <2>2, <3>1 DEF Unadmitted
    <3>3. \A q \in Held(v, path) : Unserved(tables[q], method, path, v)
      BY <3>1 DEF Whole
    <3>4. \A r \in H : ~Serves(r, method)
      BY <3>3 DEF H, Hits, Unserved
    <3> QED
      BY <3>1, <3>2, <3>4 DEF Resolved, H
  <2> QED
    BY <2>1, <2>3, <2>4 DEF bs
<1> QED
  BY <1>2, <1>3

\* A template that ends in no literal is mounted to end in none.
LEMMA LastSeg ==
  ASSUME NEW rule, WellFormed(rule), Routable(rule), Last(rule.pieces).kind # "literal"
  PROVE  Last(Mount(rule).path) \in {AnySeg, RestSeg}
<1> DEFINE P == FrontPath(rule)
           A == SegsOf(rule)
           p == Mount(rule).path
           piece == LastPiece(rule)
<1>1. P \in Seq(A) /\ PieceOK(piece)
  BY FrontIs
<1>2. PICK x : Shape(piece, TRUE) = <<x>>
  BY <1>1, LastShape
<1>3. piece.kind # "literal"
  BY DEF LastPiece, Last
<1>4. p = P \o <<x>>
  <2>1. MountedAs(rule, Mount(rule))
    BY MountIs
  <2> QED
    BY <1>2, <2>1 DEF MountedAs
<1>5. x \in {AnySeg, RestSeg}
  <2>1. \A a, c : <<a>> = <<c>> => a = c
    OBVIOUS
  <2>2. CASE piece.kind = "variable"
    <3>1. Shape(piece, TRUE) = <<AnySeg>>
      BY <2>2 DEF Shape
    <3> QED
      BY <1>2, <2>1, <3>1, Zenon
  <2>3. CASE piece.kind = "field"
    <3>1. Shape(piece, TRUE) = <<AnySeg>> \/ Shape(piece, TRUE) = <<RestSeg>>
      BY <2>3 DEF Shape
    <3> QED
      BY <1>2, <2>1, <3>1, Zenon
  <2> QED
    BY <1>1, <1>3, <2>2, <2>3 DEF PieceOK
<1> DEFINE S == A \cup {x}
<1>6. A \subseteq S /\ x \in S
  OBVIOUS
<1> HIDE DEF A, S, P, p
<1>7. P \in Seq(S) /\ <<x>> \in Seq(S) /\ Len(<<x>>) = 1 /\ <<x>>[1] = x
  BY <1>1, <1>6, MoreList
<1>8. Joined(P, <<x>>, P \o <<x>>)
  BY <1>7, JoinIs
<1>9. Len(p) = Len(P) + 1 /\ p[Len(P) + 1] = <<x>>[1]
  BY <1>4, <1>7, <1>8 DEF Joined
<1>10. Last(p) = x
  BY <1>7, <1>9 DEF Last
<1> QED
  BY <1>5, <1>10 DEF p

\* The rules that name a path, those with its verb, and its owners.
Named(path) == {r \in Mounted : UrlMatches(r, path)}
Verbal(path) == {r \in Named(path) : r.verb # "" /\ (Last(path)[1] # "" \/ Mount(r).empty_ok)}
Owners(path) == IF Verbal(path) # {} THEN Verbal(path) ELSE {r \in Named(path) : r.verb = ""}

\* They are the rules that are hit.
LEMMA OwnersAre ==
  ASSUME TablesOK, NEW path, RequestPath(path)
  PROVE  /\ {r \in Named(path) : r.verb = ""} = Hits("", path)
         /\ VerbOf(path) # "" => Verbal(path) = Hits(VerbOf(path), path)
         /\ VerbOf(path) = "" => Verbal(path) = {}
<1>0. "" \in Verbs(path) /\ VerbOf(path) \in Verbs(path)
  BY DEF Verbs
<1>1. \A r \in Mounted : UrlMatches(r, path) =>
         \/ r.verb = "" /\ r \in Hits("", path)
         \/ r.verb # "" /\ VerbOf(path) # "" /\ r \in Hits(VerbOf(path), path)
  BY NamedHit
<1>2. \A v \in Verbs(path) : \A r \in Hits(v, path) :
         /\ r \in Mounted /\ UrlMatches(r, path) /\ (r.verb = "" <=> v = "")
         /\ v # "" => Last(path)[1] # "" \/ Mount(r).empty_ok
  BY HitNamed
<1>3. {r \in Named(path) : r.verb = ""} = Hits("", path)
  BY <1>0, <1>1, <1>2 DEF Named
<1>4. VerbOf(path) # "" => Verbal(path) = Hits(VerbOf(path), path)
  BY <1>0, <1>1, <1>2 DEF Named, Verbal
<1>5. VerbOf(path) = "" => Verbal(path) = {}
  BY <1>1 DEF Named, Verbal
<1> QED
  BY <1>3, <1>4, <1>5

\* Where every template that names the path ends in a capture, a table that ends
\* in a literal has no answer of its own.
LEMMA OneNone ==
  ASSUME PathsOK, TablesOK, NEW path, RequestPath(path), NEW method, NEW s \in DOMAIN tables, PathMatches(s, path),
         \A r \in Named(path) : Last(r.pieces).kind # "literal"
  PROVE  One(s, method, path) = NotFound
<1> SUFFICES ASSUME Last(s) \notin {AnySeg, RestSeg} PROVE TableChoose(s, method, path, "") = NotFound
  BY DEF One
<1> DEFINE adm == Admitted(tables[s], path, "")
<1>1. SUFFICES ASSUME NEW i \in DOMAIN tables[s], Admits(tables[s][i], "", path) PROVE FALSE
  <2>1. adm = {} => TableChoose(s, method, path, "") = NotFound
    BY DEF TableChoose
  <2>2. adm # {} => \E i \in DOMAIN tables[s] : Admits(tables[s][i], "", path)
    BY DEF Admitted
  <2> QED
    BY <2>1, <2>2
<1>2. PICK r \in Rules : Routable(r) /\ Mount(r).path = s /\ tables[s][i] = Mount(r)
  BY BindingIs
<1>3. WellFormed(r)
  BY RoutingAssumption
<1>4. MountedAs(r, Mount(r))
  BY <1>3, MountIs
<1>5. Mount(r).rule = r
  BY <1>4 DEF MountedAs
<1> DEFINE b == tables[s][i]
<1>6. Bound(b, s, path)
  BY BoundIs
<1>7. b.rule = r /\ Admits(b, "", path)
  BY <1>1, <1>2, <1>5
<1>8. r \in Mounted
  BY <1>7, MountedIs
<1> HIDE DEF b
<1>9. b.verb = ""
  BY <1>7 DEF Admits
<1>10. UrlMatches(r, path)
  BY <1>6, <1>7, <1>9 DEF Bound
<1>11. Last(r.pieces).kind # "literal"
  BY <1>8, <1>10 DEF Named
<1>12. Last(s) \in {AnySeg, RestSeg}
  BY <1>2, <1>3, <1>11, LastSeg
<1> QED
  BY <1>12

\* The owners of a URL answer it.
LEMMA OwnersAnswer ==
  ASSUME PathsOK, TablesOK, NEW path, RequestPath(path), Free(path), NEW method,
         \A r \in Named(path) : Last(r.pieces).kind # "literal", NEW d, d = DirectAnswer(method, path)
  PROVE  Resolved(d, Owners(path), method)
<1> DEFINE M == Matching(AllPaths, path)
           s == Pick(AllPaths, path)
           verb == VerbOf(path)
           H == Hits("", path)
           V == Hits(verb, path)
           O == Owners(path)
<1>1. /\ verb # "" => O = IF V # {} THEN V ELSE H
      /\ verb = "" => O = H
  BY OwnersAre DEF Owners
<1>2. /\ M = {} => d = NotFound
      /\ M # {} => s \in DOMAIN tables /\ s \in M /\ d = Choose(s, method, path)
  BY FreeDirect
<1>3. CASE M = {}
  <2>1. H = {} /\ V = {}
    BY <1>3 DEF Hits, Held, Matching, Holding, AllPaths
  <2> HIDE DEF H, V, O
  <2>2. O = {}
    BY <1>1, <2>1
  <2> QED
    BY <1>2, <1>3, <2>2 DEF Resolved, O
<1>4. CASE M # {}
  <2> DEFINE S == {s} \cup Ahead(method, path)
             two == Two(s, method, path)
             three == Three(s, method, path)
             c == ChooseRanked(s, method, path)
  <2>1. s \in DOMAIN tables /\ PathMatches(s, path) /\ d = Choose(s, method, path)
    BY <1>2, <1>4 DEF Matching
  <2>2. S \in SUBSET DOMAIN tables
    BY <2>1 DEF Ahead
  <2>3. \A t \in S : PathMatches(t, path)
    BY <1>4, AnswersAtMatch
  <2>4. One(s, method, path) = NotFound
    BY <2>1, OneNone
  <2>5. Given(two, S, method, path, verb) /\ Given(three, S, method, path, "")
    BY <2>1, TriesGiven
  <2>6. /\ verb # "" => Whole(two, Held(verb, path), method, path, verb)
        /\ Whole(three, Held("", path), method, path, "")
    BY <2>1, TriesWhole
  <2>7. verb = "" => two = NotFound
    BY DEF Two
  <2>8. c = OrElse(NotFound, OrElse(two, three))
    BY <2>4, ChooseRankedIs
  <2>9. d.kind = c.kind /\ (c.kind # "405" => d = c)
    <3> HIDE DEF s
    <3>1. /\ ChosenFrom(d, {s} \cup Ahead(method, path), method, path)
          /\ d.kind = c.kind /\ (c.kind # "405" => d = c)
      <4>1. c = ChooseRanked(s, method, path)
        OBVIOUS
      <4> HIDE DEF c
      <4> QED
        BY <2>1, <4>1, ChooseIs
    <3> HIDE DEF c
    <3> QED
      BY <3>1
  <2> HIDE DEF s, S, two, three, c, verb, O
  <2>10. verb # "" => Resolved(two, V, method)
    BY <2>2, <2>3, <2>5, <2>6, ResolvedIs
  <2>11. Resolved(three, H, method)
    BY <2>2, <2>3, <2>5, <2>6, ResolvedIs
  <2> HIDE DEF H, V
  <2>12. NotFound.kind = "none"
    BY DEF NotFound
  <2>13. Resolved(c, O, method)
    <3>1. CASE verb # "" /\ two # NotFound
      <4>1. V # {}
        BY <2>10, <3>1 DEF Resolved
      <4>2. c = two /\ O = V
        BY <1>1, <2>8, <3>1, <4>1 DEF OrElse
      <4> QED
        BY <2>10, <3>1, <4>2
    <3>2. CASE two = NotFound
      <4>1. verb # "" => V = {}
        BY <2>10, <2>12, <3>2 DEF Resolved
      <4>2. c = three /\ O = H
        BY <1>1, <2>8, <3>2, <4>1 DEF OrElse
      <4> QED
        BY <2>11, <4>2
    <3> QED
      BY <2>7, <3>1, <3>2
  <2>14. Resolved(d, O, method)
    <3>1. CASE c.kind = "405"
      <4>1. O # {} /\ \A r \in O : ~Serves(r, method)
        BY <2>12, <2>13, <3>1 DEF Resolved
      <4> QED
        BY <2>9, <3>1, <4>1 DEF Resolved
    <3>2. CASE c.kind # "405"
      <4>1. d = c
        BY <2>9, <3>2
      <4> QED
        BY <2>13, <4>1
    <3> QED
      BY <3>1, <3>2
  <2> QED
    BY <2>14 DEF O
<1> QED
  BY <1>3, <1>4

-----------------------------------------------------------------------------
\* The invariant: the tables and the other routes are at router paths, a table
\* holds templates of its path with the constrained ones first; a proxy that
\* serves passed the startup check, and none has answered before it serves.
RoutesType ==
  /\ phase \in {"building", "serving", "refused"} /\ others \in OtherSets
  /\ shapes \in Seq(DOMAIN tables)
  /\ \A s \in DOMAIN tables : RouterPath(s)
  /\ TablesOK
Checked ==
  /\ phase = "serving" => NoneForAll
  /\ phase # "serving" => request = NoRequest
  /\ request = NoRequest => direct = NotFound /\ routed = NotFound
AnswersRight ==
  DirectServesAsRouter /\ OthersNotOvertaken /\ AnswersMatch /\ ConstrainedFirst /\ UrlOwned
RoutesInv == RoutesType /\ Checked /\ AnswersRight

\* The invariant's router paths and lists.
LEMMA TypePaths == RoutesType => PathsOK
<1> SUFFICES ASSUME RoutesType PROVE PathsOK
  OBVIOUS
<1>1. others \in OtherSets /\ (\A s \in DOMAIN tables : RouterPath(s)) /\ TablesOK
  BY DEF RoutesType
<1>2. \A o \in others : RouterPath(o.path)
  BY <1>1, RoutingAssumption
<1> QED
  BY <1>1, <1>2, TablesAreLists DEF PathsOK

\* A request's path is one the model gives.
LEMMA PathsAreRequests == \A path \in Paths : RequestPath(path)
<1> SUFFICES ASSUME NEW path \in Paths PROVE RequestPath(path)
  OBVIOUS
<1>1. path \in Seq(ToSet(path)) /\ path # <<>> /\ ToSet(path) \cap {AnySeg, RestSeg} = {}
  BY RoutingAssumption
<1>2. \A i \in 1 .. Len(path) : path[i] \in ToSet(path)
  BY <1>1, ListIs
<1> QED
  BY <1>1, <1>2 DEF RequestPath

\* Nothing is answered wrongly where nothing is asked.
LEMMA NoneAsked ==
  direct = NotFound /\ routed = NotFound /\ request = NoRequest => AnswersRight
<1> SUFFICES ASSUME direct = NotFound, routed = NotFound, request = NoRequest PROVE AnswersRight
  OBVIOUS
<1>1. direct.kind = "none"
  BY DEF NotFound
<1>2. OthersNotOvertaken /\ AnswersMatch /\ ConstrainedFirst
  BY <1>1 DEF OthersNotOvertaken, AnswersMatch, ConstrainedFirst
<1>3. UrlOwned
  BY DEF UrlOwned
<1> QED
  BY <1>2, <1>3 DEF AnswersRight, DirectServesAsRouter

\* The same after a step.
LEMMA NoneAskedNext ==
  direct' = NotFound /\ routed' = NotFound /\ request' = NoRequest => AnswersRight'
<1> SUFFICES ASSUME direct' = NotFound, routed' = NotFound, request' = NoRequest PROVE AnswersRight'
  OBVIOUS
<1>1. direct'.kind = "none"
  BY DEF NotFound
<1>2. OthersNotOvertaken' /\ AnswersMatch' /\ ConstrainedFirst'
  BY <1>1 DEF OthersNotOvertaken, AnswersMatch, ConstrainedFirst
<1>3. UrlOwned'
  BY DEF UrlOwned
<1> QED
  BY <1>2, <1>3 DEF AnswersRight, DirectServesAsRouter

\* Nothing is declared at first.
LEMMA RoutesInit == Init => RoutesInv
<1> SUFFICES ASSUME Init PROVE RoutesInv
  OBVIOUS
<1>1. shapes = <<>> /\ others \in OtherSets /\ phase = "building" /\ DOMAIN tables = {}
      /\ direct = NotFound /\ routed = NotFound /\ request = NoRequest
  BY DEF Init
<1>2. shapes \in Seq(DOMAIN tables)
  BY <1>1, NoneIn
<1>3. TablesOK
  BY <1>1 DEF TablesOK
<1>4. RoutesType
  BY <1>1, <1>2, <1>3 DEF RoutesType
<1>5. Checked /\ AnswersRight
  BY <1>1, NoneAsked DEF Checked
<1> QED
  BY <1>4, <1>5 DEF RoutesInv

\* A binding is added at a router path, and nothing is answered yet.
LEMMA DeclareRoutes ==
  ASSUME RoutesInv, NEW rule \in Rules, Declare(rule)
  PROVE  RoutesInv'
<1> DEFINE b == Mount(rule)
           p == b.path
<1>1. /\ phase = "building" /\ phase' = phase /\ others' = others /\ direct' = direct /\ routed' = routed
      /\ request' = request /\ Routable(rule)
      /\ IF p \in DOMAIN tables
         THEN /\ tables' = [tables EXCEPT ![p] = Added(@, b)]
              /\ shapes' = shapes
         ELSE /\ tables' = [s \in DOMAIN tables \cup {p} |-> IF s = p THEN <<b>> ELSE tables[s]]
              /\ shapes' = Append(shapes, p)
  BY DEF Declare
<1>2. RouterPath(p) /\ b \in Mountings(p)
  <2>1. WellFormed(rule)
    BY RoutingAssumption
  <2> QED
    BY <1>1, <2>1, MountRouter DEF Mountings
<1>3. /\ others \in OtherSets /\ shapes \in Seq(DOMAIN tables) /\ phase \in {"building", "serving", "refused"}
      /\ (\A s \in DOMAIN tables : RouterPath(s)) /\ TablesOK /\ Checked
  BY DEF RoutesInv, RoutesType
<1> HIDE DEF b, p
<1>4. DOMAIN tables' = DOMAIN tables \cup {p} /\ shapes' \in Seq(DOMAIN tables') /\ TablesOK'
  <2>1. CASE p \in DOMAIN tables
    <3>1. DOMAIN tables' = DOMAIN tables /\ shapes' = shapes
          /\ (\A s \in DOMAIN tables : s # p => tables'[s] = tables[s]) /\ tables'[p] = Added(tables[p], b)
      BY <1>1, <2>1
    <3> DEFINE bs == tables[p]
    <3>2. TableOK(p, bs)
      BY <1>3, <2>1 DEF TablesOK
    <3> HIDE DEF bs
    <3>3. TableOK(p, Added(bs, b))
      BY <1>2, <3>2, AddedOK
    <3>4. TableOK(p, tables'[p])
      BY <3>1, <3>3 DEF bs
    <3>5. \A s \in DOMAIN tables' : TableOK(s, tables'[s])
      BY <1>3, <3>1, <3>4 DEF TablesOK
    <3> QED
      BY <1>3, <2>1, <3>1, <3>5 DEF TablesOK
  <2>2. CASE p \notin DOMAIN tables
    <3>1. DOMAIN tables' = DOMAIN tables \cup {p} /\ shapes' = Append(shapes, p)
          /\ (\A s \in DOMAIN tables : tables'[s] = tables[s]) /\ tables'[p] = <<b>>
      BY <1>1, <2>2
    <3>2. TableOK(p, <<b>>)
      BY <1>2, OneOK
    <3>3. \A s \in DOMAIN tables' : TableOK(s, tables'[s])
      BY <1>3, <3>1, <3>2 DEF TablesOK
    <3>4. shapes' \in Seq(DOMAIN tables \cup {p})
      <4> DEFINE S == DOMAIN tables \cup {p}
      <4>1. DOMAIN tables \subseteq S /\ p \in S
        OBVIOUS
      <4> HIDE DEF S
      <4>2. shapes \in Seq(S)
        BY <1>3, <4>1, MoreList
      <4>3. Append(shapes, p) \in Seq(S)
        BY <4>1, <4>2
      <4> QED
        BY <3>1, <4>3 DEF S
    <3> QED
      BY <3>1, <3>3, <3>4 DEF TablesOK
  <2> QED
    BY <2>1, <2>2
<1>5. RoutesType'
  BY <1>1, <1>2, <1>3, <1>4 DEF RoutesType
<1>6. direct' = NotFound /\ routed' = NotFound /\ request' = NoRequest /\ phase' # "serving"
  BY <1>1, <1>3 DEF Checked
<1>7. Checked' /\ AnswersRight'
  BY <1>6, NoneAskedNext DEF Checked
<1> QED
  BY <1>5, <1>7 DEF RoutesInv

\* A proxy that starts to serve shares no table's path with a route for every
\* method.
LEMMA StartRoutes ==
  ASSUME RoutesInv, Start
  PROVE  RoutesInv'
<1> DEFINE kept == ToSet(Mountable(shapes))
<1>1. /\ phase = "building" /\ phase' = IF Collides(kept) THEN "refused" ELSE "serving"
      /\ shapes' = Mountable(shapes) /\ tables' = [s \in kept |-> tables[s]]
      /\ others' = others /\ direct' = direct /\ routed' = routed /\ request' = request
  BY DEF Start
<1>2. /\ others \in OtherSets /\ shapes \in Seq(DOMAIN tables)
      /\ (\A s \in DOMAIN tables : RouterPath(s)) /\ TablesOK /\ Checked
  BY DEF RoutesInv, RoutesType
<1>3. shapes' \in Seq(kept) /\ kept \subseteq DOMAIN tables
  <2> DEFINE m == Mountable(shapes)
  <2>1. m \in Seq(DOMAIN tables)
    BY <1>2, MountableType
  <2> HIDE DEF m
  <2>2. m \in Seq(ToSet(m)) /\ ToSet(m) \subseteq DOMAIN tables
    BY <2>1, OwnList DEF ToSet
  <2> QED
    BY <1>1, <2>2 DEF m
<1>4. ~Collides(kept) => \A o \in others : o.path \in kept => o.method # "*"
  <2> HIDE DEF kept
  <2> QED
    BY DEF Collides
<1> HIDE DEF kept
<1>5. DOMAIN tables' = kept /\ \A s \in kept : tables'[s] = tables[s]
  BY <1>1
<1>6. \A s \in DOMAIN tables' : TableOK(s, tables'[s])
  BY <1>2, <1>3, <1>5 DEF TablesOK
<1>7. TablesOK'
  BY <1>6 DEF TablesOK
<1>8. phase' \in {"refused", "serving"}
  BY <1>1
<1>9. RoutesType'
  BY <1>1, <1>2, <1>3, <1>5, <1>7, <1>8 DEF RoutesType
<1>10. direct' = NotFound /\ routed' = NotFound /\ request' = NoRequest
  BY <1>1, <1>2 DEF Checked
<1>11. phase' = "serving" => NoneForAll'
  BY <1>1, <1>4, <1>5 DEF NoneForAll
<1>12. Checked' /\ AnswersRight'
  BY <1>10, <1>11, NoneAskedNext DEF Checked
<1> QED
  BY <1>9, <1>12 DEF RoutesInv

\* What an answer must be, with the request's method and path.
OvertakesNone(d, method, path) ==
  d.kind \in {"rpc", "405"} =>
    \A o \in others : PathMatches(o.path, path) /\ Before(o.path, d.at)
      => o.path \in DOMAIN tables /\ ~Theirs(o.path, method)
OwnedBy(d, method, path) ==
  Free(path) /\ (\A r \in Named(path) : Last(r.pieces).kind # "literal") => Resolved(d, Owners(path), method)

\* A request is answered alike both ways, by a binding it names, by an owner of
\* its URL, and overtakes no other route.
LEMMA AskRoutes ==
  ASSUME RoutesInv, NEW method \in Methods, NEW path \in Paths, Ask(method, path)
  PROVE  RoutesInv'
<1> DEFINE d == DirectAnswer(method, path)
           r == RoutedAnswer(method, path)
<1>1. /\ phase = "serving" /\ phase' = phase /\ others' = others /\ shapes' = shapes /\ tables' = tables
      /\ request' = [method |-> method, path |-> path] /\ direct' = d /\ routed' = r
  BY DEF Ask
<1>2. RoutesType /\ Checked /\ PathsOK /\ TablesOK /\ NoneForAll /\ RequestPath(path)
  BY <1>1, TypePaths, PathsAreRequests DEF RoutesInv, RoutesType, Checked
<1>3. d = r
  BY <1>2, Alike
<1>4. OvertakesNone(d, method, path)
  <2> SUFFICES ASSUME d.kind \in {"rpc", "405"}, NEW o \in others, PathMatches(o.path, path), Before(o.path, d.at)
               PROVE  o.path \in DOMAIN tables /\ ~Theirs(o.path, method)
    BY DEF OvertakesNone
  <2>1. d = DirectAnswer(method, path)
    OBVIOUS
  <2> HIDE DEF d
  <2> QED
    BY <1>2, <2>1, NotOvertaken
<1>5. d.kind = "rpc" => d.at \in DOMAIN tables /\ RpcRight(d.binding, tables[d.at], method, path)
  <2>1. d = DirectAnswer(method, path)
    OBVIOUS
  <2> HIDE DEF d
  <2> QED
    BY <1>2, <2>1, RpcIsRight
<1>6. OwnedBy(d, method, path)
  <2>1. d = DirectAnswer(method, path)
    OBVIOUS
  <2> HIDE DEF d
  <2> QED
    BY <1>2, <2>1, OwnersAnswer DEF OwnedBy
<1> HIDE DEF d, r
<1>7. request'.path = path /\ request'.method = method /\ request' # NoRequest
  <2>1. request'.path = path /\ request'.method = method
    BY <1>1
  <2>2. path # <<>>
    BY <1>2 DEF RequestPath
  <2>3. NoRequest.path = <<>>
    BY DEF NoRequest
  <2> QED
    BY <2>1, <2>2, <2>3
<1>8. OthersNotOvertaken'
  <2>1. \A q : Theirs(q, method)' <=> Theirs(q, method)
    BY <1>1 DEF Theirs, Shared, BindsHead
  <2>2. SUFFICES ASSUME direct'.kind \in {"rpc", "405"}, NEW o \in others',
                        PathMatches(o.path, request'.path), Before(o.path, direct'.at)
                 PROVE  o.path \in DOMAIN tables' /\ ~Theirs(o.path, request.method)'
    BY DEF OthersNotOvertaken
  <2>3. o.path \in DOMAIN tables /\ ~Theirs(o.path, method)
    BY <1>1, <1>4, <1>7, <2>2 DEF OvertakesNone
  <2> QED
    BY <1>1, <1>7, <2>1, <2>3 DEF Theirs, Shared, BindsHead
<1>9. AnswersMatch'
  BY <1>1, <1>5, <1>7 DEF AnswersMatch, RpcRight
<1>10. ConstrainedFirst'
  <2> DEFINE t == d.at
             bs == tables[t]
             b == d.binding
  <2>1. SUFFICES ASSUME d.kind = "rpc", ~Constrained(b), NEW c \in ToSet(tables[t]), Constrained(c),
                        c.verb = b.verb, UrlMatches(c.rule, path), Serves(c.rule, method)
                 PROVE  b.rule.method \in {"*", method} /\ ~(c.rule.method \in {"*", method})
    BY <1>1, <1>7 DEF ConstrainedFirst
  <2>2. RpcRight(b, bs, method, path)
    BY <1>5, <2>1
  <2> HIDE DEF b, bs
  <2>3. PICK k \in DOMAIN bs : c = bs[k]
    BY DEF ToSet, bs
  <2> QED
    BY <2>1, <2>2, <2>3 DEF RpcRight, Owns
<1>11. UrlOwned'
  <2> DEFINE named == {q \in Mounted : UrlMatches(q, path)}
             verbal == {q \in named : q.verb # "" /\ (Last(path)[1] # "" \/ Mount(q).empty_ok)}
             owners == IF verbal # {} THEN verbal ELSE {q \in named : q.verb = ""}
             answering == {q \in owners : Serves(q, method)}
  <2>1. Mounted' = Mounted /\ (Free(path)' <=> Free(path))
    BY <1>1 DEF Mounted, Free
  <2>2. owners = Owners(path) /\ named = Named(path)
    BY DEF Owners, Verbal, Named
  <2>3. UrlOwned' <=>
          (Free(path) /\ (\A q \in named : Last(q.pieces).kind # "literal")
            => CASE answering # {} -> d.kind = "rpc" /\ d.binding.rule \in answering
                 [] answering = {} /\ owners # {} -> d.kind = "405"
                 [] OTHER -> d = NotFound)
    BY <1>1, <1>7, <2>1 DEF UrlOwned
  <2> HIDE DEF named, verbal
  <2>4. SUFFICES ASSUME Free(path), \A q \in named : Last(q.pieces).kind # "literal"
                 PROVE  CASE answering # {} -> d.kind = "rpc" /\ d.binding.rule \in answering
                          [] answering = {} /\ owners # {} -> d.kind = "405"
                          [] OTHER -> d = NotFound
    BY <2>3
  <2>5. Resolved(d, owners, method)
    BY <1>6, <2>2, <2>4 DEF OwnedBy
  <2> HIDE DEF owners
  <2>6. NotFound.kind = "none"
    BY DEF NotFound
  <2>7. CASE answering # {}
    <3>1. d.kind = "rpc" /\ d.binding.rule \in answering
      BY <2>5, <2>6, <2>7 DEF Resolved
    <3> HIDE DEF answering
    <3> QED
      BY <2>7, <3>1
  <2>8. CASE answering = {} /\ owners # {}
    <3>1. d.kind = "405"
      BY <2>5, <2>8 DEF Resolved
    <3> HIDE DEF answering
    <3> QED
      BY <2>8, <3>1
  <2>9. CASE answering = {} /\ owners = {}
    <3>1. d = NotFound
      BY <2>5, <2>9 DEF Resolved
    <3> HIDE DEF answering
    <3> QED
      BY <2>9, <3>1
  <2> QED
    BY <2>7, <2>8, <2>9
<1>12. RoutesType' /\ DirectServesAsRouter'
  BY <1>1, <1>2, <1>3 DEF RoutesType, DirectServesAsRouter, TablesOK
<1>13. Checked'
  BY <1>1, <1>2, <1>7 DEF Checked, NoneForAll
<1> QED
  BY <1>8, <1>9, <1>10, <1>11, <1>12, <1>13 DEF RoutesInv, AnswersRight

\* A stuttering step changes nothing.
LEMMA StutterRoutes ==
  ASSUME RoutesInv, UNCHANGED vars
  PROVE  RoutesInv'
<1>1. /\ phase' = phase /\ others' = others /\ shapes' = shapes /\ tables' = tables
      /\ request' = request /\ direct' = direct /\ routed' = routed
  BY DEF vars
<1>2. RoutesType' /\ Checked' /\ DirectServesAsRouter'
  BY <1>1 DEF RoutesInv, RoutesType, Checked, AnswersRight, DirectServesAsRouter, NoneForAll, TablesOK
<1>3. OthersNotOvertaken'
  BY <1>1 DEF RoutesInv, AnswersRight, OthersNotOvertaken, Theirs, Shared, BindsHead
<1>4. AnswersMatch' /\ ConstrainedFirst'
  BY <1>1 DEF RoutesInv, AnswersRight, AnswersMatch, ConstrainedFirst
<1>5. UrlOwned'
  <2>1. Mounted' = Mounted /\ (\A p : Free(p)' <=> Free(p))
    BY <1>1 DEF Mounted, Free
  <2>2. UrlOwned
    BY DEF RoutesInv, AnswersRight
  <2> QED
    BY <1>1, <2>1, <2>2 DEF UrlOwned
<1> QED
  BY <1>2, <1>3, <1>4, <1>5 DEF RoutesInv, AnswersRight

\* The invariant holds of every reachable state: whatever rules are declared in
\* whatever order, beside whatever other routes.
THEOREM RoutesSound == Spec => []RoutesInv
<1>1. Init => RoutesInv
  BY RoutesInit
<1>2. RoutesInv /\ [Next]_vars => RoutesInv'
  BY DeclareRoutes, StartRoutes, AskRoutes, StutterRoutes DEF Next
<1> QED
  BY <1>1, <1>2, PTL DEF Spec

\* Direct::takes and the axum router answer every request alike, for any rules,
\* other routes, methods and paths, of any number and length.
THEOREM DirectIsRouter == Spec => []DirectServesAsRouter
<1>1. RoutesInv => DirectServesAsRouter
  BY DEF RoutesInv, AnswersRight
<1> QED
  BY <1>1, RoutesSound, PTL

\* A table that takes over a request never overtakes another route of the proxy
\* the request reaches (ranks_first).
THEOREM NoneOvertaking == Spec => []OthersNotOvertaken
<1>1. RoutesInv => OthersNotOvertaken
  BY DEF RoutesInv, AnswersRight
<1> QED
  BY <1>1, RoutesSound, PTL

\* A request reaches a binding only if its template, as google/api/http.proto
\* reads it, names the request's path, and its method is one it answers: mount,
\* router, Binding::fits and the choice of a table together decide what the
\* template says.
THEOREM AnswersAreNamed == Spec => []AnswersMatch
<1>1. RoutesInv => AnswersMatch
  BY DEF RoutesInv, AnswersRight
<1> QED
  BY <1>1, RoutesSound, PTL

\* An open binding answers only what no constrained one of its router path
\* would, in whatever order they were declared (PathTable::add).
THEOREM ConstrainedAreFirst == Spec => []ConstrainedFirst
<1>1. RoutesInv => ConstrainedFirst
  BY DEF RoutesInv, AnswersRight
<1> QED
  BY <1>1, RoutesSound, PTL

\* A verb some binding of the path binds owns the URL, one of its bindings that
\* answers the method is found whatever table ranks first, a 405 is given only
\* when none does, and nothing only when no template names the URL.
THEOREM UrlsAreOwned == Spec => []UrlOwned
<1>1. RoutesInv => UrlOwned
  BY DEF RoutesInv, AnswersRight
<1> QED
  BY <1>1, RoutesSound, PTL
=============================================================================
