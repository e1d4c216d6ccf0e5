------------------------------ MODULE WalkProofs -------------------------------
(***************************************************************************)
(* Proofs about the walks of EventSearch, for any events, documents,       *)
(* queries and page size, with events indexed and the index rotated        *)
(* between any two reads.                                                  *)
(* An answer is a slice of what was found, cut by the number of elements   *)
(* before each; so the proofs begin with ranks in a finite ordered set.    *)
(***************************************************************************)
EXTENDS SearchProofs, FiniteSetTheorems, WellFoundedInduction

-----------------------------------------------------------------------------
(* Ranks in a finite ordered set *)

\* P[e] are the elements of S before e, in a strict total order.
Orders(P, S) ==
    /\ P \in [S -> SUBSET S]
    /\ \A x \in S : x \notin P[x]
    /\ \A x, y, z \in S : x \in P[y] /\ y \in P[z] => x \in P[z]
    /\ \A x, y \in S : x = y \/ x \in P[y] \/ y \in P[x]

Rank(P, e) == Cardinality(P[e])

\* The first n elements of S, and the l after them.
Leading(P, S, n) == {e \in S : Rank(P, e) < n}
Ranked(P, S, n, l) == {e \in S : Rank(P, e) \in n..(n + l - 1)}

\* A set that is not empty has a least element.
LEMMA Least ==
    ASSUME NEW S, IsFiniteSet(S), NEW P, Orders(P, S), NEW T \in SUBSET S, T # {}
    PROVE  \E m \in T : \A y \in T \ {m} : m \in P[y]
<1> DEFINE R == StrictSubsetOrdering(S)
           U == {P[e] : e \in T}
<1>1. IsWellFoundedOn(R, SUBSET S)
  BY FS_StrictSubsetOrderingWellFounded, FS_FiniteSubsetsOfFinite
<1>2. U \subseteq SUBSET S /\ U # {}
  BY DEF Orders
<1>3. PICK X \in U : \A Y \in U : ~ (<<Y, X>> \in R)
  <2> HIDE DEF R, U
  <2> QED BY <1>1, <1>2, WFMin
<1>4. PICK m \in T : X = P[m]
  BY <1>3
<1>5. ASSUME NEW y \in T \ {m}, m \notin P[y]
      PROVE  FALSE
  <2>1. y \in P[m] /\ y \in S /\ m \in S
    BY <1>5 DEF Orders
  <2>2. P[y] \subseteq P[m] /\ P[y] # P[m] /\ P[y] \in SUBSET S /\ P[m] \in SUBSET S
    BY <2>1 DEF Orders
  <2>3. <<P[y], P[m]>> \in R
    BY <2>2 DEF StrictSubsetOrdering
  <2> QED BY <1>3, <1>4, <1>5, <2>3
<1> QED BY <1>5

\* The converse of an order.
LEMMA ConverseOrders ==
    ASSUME NEW S, NEW P, Orders(P, S)
    PROVE  Orders([e \in S |-> {x \in S : e \in P[x]}], S)
  BY DEF Orders

\* It has a greatest one if it is finite.
LEMMA Greatest ==
    ASSUME NEW S, IsFiniteSet(S), NEW P, Orders(P, S), NEW T \in SUBSET S, T # {}
    PROVE  \E m \in T : \A y \in T \ {m} : y \in P[m]
<1> DEFINE C == [e \in S |-> {x \in S : e \in P[x]}]
<1>1. PICK m \in T : \A y \in T \ {m} : m \in C[y]
  <2>1. Orders(C, S)
    BY ConverseOrders
  <2> HIDE DEF C
  <2> QED BY <2>1, Least
<1> QED BY <1>1

\* Ranks are below the size, and order the set as it is.
LEMMA Ranks ==
    ASSUME NEW S, IsFiniteSet(S), NEW P, Orders(P, S)
    PROVE  /\ \A x \in S : Rank(P, x) \in Nat /\ Rank(P, x) < Cardinality(S)
           /\ \A x, y \in S : x \in P[y] <=> Rank(P, x) < Rank(P, y)
<1>1. Cardinality(S) \in Nat
  BY FS_CardinalityType
<1>2. ASSUME NEW x \in S
      PROVE  /\ IsFiniteSet(P[x]) /\ Rank(P, x) \in Nat /\ Rank(P, x) < Cardinality(S)
  <2>1. P[x] \in SUBSET S /\ P[x] # S
    BY DEF Orders
  <2>2. IsFiniteSet(P[x]) /\ Cardinality(P[x]) <= Cardinality(S)
        /\ Cardinality(S) # Cardinality(P[x])
    BY <2>1, FS_Subset
  <2>3. Cardinality(P[x]) \in Nat
    BY <2>2, FS_CardinalityType
  <2> QED BY <1>1, <2>2, <2>3 DEF Rank
<1>3. ASSUME NEW x \in S, NEW y \in S, x \in P[y]
      PROVE  Rank(P, x) < Rank(P, y)
  <2>1. P[x] \in SUBSET P[y] /\ P[x] # P[y]
    BY <1>3 DEF Orders
  <2>2. Cardinality(P[x]) <= Cardinality(P[y]) /\ Cardinality(P[y]) # Cardinality(P[x])
    BY <2>1, <1>2, FS_Subset
  <2> QED BY <2>2, <1>2 DEF Rank
<1>4. ASSUME NEW x \in S, NEW y \in S, Rank(P, x) < Rank(P, y)
      PROVE  x \in P[y]
  <2>1. Rank(P, x) \in Nat /\ Rank(P, y) \in Nat
    BY <1>2
  <2>2. x # y /\ y \notin P[x]
    BY <1>3, <1>4, <2>1
  <2> QED BY <2>2 DEF Orders
<1> QED BY <1>2, <1>3, <1>4

\* Up to n ranks there are n elements, or all.
LEMMA RanksCount ==
    ASSUME NEW S, IsFiniteSet(S), NEW P, Orders(P, S), NEW n \in Nat
    PROVE  /\ IsFiniteSet(Leading(P, S, n)) /\ Cardinality(Leading(P, S, n)) \in Nat
           /\ Cardinality(Leading(P, S, n)) <= n
           /\ (\E e \in S : Rank(P, e) >= n) => Cardinality(Leading(P, S, n)) = n
<1> DEFINE G == {e \in S : Rank(P, e) < n}
<1>1. IsFiniteSet(G) /\ Cardinality(G) \in Nat
  <2>1. IsFiniteSet(G)
    BY FS_Subset
  <2> QED BY <2>1, FS_CardinalityType
<1>2. Cardinality(G) <= n
  <2>1. CASE G = {}
    BY <2>1, FS_EmptySet
  <2>2. CASE G # {}
    <3>1. PICK m \in G : \A y \in G \ {m} : y \in P[m]
      <4>1. G \in SUBSET S
        OBVIOUS
      <4> HIDE DEF G
      <4> QED BY <2>2, <4>1, Greatest
    <3>2. P[m] = G \ {m}
      <4>1. \A y \in P[m] : y \in S /\ y # m /\ Rank(P, y) < Rank(P, m)
        BY Ranks DEF Orders
      <4>2. \A y \in P[m] : Rank(P, y) < n
        BY <4>1, Ranks
      <4> QED BY <3>1, <4>1, <4>2
    <3>3. Cardinality(G \ {m}) = Cardinality(G) - 1
      BY <1>1, <3>1, FS_RemoveElement
    <3>4. m \in S /\ Rank(P, m) < n /\ Rank(P, m) \in Nat
      BY Ranks
    <3>5. Rank(P, m) = Cardinality(G) - 1
      BY <3>2, <3>3 DEF Rank
    <3> HIDE DEF G
    <3> QED BY <1>1, <3>4, <3>5
  <2> QED BY <2>1, <2>2
<1>3. ASSUME NEW e \in S, Rank(P, e) >= n
      PROVE  Cardinality(G) = n
  <2>1. PICK m \in S \ G : \A y \in (S \ G) \ {m} : m \in P[y]
    <3>1. S \ G # {} /\ S \ G \in SUBSET S
      BY <1>3, Ranks
    <3> QED BY <3>1, Least
  <2>2. P[m] = G
    <3>1. P[m] \subseteq G
      <4> SUFFICES ASSUME NEW y \in P[m], y \notin G
                   PROVE  FALSE
        OBVIOUS
      <4>1. y \in S /\ y # m
        BY DEF Orders
      <4>2. m \in P[y]
        BY <2>1, <4>1
      <4> QED BY <4>1, <4>2 DEF Orders
    <3>2. ASSUME NEW y \in G
          PROVE  y \in P[m]
      <4>1. Rank(P, y) < Rank(P, m)
        BY <2>1, Ranks
      <4> QED BY <4>1, Ranks
    <3> QED BY <3>1, <3>2
  <2>3. Rank(P, m) >= n
    BY <2>1, Ranks
  <2> QED BY <1>1, <1>2, <2>2, <2>3 DEF Rank
<1> QED BY <1>1, <1>2, <1>3 DEF Leading

\* A slice is full if anything comes behind it, and empty only if nothing does.
LEMMA SliceSize ==
    ASSUME NEW S, IsFiniteSet(S), NEW P, Orders(P, S), NEW n \in Nat,
           NEW l \in Nat \ {0}
    PROVE  /\ IsFiniteSet(Ranked(P, S, n, l)) /\ Cardinality(Ranked(P, S, n, l)) \in Nat
           /\ Cardinality(Ranked(P, S, n, l)) <= l
           /\ (\E e \in S : Rank(P, e) >= n + l) => Cardinality(Ranked(P, S, n, l)) = l
           /\ (\E e \in S : Rank(P, e) >= n) => Ranked(P, S, n, l) # {}
<1> DEFINE page == Ranked(P, S, n, l)
           G(k) == Leading(P, S, k)
<1>0. \A e \in S : Rank(P, e) \in Nat
  BY Ranks
<1>1. IsFiniteSet(page) /\ Cardinality(page) \in Nat
  <2>1. IsFiniteSet(page)
    BY FS_Subset DEF Ranked
  <2> HIDE DEF page
  <2> QED BY <2>1, FS_CardinalityType
<1>2. /\ IsFiniteSet(G(n)) /\ Cardinality(G(n)) \in Nat /\ Cardinality(G(n)) <= n
      /\ (\E e \in S : Rank(P, e) >= n) => Cardinality(G(n)) = n
  BY RanksCount
<1>3. /\ Cardinality(G(n + l)) \in Nat /\ Cardinality(G(n + l)) <= n + l
      /\ (\E e \in S : Rank(P, e) >= n + l) => Cardinality(G(n + l)) = n + l
  <2>1. n + l \in Nat
    OBVIOUS
  <2> QED BY <2>1, RanksCount
<1>4. Cardinality(G(n + l)) = Cardinality(G(n)) + Cardinality(page)
  <2>1. G(n + l) = G(n) \cup page /\ G(n) \cap page = {}
    BY <1>0 DEF Leading, Ranked
  <2> HIDE DEF G, page
  <2> QED BY <1>1, <1>2, <2>1, FS_Union, FS_EmptySet
<1>5. Cardinality(page) <= l
  <2>1. CASE page = {}
    BY <2>1, FS_EmptySet
  <2>2. CASE page # {}
    <3>1. \E e \in S : Rank(P, e) >= n
      BY <2>2 DEF Ranked
    <3> HIDE DEF G, page
    <3> QED BY <1>1, <1>2, <1>3, <1>4, <3>1
  <2> QED BY <2>1, <2>2
<1>6. ASSUME NEW e \in S, Rank(P, e) >= n + l
      PROVE  Cardinality(page) = l
  <2>1. Rank(P, e) >= n
    BY <1>0, <1>6
  <2> HIDE DEF G, page
  <2> QED BY <1>1, <1>2, <1>3, <1>4, <1>6, <2>1
<1>7. ASSUME NEW e \in S, Rank(P, e) >= n, page = {}
      PROVE  FALSE
  <2>1. Rank(P, e) >= n + l
    BY <1>0, <1>7 DEF Ranked
  <2>2. Cardinality(page) = 0
    BY <1>7, FS_EmptySet
  <2> QED BY <1>6, <2>1, <2>2
<1> QED BY <1>1, <1>5, <1>6, <1>7

-----------------------------------------------------------------------------
(* The state of a walk *)

Items == Events \cup UNION {Docs[e]["action"] : e \in Events}

WalkRecords ==
    [kind : {"none", "search", "paginated", "viewer", "counts", "scroll"},
     pc : {"asking", "counting", "answering", "scrolling", "done", "failed"},
     pg : BOOLEAN, query : {{}} \cup {ask.query : ask \in Asks},
     scope : {{}} \cup {ask.scope : ask \in Asks}, sort : {"asc", "desc"},
     cursor : Events \cup {0}, offset : Nat, total : Nat, page : SUBSET Events,
     given : SUBSET Items, start : SUBSET Events, repeated : BOOLEAN,
     disturbed : BOOLEAN]

\* Each kind has its own steps, and holds a page between its reads only.
KindsOK ==
    /\ walk.pc \in {"counting", "answering"} => walk.kind \in {"search", "paginated"}
    /\ walk.pc \in {"scrolling", "failed"} => walk.kind = "scroll"
    /\ walk.pc \notin {"counting", "answering"} => walk.page = {}
    /\ walk.kind = "viewer" => walk.sort = "desc"

\* What a walk holds is indexed; it asks what clients ask.
WalkBase ==
    /\ IndexTypeOK /\ IsFiniteSet(index)
    /\ walk \in WalkRecords /\ KindsOK
    /\ walk.kind # "none" => \E ask \in Asks : walk.query = ask.query
    /\ walk.kind = "none" => walk = NoWalk
    /\ walk.cursor \in index \cup {0}
    /\ walk.page \subseteq index /\ walk.start \subseteq index
    /\ walk.kind # "counts" => walk.given \subseteq index

\* The order of a walk on S.
Order(S) == [e \in S |-> {x \in S : Precedes(x, e)}]

\* It is that of the canonical times, and of the ids where these are one.
LEMMA OrderIs ==
    ASSUME WalkBase
    PROVE  /\ \A S \in SUBSET Events : Orders(Order(S), S)
           /\ \A x, y, z \in Events : Precedes(x, y) /\ Precedes(y, z) => Precedes(x, z)
           /\ \A x \in Events : ~ Precedes(x, x)
           /\ \A x, y \in Events : x = y \/ Precedes(x, y) \/ Precedes(y, x)
<1>1. \A x \in Events : x \in Nat /\ CanonicalTime(x) \in Nat
  BY CanonicalTimeType, IndexAssumption DEF WalkBase
<1>2. /\ \A x, y, z \in Events : Precedes(x, y) /\ Precedes(y, z) => Precedes(x, z)
      /\ \A x \in Events : ~ Precedes(x, x)
      /\ \A x, y \in Events : x = y \/ Precedes(x, y) \/ Precedes(y, x)
  BY <1>1 DEF Precedes, Older
<1> QED
  <2> HIDE <1>1
  <2>1. ASSUME NEW S \in SUBSET Events
        PROVE  Orders(Order(S), S)
    <3> DEFINE P == Order(S)
    <3>1. \A x \in S : P[x] = {y \in S : Precedes(y, x)}
      BY DEF Order
    <3>2. P \in [S -> SUBSET S]
      BY DEF Order
    <3> HIDE DEF P
    <3>3. Orders(P, S)
      BY <1>2, <3>1, <3>2 DEF Orders
    <3> QED BY <3>3 DEF P
  <2> QED BY <1>2, <2>1

\* A slice holds the ranks it is of.
LEMMA SliceIs ==
    ASSUME WalkBase, NEW S \in SUBSET index, NEW n \in Nat
    PROVE  /\ IsFiniteSet(S) /\ Orders(Order(S), S) /\ Cardinality(S) \in Nat
           /\ Slice(S, Precedes, n)
                = Ranked(Order(S), S, n, PageLimit)
<1>1. IsFiniteSet(S) /\ S \in SUBSET Events
  BY FS_Subset DEF WalkBase, IndexTypeOK
<1> QED
  BY <1>1, OrderIs, FS_CardinalityType DEF Slice, Rank, Order, Ranked

\* What is found is indexed, and stays found but for a rotation of the index that
\* is read.
LEMMA FoundIs ==
    /\ current \subseteq index => Found \subseteq index
    /\ /\ walk'.kind = walk.kind /\ walk'.pg = walk.pg /\ walk'.query = walk.query
       /\ walk'.scope = walk.scope
       => /\ index \subseteq index' /\ current \subseteq current' => Found \subseteq Found'
          /\ index' = index /\ current' \subseteq current => Found' \subseteq Found
          /\ index' = index /\ current' = current => Found' = Found
          /\ index' = index /\ ~ ReadsCurrent(walk.kind, walk.pg) => Found' = Found
  BY DEF Found, Finds, Searched, ReadsCurrent

\* The order does not change with the index.
LEMMA SameOrder ==
    ASSUME UNCHANGED times, walk'.sort = walk.sort
    PROVE  /\ \A x, e : Precedes(x, e)' <=> Precedes(x, e)
           /\ \A x, e : EarlierTime(x, e)' <=> EarlierTime(x, e)
           /\ \A x, e : EarlierId(x, e)' <=> EarlierId(x, e)
           /\ \A e : CanonicalTime(e)' = CanonicalTime(e)
           /\ \A S : Order(S)' = Order(S)
<1>1. \A e : CanonicalTime(e)' = CanonicalTime(e)
  BY DEF times, CanonicalTime
<1>2. \A x, e : Precedes(x, e)' <=> Precedes(x, e)
  BY <1>1 DEF Precedes, Older
<1> QED BY <1>1, <1>2 DEF EarlierTime, EarlierId, Order

\* What a step of the search endpoints can be.
LEMMA WalkCases ==
    ASSUME [Next]_vars
    PROVE  \/ \E e \in Events : IndexEventInWalk(e)
           \/ RotateInWalk
           \/ UNCHANGED <<indexVars, walk>>
           \/ WalkNext /\ UNCHANGED indexVars
  BY DEF Next, vars


\* A page that is not empty has one first and one last edge.
LEMMA Ends ==
    ASSUME WalkBase, NEW page \in SUBSET index, page # {}
    PROVE  /\ LET l == CHOOSE e \in Last(page) : TRUE IN
              l \in page /\ \A x \in page \ {l} : Precedes(x, l)
           /\ LET f == CHOOSE e \in First(page) : TRUE IN
              f \in page /\ \A x \in page \ {f} : Precedes(f, x)
<1>1. IsFiniteSet(page) /\ Orders(Order(page), page) /\ page \in SUBSET page
  BY FS_Subset, OrderIs DEF WalkBase, IndexTypeOK
<1>2. \A e, x \in page : e \in Order(page)[x] <=> Precedes(e, x)
  BY DEF Order
<1>3. \E m \in page : \A y \in page \ {m} : Precedes(y, m)
  BY <1>1, <1>2, Greatest
<1>4. \E m \in page : \A y \in page \ {m} : Precedes(m, y)
  BY <1>1, <1>2, Least
<1> QED BY <1>3, <1>4 DEF First, Last

\* The record keeps its shape from the start ...
LEMMA BaseInit == Init => WalkBase
<1> SUFFICES ASSUME IndexInit, walk = NoWalk
             PROVE  WalkBase
  BY DEF Init, WalkInit
<1>1. IndexTypeOK /\ index = {} /\ IsFiniteSet(index)
  BY FS_EmptySet DEF IndexInit, IndexTypeOK
<1>2. NoWalk \in WalkRecords
  BY DEF NoWalk, WalkRecords
<1>3. /\ NoWalk.kind = "none" /\ NoWalk.cursor = 0 /\ NoWalk.page = {}
      /\ NoWalk.start = {} /\ NoWalk.given = {} /\ NoWalk.pc = "asking"
  BY DEF NoWalk
<1> QED BY <1>1, <1>2, <1>3 DEF WalkBase, KindsOK

\* ... when an event is indexed ...
LEMMA BaseIndexed ==
    ASSUME WalkBase, NEW e \in Events, IndexEventInWalk(e)
    PROVE  WalkBase'
<1>1. /\ index' = index \cup {e} /\ UNCHANGED <<created, received>>
      /\ current' = current \cup {e} /\ late' \subseteq late \cup {e}
  BY DEF IndexEventInWalk, IndexEvent, times
<1>2. IndexTypeOK' /\ IsFiniteSet(index')
  BY <1>1, FS_AddElement DEF WalkBase, IndexTypeOK
<1>3. \/ walk.kind = "none" /\ walk' = walk
      \/ walk.kind # "none" /\ \E b \in BOOLEAN : walk' = [walk EXCEPT !.disturbed = b]
  <2>1. walk.disturbed \in BOOLEAN
    BY DEF WalkBase, WalkRecords
  <2>2. (walk.disturbed \/ Disturbs(e)) \in BOOLEAN
    OBVIOUS
  <2> QED BY <2>2 DEF IndexEventInWalk
<1>4. /\ walk' \in WalkRecords
      /\ \A f \in {"kind", "pc", "sort", "query", "cursor", "page", "start", "given"} :
            walk'[f] = walk[f]
  <2>1. CASE walk' = walk
    BY <2>1 DEF WalkBase
  <2>2. ASSUME NEW b \in BOOLEAN, walk' = [walk EXCEPT !.disturbed = b]
        PROVE  /\ walk' \in WalkRecords
               /\ \A f \in {"kind", "pc", "sort", "query", "cursor", "page", "start", "given"} :
                     walk'[f] = walk[f]
    BY <2>2 DEF WalkBase, WalkRecords
  <2> QED BY <1>3, <2>1, <2>2
<1> QED BY <1>1, <1>2, <1>3, <1>4 DEF WalkBase, KindsOK

\* ... and when the index is rotated.
LEMMA BaseRotated ==
    ASSUME WalkBase, RotateInWalk
    PROVE  WalkBase'
<1>1. UNCHANGED <<created, received, index, late>> /\ current' = {}
  BY DEF RotateInWalk, Rotate, times
<1>2. \/ walk.kind = "none" /\ walk' = walk
      \/ walk.kind # "none" /\ \E b \in BOOLEAN : walk' = [walk EXCEPT !.disturbed = b]
  <2>1. (walk.disturbed \/ ReadsCurrent(walk.kind, walk.pg)) \in BOOLEAN
    OBVIOUS
  <2> QED BY <2>1 DEF RotateInWalk
<1>3. /\ walk' \in WalkRecords
      /\ \A f \in {"kind", "pc", "sort", "query", "cursor", "page", "start", "given"} :
            walk'[f] = walk[f]
  <2>1. CASE walk' = walk
    BY <2>1 DEF WalkBase
  <2>2. ASSUME NEW b \in BOOLEAN, walk' = [walk EXCEPT !.disturbed = b]
        PROVE  /\ walk' \in WalkRecords
               /\ \A f \in {"kind", "pc", "sort", "query", "cursor", "page", "start", "given"} :
                     walk'[f] = walk[f]
    BY <2>2 DEF WalkBase, WalkRecords
  <2> QED BY <1>2, <2>1, <2>2
<1> QED BY <1>1, <1>2, <1>3 DEF WalkBase, KindsOK, IndexTypeOK

\* A step of the walk keeps what it holds in the index.
LEMMA BaseKept ==
    ASSUME WalkBase, UNCHANGED indexVars, walk.kind # "none",
           walk' \in WalkRecords, KindsOK', walk'.kind = walk.kind, walk'.query = walk.query,
           walk'.cursor \in index \cup {0},
           walk'.page \subseteq index, walk'.start \subseteq index,
           walk'.kind # "counts" => walk'.given \subseteq index
    PROVE  WalkBase'
<1>1. UNCHANGED <<created, received, index, current, late>>
  BY DEF indexVars, times
<1> QED BY <1>1 DEF WalkBase, IndexTypeOK

\* What is given is added, and whether it was there.
LEMMA Gives ==
    ASSUME WalkBase, NEW page \in SUBSET Items
    PROVE  /\ Give(page) \in WalkRecords
           /\ Give(page).page = {} /\ Give(page).given = walk.given \cup page
           /\ Give(page).repeated
                = (walk.repeated \/ page \cap walk.given # {})
           /\ \A f \in {"kind", "pc", "pg", "query", "scope", "sort", "cursor", "offset",
                        "total", "start", "disturbed"} : Give(page)[f] = walk[f]
<1>1. walk.repeated \in BOOLEAN /\ (walk.repeated \/ page \cap walk.given # {}) \in BOOLEAN
  BY DEF WalkBase, WalkRecords
<1> QED BY <1>1 DEF WalkBase, WalkRecords, Give

\* A start holds what the query finds then.
LEMMA BaseStarts ==
    ASSUME WalkBase, UNCHANGED indexVars,
           NEW kind \in {"search", "paginated", "viewer", "counts", "scroll"},
           NEW pg \in BOOLEAN, NEW ask \in Asks, NEW sort \in {"asc", "desc"},
           StartWalk(kind, pg, ask.query, ask.scope, sort)
    PROVE  /\ WalkBase'
           /\ walk'.kind = kind /\ walk'.pg = pg /\ walk'.query = ask.query
           /\ walk'.scope = ask.scope
           /\ walk'.pc = "asking" /\ walk'.cursor = 0 /\ walk'.offset = 0 /\ walk'.page = {}
           /\ walk'.given = {} /\ walk'.repeated = FALSE /\ walk'.disturbed = FALSE
           /\ walk'.start = Finds(kind, pg, ask.query, ask.scope) /\ walk'.start = Found'
<1>1. UNCHANGED <<created, received, index, current, late>>
  BY DEF indexVars, times
<1>2. Finds(kind, pg, ask.query, ask.scope) \subseteq index
  BY DEF Finds, Searched, WalkBase, IndexTypeOK
<1>3. /\ walk'.kind = kind /\ walk'.pg = pg /\ walk'.query = ask.query
      /\ walk'.scope = ask.scope
      /\ walk'.pc = "asking" /\ walk'.cursor = 0 /\ walk'.offset = 0 /\ walk'.page = {}
      /\ walk'.given = {} /\ walk'.repeated = FALSE /\ walk'.disturbed = FALSE
      /\ walk'.start = Finds(kind, pg, ask.query, ask.scope)
      /\ walk'.sort = sort /\ (kind = "viewer" => sort = "desc")
      /\ walk' \in WalkRecords
  <2>1. Finds(kind, pg, ask.query, ask.scope) \in SUBSET Events
    BY <1>2 DEF WalkBase, IndexTypeOK
  <2> HIDE DEF Finds
  <2> QED BY <2>1 DEF StartWalk, NoWalk, WalkRecords
<1>4. Finds(kind, pg, ask.query, ask.scope)' = Finds(kind, pg, ask.query, ask.scope)
  BY <1>1 DEF Finds, Searched
<1>5. walk'.start = Found'
  BY <1>1, <1>3, <1>4 DEF Found, Finds, Searched
<1>6. WalkBase'
  BY <1>1, <1>2, <1>3 DEF WalkBase, IndexTypeOK, KindsOK
<1> QED BY <1>3, <1>5, <1>6

\* What lies behind a cursor comes after it in the order of the walk.
LEMMA BehindIs ==
    ASSUME WalkBase, NEW e \in Events, NEW c \in Events
    PROVE  /\ Behind(e, c) <=> Precedes(c, e)
           /\ AtOrBehind(e, c) => ~ EarlierTime(e, c)
           /\ ~ EarlierTime(e, c) => (AtOrBehind(e, c) \/ Precedes(e, c))
           /\ e = c \/ Precedes(c, e) => AtOrBehind(e, c)
<1>0. IndexTypeOK
  BY DEF WalkBase
<1>1. /\ e \in Nat /\ c \in Nat
      /\ CanonicalTime(e) \in Nat /\ CanonicalTime(c) \in Nat
  BY <1>0, CanonicalTimeType, IndexAssumption
<1> QED
  BY <1>1 DEF Behind, EsBehind, PgBehind, AtOrBehind, EsAtOrBehind, PgAtOrBehind,
     EarlierTime, EarlierId, Precedes, Older

\* What a request asks for: all behind the cursor, or all but what it cuts off.
Behinds == {e \in Found : walk.cursor = 0 \/ Behind(e, walk.cursor)}
Rest == {e \in Found : walk.cursor = 0 \/ AtOrBehind(e, walk.cursor)}

\* The page of S from rank n.
Page(S, n) == Ranked(Order(S), S, n, PageLimit)

\* What a request asks for, after a step that leaves the query alone ...
LEMMA AskedPrimed ==
    ASSUME UNCHANGED times, walk'.sort = walk.sort, walk'.pg = walk.pg
    PROVE  /\ Behinds' = {e \in Found' : walk'.cursor = 0 \/ Behind(e, walk'.cursor)}
           /\ Rest' = {e \in Found' : walk'.cursor = 0 \/ AtOrBehind(e, walk'.cursor)}
<1>1. UNCHANGED <<created, received>>
  BY DEF times
<1> QED
  BY <1>1 DEF Behinds, Rest, Behind, EsBehind, PgBehind, AtOrBehind, EsAtOrBehind,
     PgAtOrBehind, EarlierTime, EarlierId, CanonicalTime

\* ... and that it is indexed.
LEMMA AskedIs ==
    ASSUME WalkBase
    PROVE  Found \subseteq index /\ Behinds \subseteq index /\ Rest \subseteq index
  BY FoundIs DEF Behinds, Rest, WalkBase, IndexTypeOK

\* One lemma per action: the fields it sets, those it keeps, and WalkBase.
LEMMA ReadPageIs ==
    ASSUME WalkBase, ReadPage, UNCHANGED indexVars
    PROVE  /\ WalkBase' /\ walk.kind = "search" /\ walk.pc = "asking"
           /\ walk'.pc = "counting" /\ walk'.page = Page(Behinds, 0)
           /\ \A f \in {"kind", "pg", "query", "scope", "sort", "cursor", "offset", "total",
                        "given", "start", "repeated", "disturbed"} : walk'[f] = walk[f]
<1>1. Slice(Behinds, Precedes, 0) = Page(Behinds, 0) /\ Page(Behinds, 0) \subseteq index
  BY AskedIs, SliceIs DEF Page, Ranked
<1>2. /\ walk.kind = "search" /\ walk.pc = "asking"
      /\ walk' = [walk EXCEPT !.pc = "counting", !.page = Slice(Behinds, Precedes, 0)]
  BY DEF ReadPage, Behinds
<1>3. /\ walk'.pc = "counting" /\ walk'.page = Page(Behinds, 0)
      /\ \A f \in {"kind", "pg", "query", "scope", "sort", "cursor", "offset", "total",
                   "given", "start", "repeated", "disturbed"} : walk'[f] = walk[f]
      /\ walk' \in WalkRecords
  BY <1>1, <1>2 DEF WalkBase, WalkRecords, IndexTypeOK
<1>4. WalkBase'
  BY <1>1, <1>2, <1>3, BaseKept DEF WalkBase, KindsOK
<1> QED BY <1>2, <1>3, <1>4

LEMMA ReadPaginatedIs ==
    ASSUME WalkBase, ReadPaginated, UNCHANGED indexVars
    PROVE  /\ WalkBase' /\ walk.kind = "paginated" /\ walk.pc = "asking"
           /\ walk'.pc = "counting" /\ walk'.page = Page(Rest, walk.offset)
           /\ \A f \in {"kind", "pg", "query", "scope", "sort", "cursor", "offset", "total",
                        "given", "start", "repeated", "disturbed"} : walk'[f] = walk[f]
<1>0. walk.offset \in Nat
  BY DEF WalkBase, WalkRecords
<1>1. /\ Slice(Rest, Precedes, walk.offset) = Page(Rest, walk.offset)
      /\ Page(Rest, walk.offset) \subseteq index
  BY <1>0, AskedIs, SliceIs DEF Page, Ranked
<1>2. /\ walk.kind = "paginated" /\ walk.pc = "asking"
      /\ walk' = [walk EXCEPT !.pc = "counting", !.page = Slice(Rest, Precedes, walk.offset)]
  BY DEF ReadPaginated, Rest
<1>3. /\ walk'.pc = "counting" /\ walk'.page = Page(Rest, walk.offset)
      /\ \A f \in {"kind", "pg", "query", "scope", "sort", "cursor", "offset", "total",
                   "given", "start", "repeated", "disturbed"} : walk'[f] = walk[f]
      /\ walk' \in WalkRecords
  BY <1>1, <1>2 DEF WalkBase, WalkRecords, IndexTypeOK
<1>4. WalkBase'
  BY <1>1, <1>2, <1>3, BaseKept DEF WalkBase, KindsOK
<1> QED BY <1>2, <1>3, <1>4

LEMMA CountAllIs ==
    ASSUME WalkBase, CountAll, UNCHANGED indexVars, walk.kind # "none"
    PROVE  /\ WalkBase' /\ walk.pc = "counting" /\ walk'.pc = "answering"
           /\ walk'.total = IF walk.kind = "paginated" /\ walk.cursor # 0
                            THEN walk.total ELSE Cardinality(Found)
           /\ \A f \in {"kind", "pg", "query", "scope", "sort", "cursor", "offset", "page",
                        "given", "start", "repeated", "disturbed"} : walk'[f] = walk[f]
<1>1. Cardinality(Found) \in Nat
  BY AskedIs, SliceIs
<1>2. /\ walk.pc = "counting"
      /\ \E n \in Nat :
            /\ n = IF walk.kind = "paginated" /\ walk.cursor # 0
                   THEN walk.total ELSE Cardinality(Found)
            /\ walk' = [walk EXCEPT !.pc = "answering", !.total = n]
  BY <1>1 DEF CountAll, WalkBase, WalkRecords
<1>3. /\ walk'.pc = "answering"
      /\ walk'.total = IF walk.kind = "paginated" /\ walk.cursor # 0
                       THEN walk.total ELSE Cardinality(Found)
      /\ \A f \in {"kind", "pg", "query", "scope", "sort", "cursor", "offset", "page",
                   "given", "start", "repeated", "disturbed"} : walk'[f] = walk[f]
      /\ walk' \in WalkRecords
  BY <1>2 DEF WalkBase, WalkRecords
<1>4. WalkBase'
  BY <1>2, <1>3, BaseKept DEF WalkBase, KindsOK
<1> QED BY <1>2, <1>3, <1>4

\* Events are items: what a page adds to the given may be there.
LEMMA PagesAreItems ==
    ASSUME WalkBase, NEW page \in SUBSET index
    PROVE  page \in SUBSET Items
  BY DEF WalkBase, IndexTypeOK, Items

LEMMA AnswerSearchIs ==
    ASSUME WalkBase, AnswerSearch, UNCHANGED indexVars
    PROVE  /\ WalkBase' /\ walk.kind = "search" /\ walk.pc = "answering"
           /\ walk'.pc = IF Cardinality(walk.page) = PageLimit THEN "asking" ELSE "done"
           /\ walk.page = {} => walk'.cursor = walk.cursor
           /\ walk.page # {} => /\ walk'.cursor \in walk.page
                                /\ \A x \in walk.page \ {walk'.cursor} :
                                      Precedes(x, walk'.cursor)
           /\ walk'.page = {} /\ walk'.given = walk.given \cup walk.page
           /\ walk'.repeated = (walk.repeated \/ walk.page \cap walk.given # {})
           /\ \A f \in {"kind", "pg", "query", "scope", "sort", "offset", "total", "start",
                        "disturbed"} : walk'[f] = walk[f]
<1> DEFINE g == Give(walk.page)
           l == CHOOSE e \in Last(walk.page) : TRUE
           c == IF walk.page = {} THEN g.cursor ELSE l
<1>1. /\ g \in WalkRecords /\ g.page = {} /\ g.given = walk.given \cup walk.page
      /\ g.repeated = (walk.repeated \/ walk.page \cap walk.given # {})
      /\ \A f \in {"kind", "pc", "pg", "query", "scope", "sort", "cursor", "offset",
                   "total", "start", "disturbed"} : g[f] = walk[f]
  BY PagesAreItems, Gives DEF WalkBase
<1>2. /\ walk.page = {} => c = walk.cursor
      /\ walk.page # {} => c \in walk.page /\ \A x \in walk.page \ {c} : Precedes(x, c)
      /\ c \in index \cup {0} /\ c \in Events \cup {0}
  <2> HIDE DEF g
  <2>1. walk.page # {} => l \in walk.page /\ \A x \in walk.page \ {l} : Precedes(x, l)
    BY Ends DEF WalkBase
  <2> HIDE DEF l
  <2> QED BY <1>1, <2>1 DEF WalkBase, IndexTypeOK
<1> DEFINE s == IF Cardinality(walk.page) = PageLimit THEN "asking" ELSE "done"
<1>3. /\ walk.kind = "search" /\ walk.pc = "answering"
      /\ walk' = [g EXCEPT !.pc = s, !.cursor = c] /\ s \in {"asking", "done"}
  BY DEF AnswerSearch
<1> HIDE DEF g, c, l, s
<1>4. /\ walk'.pc = s
      /\ walk'.cursor = c /\ walk'.page = {} /\ walk'.given = walk.given \cup walk.page
      /\ walk'.repeated = (walk.repeated \/ walk.page \cap walk.given # {})
      /\ \A f \in {"kind", "pg", "query", "scope", "sort", "offset", "total", "start",
                   "disturbed"} : walk'[f] = walk[f]
      /\ walk' \in WalkRecords
  BY <1>1, <1>2, <1>3 DEF WalkRecords
<1>5. WalkBase'
  BY <1>2, <1>3, <1>4, BaseKept DEF WalkBase, KindsOK
<1> QED BY <1>2, <1>3, <1>4, <1>5 DEF s

LEMMA AnswerPaginatedIs ==
    ASSUME WalkBase, AnswerPaginated, UNCHANGED indexVars
    PROVE  /\ WalkBase' /\ walk.kind = "paginated" /\ walk.pc = "answering"
           /\ Edges \subseteq walk.page
           /\ walk'.pc = IF Edges = {} \/ walk.offset + PageLimit >= walk.total
                         THEN "done" ELSE "asking"
           /\ walk'.offset = walk.offset + PageLimit
           /\ walk.cursor # 0 \/ Edges = {} => walk'.cursor = walk.cursor
           /\ walk.cursor = 0 /\ Edges # {} =>
                 /\ walk'.cursor \in Edges
                 /\ \A x \in Edges \ {walk'.cursor} : Precedes(walk'.cursor, x)
           /\ walk'.page = {} /\ walk'.given = walk.given \cup Edges
           /\ walk'.repeated = (walk.repeated \/ Edges \cap walk.given # {})
           /\ \A f \in {"kind", "pg", "query", "scope", "sort", "total", "start",
                        "disturbed"} : walk'[f] = walk[f]
<1> DEFINE E == Edges
           g == Give(E)
           l == CHOOSE e \in First(E) : TRUE
           c == IF g.cursor # 0 \/ E = {} THEN g.cursor ELSE l
           s == IF E = {} \/ walk.offset + PageLimit >= walk.total THEN "done" ELSE "asking"
           n == walk.offset + PageLimit
<1>0. E \subseteq walk.page /\ E \in SUBSET index
  BY DEF Edges, WalkBase
<1>1. /\ g \in WalkRecords /\ g.page = {} /\ g.given = walk.given \cup E
      /\ g.repeated = (walk.repeated \/ E \cap walk.given # {})
      /\ \A f \in {"kind", "pc", "pg", "query", "scope", "sort", "cursor", "offset",
                   "total", "start", "disturbed"} : g[f] = walk[f]
  <2> HIDE DEF E
  <2> QED BY <1>0, PagesAreItems, Gives
<1>3. /\ walk.kind = "paginated" /\ walk.pc = "answering"
      /\ walk' = [g EXCEPT !.pc = s, !.offset = n, !.cursor = c]
      /\ s \in {"asking", "done"} /\ n \in Nat
  <2>1. g.offset = walk.offset /\ walk.offset \in Nat
    BY <1>1 DEF WalkBase, WalkRecords
  <2> HIDE DEF g, c, s, E
  <2>2. /\ walk.kind = "paginated" /\ walk.pc = "answering"
        /\ walk' = [g EXCEPT !.pc = s, !.offset = @ + PageLimit, !.cursor = c]
    BY DEF AnswerPaginated, g, c, s, E, l
  <2> QED BY <2>1, <2>2, WalkAssumption DEF s
<1> HIDE DEF g, E, s, n
<1>2. /\ walk.cursor # 0 \/ E = {} => c = walk.cursor
      /\ walk.cursor = 0 /\ E # {} => c \in E /\ \A x \in E \ {c} : Precedes(c, x)
      /\ c \in index \cup {0} /\ c \in Events \cup {0}
  <2>1. E # {} => l \in E /\ \A x \in E \ {l} : Precedes(l, x)
    BY <1>0, Ends
  <2> HIDE DEF l
  <2> QED BY <1>0, <1>1, <2>1 DEF WalkBase, IndexTypeOK
<1> HIDE DEF c, l
<1>4. /\ walk'.pc = s /\ walk'.offset = n
      /\ walk'.cursor = c /\ walk'.page = {} /\ walk'.given = walk.given \cup E
      /\ walk'.repeated = (walk.repeated \/ E \cap walk.given # {})
      /\ \A f \in {"kind", "pg", "query", "scope", "sort", "total", "start",
                   "disturbed"} : walk'[f] = walk[f]
      /\ walk' \in WalkRecords
  BY <1>1, <1>2, <1>3 DEF WalkRecords
<1>5. WalkBase'
  BY <1>0, <1>2, <1>3, <1>4, BaseKept DEF WalkBase, KindsOK
<1> QED BY <1>0, <1>2, <1>3, <1>4, <1>5 DEF s, E, n

LEMMA ReadOffsetIs ==
    ASSUME WalkBase, ReadOffset, UNCHANGED indexVars
    PROVE  /\ WalkBase' /\ walk.kind = "viewer" /\ walk.pc = "asking"
           /\ walk'.pc = IF walk.offset + PageLimit >= Cardinality(Found)
                         THEN "done" ELSE "asking"
           /\ walk'.offset = walk.offset + PageLimit
           /\ \E page, before \in SUBSET Found :
                 /\ IsOffsetPage(page, before)
                 /\ walk'.given = walk.given \cup page
                 /\ walk'.repeated = (walk.repeated \/ page \cap walk.given # {})
           /\ \A f \in {"kind", "pg", "query", "scope", "sort", "cursor", "total", "page",
                        "start", "disturbed"} : walk'[f] = walk[f]
<1> DEFINE s == IF walk.offset + PageLimit >= Cardinality(Found) THEN "done" ELSE "asking"
           n == walk.offset + PageLimit
<1>1. PICK page \in SUBSET Found, before \in SUBSET Found :
         /\ IsOffsetPage(page, before)
         /\ walk' = [Give(page) EXCEPT !.pc = s, !.offset = @ + PageLimit]
  BY DEF ReadOffset
<1> DEFINE g == Give(page)
<1>2. page \subseteq index /\ page \in SUBSET Items
  BY AskedIs, PagesAreItems
<1>3. /\ g \in WalkRecords /\ g.page = {} /\ g.given = walk.given \cup page
      /\ g.repeated = (walk.repeated \/ page \cap walk.given # {})
      /\ \A f \in {"kind", "pc", "pg", "query", "scope", "sort", "cursor", "offset",
                   "total", "start", "disturbed"} : g[f] = walk[f]
  BY <1>2, Gives
<1>4. /\ walk.kind = "viewer" /\ walk.pc = "asking" /\ s \in {"asking", "done"}
      /\ walk' = [g EXCEPT !.pc = s, !.offset = n] /\ n \in Nat
  <2>1. g.offset = walk.offset /\ walk.offset \in Nat
    BY <1>3 DEF WalkBase, WalkRecords
  <2>2. walk.kind = "viewer" /\ walk.pc = "asking"
    BY DEF ReadOffset
  <2>3. walk' = [g EXCEPT !.pc = s, !.offset = @ + PageLimit]
    BY <1>1
  <2> HIDE DEF g
  <2> QED BY <2>1, <2>2, <2>3, WalkAssumption
<1> HIDE DEF g, s, n
<1>5. /\ walk'.pc = s /\ walk'.offset = n
      /\ walk'.page = {} /\ walk'.given = walk.given \cup page
      /\ walk'.repeated = (walk.repeated \/ page \cap walk.given # {})
      /\ \A f \in {"kind", "pg", "query", "scope", "sort", "cursor", "total", "start",
                   "disturbed"} : walk'[f] = walk[f]
      /\ walk' \in WalkRecords
  BY <1>3, <1>4 DEF WalkRecords
<1>6. walk.page = {}
  BY <1>4 DEF WalkBase, KindsOK
<1>7. WalkBase'
  BY <1>2, <1>4, <1>5, BaseKept DEF WalkBase, KindsOK
<1> QED BY <1>1, <1>4, <1>5, <1>6, <1>7 DEF s, n

LEMMA CountsIs ==
    ASSUME WalkBase, Counts, UNCHANGED indexVars
    PROVE  LET page == Slice(Buckets, LargerBucket, walk.offset) IN
           /\ WalkBase' /\ walk.kind = "counts" /\ walk.pc = "asking"
           /\ walk'.pc = IF walk.offset + PageLimit < Cardinality(Buckets)
                         THEN "asking" ELSE "done"
           /\ walk'.offset = walk.offset + PageLimit
           /\ walk'.given = walk.given \cup page
           /\ walk'.repeated = (walk.repeated \/ page \cap walk.given # {})
           /\ \A f \in {"kind", "pg", "query", "scope", "sort", "cursor", "total", "page",
                        "start", "disturbed"} : walk'[f] = walk[f]
<1> DEFINE s == IF walk.offset + PageLimit < Cardinality(Buckets) THEN "asking" ELSE "done"
           page == Slice(Buckets, LargerBucket, walk.offset)
           g == Give(page)
           n == walk.offset + PageLimit
<1>1. page \in SUBSET Items
  <2>1. page \subseteq Buckets
    BY DEF Slice
  <2>2. Buckets \subseteq Actions(Found) /\ Found \subseteq Events
    BY AskedIs DEF Buckets, WalkBase, IndexTypeOK
  <2>3. Actions(Found) \subseteq Items
    BY <2>2 DEF Actions, Items
  <2> QED BY <2>1, <2>2, <2>3
<1>2. /\ walk.kind = "counts" /\ walk.pc = "asking" /\ s \in {"asking", "done"}
      /\ walk' = [g EXCEPT !.pc = s, !.offset = @ + PageLimit]
  BY DEF Counts
<1> HIDE DEF page
<1>3. /\ g \in WalkRecords /\ g.page = {} /\ g.given = walk.given \cup page
      /\ g.repeated = (walk.repeated \/ page \cap walk.given # {})
      /\ \A f \in {"kind", "pc", "pg", "query", "scope", "sort", "cursor", "offset",
                   "total", "start", "disturbed"} : g[f] = walk[f]
  BY <1>1, Gives
<1> HIDE DEF g, s
<1>4. walk' = [g EXCEPT !.pc = s, !.offset = n] /\ n \in Nat /\ s \in {"asking", "done"}
  <2>1. g.offset = walk.offset /\ walk.offset \in Nat
    BY <1>3 DEF WalkBase, WalkRecords
  <2> QED BY <1>2, <2>1, WalkAssumption
<1> HIDE DEF n
<1>5. /\ walk'.pc = s /\ walk'.offset = n
      /\ walk'.page = {} /\ walk'.given = walk.given \cup page
      /\ walk'.repeated = (walk.repeated \/ page \cap walk.given # {})
      /\ \A f \in {"kind", "pg", "query", "scope", "sort", "cursor", "total", "start",
                   "disturbed"} : walk'[f] = walk[f]
      /\ walk' \in WalkRecords
  BY <1>3, <1>4 DEF WalkRecords
<1>6. walk.page = {}
  BY <1>2 DEF WalkBase, KindsOK
<1>7. WalkBase'
  BY <1>2, <1>5, BaseKept DEF WalkBase, KindsOK
<1> QED BY <1>2, <1>5, <1>6, <1>7 DEF s, page, n

LEMMA OpenScrollIs ==
    ASSUME WalkBase, OpenScroll, UNCHANGED indexVars
    PROVE  LET page == IF walk.pg THEN Found ELSE Page(Found, 0) IN
           /\ WalkBase' /\ walk.kind = "scroll" /\ walk.pc = "asking"
           /\ walk'.pc = IF walk.pg THEN "done" ELSE "scrolling"
           /\ walk'.given = walk.given \cup page
           /\ walk'.repeated = (walk.repeated \/ page \cap walk.given # {})
           /\ walk'.start = Found
           /\ \A f \in {"kind", "pg", "query", "scope", "sort", "cursor", "offset", "total",
                        "page", "disturbed"} : walk'[f] = walk[f]
<1> DEFINE s == IF walk.pg THEN "done" ELSE "scrolling"
           page == IF walk.pg THEN Found ELSE Page(Found, 0)
           g == Give(page)
<1>1. /\ Found \in SUBSET index /\ Found \in SUBSET Events
      /\ Slice(Found, Precedes, 0) = Page(Found, 0) /\ page \in SUBSET index
  BY AskedIs, SliceIs DEF WalkBase, IndexTypeOK, Page, Ranked
<1>2. /\ walk.kind = "scroll" /\ walk.pc = "asking" /\ s \in {"done", "scrolling"}
      /\ walk' = [g EXCEPT !.pc = s, !.start = Found]
  BY <1>1 DEF OpenScroll
<1> HIDE DEF page
<1>3. /\ g \in WalkRecords /\ g.page = {} /\ g.given = walk.given \cup page
      /\ g.repeated = (walk.repeated \/ page \cap walk.given # {})
      /\ \A f \in {"kind", "pc", "pg", "query", "scope", "sort", "cursor", "offset",
                   "total", "start", "disturbed"} : g[f] = walk[f]
  BY <1>1, PagesAreItems, Gives
<1> HIDE DEF g, s
<1>4. /\ walk'.pc = s /\ walk'.start = Found
      /\ walk'.page = {} /\ walk'.given = walk.given \cup page
      /\ walk'.repeated = (walk.repeated \/ page \cap walk.given # {})
      /\ \A f \in {"kind", "pg", "query", "scope", "sort", "cursor", "offset", "total",
                   "disturbed"} : walk'[f] = walk[f]
      /\ walk' \in WalkRecords
  <2> HIDE DEF Found
  <2> QED BY <1>1, <1>2, <1>3 DEF WalkRecords
<1>5. walk.page = {}
  BY <1>2 DEF WalkBase, KindsOK
<1>6. WalkBase'
  BY <1>1, <1>2, <1>4, BaseKept DEF WalkBase, KindsOK
<1> QED BY <1>2, <1>4, <1>5, <1>6 DEF s, page

LEMMA NextScrollIs ==
    ASSUME WalkBase, NextScroll, UNCHANGED indexVars
    PROVE  LET page == Page(walk.start, Cardinality(walk.given)) IN
           /\ WalkBase' /\ walk.pc = "scrolling" /\ walk.kind = "scroll"
           /\ walk'.pc = IF page = {} THEN "done" ELSE "scrolling"
           /\ walk'.given = walk.given \cup page
           /\ walk'.repeated = (walk.repeated \/ page \cap walk.given # {})
           /\ \A f \in {"kind", "pg", "query", "scope", "sort", "cursor", "offset", "total",
                        "page", "start", "disturbed"} : walk'[f] = walk[f]
<1> DEFINE page == Page(walk.start, Cardinality(walk.given))
           s == IF page = {} THEN "done" ELSE "scrolling"
           g == Give(page)
<1>1. /\ page = Slice(walk.start, Precedes, Cardinality(walk.given))
      /\ page \in SUBSET index
  <2>1. IsFiniteSet(walk.given)
    BY FS_Subset DEF WalkBase, KindsOK, NextScroll
  <2> QED BY <2>1, FS_CardinalityType, SliceIs DEF WalkBase, Page, Ranked
<1>2. /\ walk.pc = "scrolling" /\ s \in {"done", "scrolling"}
      /\ walk' = [g EXCEPT !.pc = s]
  BY <1>1 DEF NextScroll
<1>3. walk.kind = "scroll" /\ walk.page = {}
  BY <1>2 DEF WalkBase, KindsOK
<1> HIDE DEF page
<1>4. /\ g \in WalkRecords /\ g.page = {} /\ g.given = walk.given \cup page
      /\ g.repeated = (walk.repeated \/ page \cap walk.given # {})
      /\ \A f \in {"kind", "pc", "pg", "query", "scope", "sort", "cursor", "offset",
                   "total", "start", "disturbed"} : g[f] = walk[f]
  BY <1>1, PagesAreItems, Gives
<1> HIDE DEF g, s
<1>5. /\ walk'.pc = s /\ walk'.page = {} /\ walk'.given = walk.given \cup page
      /\ walk'.repeated = (walk.repeated \/ page \cap walk.given # {})
      /\ \A f \in {"kind", "pg", "query", "scope", "sort", "cursor", "offset", "total",
                   "start", "disturbed"} : walk'[f] = walk[f]
      /\ walk' \in WalkRecords
  BY <1>2, <1>4 DEF WalkRecords
<1>6. WalkBase'
  BY <1>1, <1>2, <1>3, <1>5, BaseKept DEF WalkBase, KindsOK
<1> QED BY <1>2, <1>3, <1>5, <1>6 DEF s, page

LEMMA ScrollExpiresIs ==
    ASSUME WalkBase, ScrollExpires, UNCHANGED indexVars
    PROVE  /\ WalkBase' /\ walk.pc = "scrolling" /\ walk.kind = "scroll"
           /\ walk'.pc = "failed"
           /\ \A f \in {"kind", "pg", "query", "scope", "sort", "cursor", "offset", "total",
                        "page", "given", "start", "repeated", "disturbed"} : walk'[f] = walk[f]
<1>1. walk.pc = "scrolling" /\ walk.kind = "scroll" /\ walk.page = {}
  BY DEF ScrollExpires, WalkBase, KindsOK
<1>2. /\ walk'.pc = "failed"
      /\ \A f \in {"kind", "pg", "query", "scope", "sort", "cursor", "offset", "total",
                   "page", "given", "start", "repeated", "disturbed"} : walk'[f] = walk[f]
      /\ walk' \in WalkRecords
  BY DEF ScrollExpires, WalkBase, WalkRecords
<1>3. WalkBase'
  BY <1>1, <1>2, BaseKept DEF WalkBase, KindsOK
<1> QED BY <1>1, <1>2, <1>3

-----------------------------------------------------------------------------
(* Its steps *)

\* An indexed event changes no more of a walk than whether it is disturbed.
LEMMA IndexedIs ==
    ASSUME WalkBase, NEW e \in Events, IndexEventInWalk(e), walk.kind # "none"
    PROVE  /\ WalkBase' /\ e \notin index /\ index' = index \cup {e} /\ UNCHANGED times
           /\ walk'.disturbed = (walk.disturbed \/ Disturbs(e))
           /\ \A f \in {"kind", "pc", "pg", "query", "scope", "sort", "cursor", "offset",
                        "total", "page", "given", "start", "repeated"} : walk'[f] = walk[f]
           /\ Found \subseteq Found' /\ Found' \subseteq Found \cup {e}
           /\ \A x, y : Precedes(x, y)' <=> Precedes(x, y)
           /\ \A S : Order(S)' = Order(S)
<1>1. /\ e \notin index /\ index' = index \cup {e} /\ current' = current \cup {e}
      /\ UNCHANGED times
      /\ walk' = [walk EXCEPT !.disturbed = @ \/ Disturbs(e)]
  BY DEF IndexEventInWalk, IndexEvent
<1>2. /\ walk'.disturbed = (walk.disturbed \/ Disturbs(e))
      /\ \A f \in {"kind", "pc", "pg", "query", "scope", "sort", "cursor", "offset",
                   "total", "page", "given", "start", "repeated"} : walk'[f] = walk[f]
  BY <1>1 DEF WalkBase, WalkRecords
<1>3. Found \subseteq Found' /\ Found' \subseteq Found \cup {e}
  BY <1>1, <1>2, FoundIs DEF Found, Finds, Searched
<1> QED BY <1>1, <1>2, <1>3, BaseIndexed, SameOrder

\* A rotation changes no more of a walk than that, and disturbs one that reads the
\* write alias: it hides what was found.
LEMMA RotatedIs ==
    ASSUME WalkBase, RotateInWalk, walk.kind # "none"
    PROVE  /\ UNCHANGED <<index, times>> /\ Found' \subseteq Found
           /\ \A f \in {"kind", "pc", "pg", "query", "scope", "sort", "cursor", "offset",
                        "total", "page", "given", "start", "repeated"} : walk'[f] = walk[f]
           /\ walk'.disturbed \/ (walk' = walk /\ Found' = Found)
           /\ \A x, y : Precedes(x, y)' <=> Precedes(x, y)
<1>1. /\ UNCHANGED <<index, times>> /\ current' = {}
      /\ walk' = [walk EXCEPT !.disturbed = @ \/ ReadsCurrent(walk.kind, walk.pg)]
  BY DEF RotateInWalk, Rotate
<1>2. /\ walk'.disturbed = (walk.disturbed \/ ReadsCurrent(walk.kind, walk.pg))
      /\ \A f \in {"kind", "pc", "pg", "query", "scope", "sort", "cursor", "offset",
                   "total", "page", "given", "start", "repeated"} : walk'[f] = walk[f]
  BY <1>1 DEF WalkBase, WalkRecords
<1>3. Found' \subseteq Found
  BY <1>1, <1>2, FoundIs
<1>4. ASSUME ~ walk'.disturbed
      PROVE  walk' = walk /\ Found' = Found
  <2>1. ~ walk.disturbed /\ ~ ReadsCurrent(walk.kind, walk.pg)
    BY <1>2, <1>4
  <2>2. walk.disturbed = FALSE /\ (walk.disturbed \/ ReadsCurrent(walk.kind, walk.pg)) = FALSE
    BY <2>1 DEF WalkBase, WalkRecords
  <2>3. walk' = [walk EXCEPT !.disturbed = FALSE]
    BY <1>1, <2>2
  <2>4. walk' = walk
    BY <2>2, <2>3 DEF WalkBase, WalkRecords
  <2> QED BY <1>1, <2>1, <2>4, FoundIs
<1> QED BY <1>1, <1>2, <1>3, <1>4, SameOrder

\* The steps of a walk that has a kind.
WalkStep ==
    \/ ReadPage     \/ ReadPaginated   \/ CountAll
    \/ AnswerSearch \/ AnswerPaginated \/ ReadOffset \/ Counts
    \/ OpenScroll   \/ NextScroll      \/ ScrollExpires

Starts(kind, pg, ask, sort) ==
    StartWalk(kind, pg, ask.query, ask.scope, sort)

\* Only StartWalk has no kind yet.
LEMMA StepHasKind ==
    ASSUME WalkBase, WalkStep
    PROVE  walk.kind # "none"
<1>1. walk.kind = "none" => walk.pc = "asking"
  BY DEF WalkBase, NoWalk
<1> QED
  BY <1>1 DEF WalkStep, ReadPage, ReadPaginated, CountAll, AnswerSearch, AnswerPaginated,
     ReadOffset, Counts, OpenScroll, NextScroll, ScrollExpires

\* What a walk depends on stays as it is.
Quiet == UNCHANGED <<index, times, walk>> /\ Found' = Found

\* A step indexes an event, hides what was found, starts a walk, goes on with one or
\* does none of these.
LEMMA StepCases ==
    ASSUME WalkBase, [Next]_vars
    PROVE  \/ walk.kind # "none" /\ \E e \in Events : IndexEventInWalk(e)
           \/ walk.kind = "none" /\ walk'.kind = "none"
           \/ walk.kind # "none" /\ RotateInWalk /\ walk'.disturbed
           \/ Quiet
           \/ /\ UNCHANGED indexVars
              /\ \E kind \in {"search", "paginated", "viewer", "counts", "scroll"},
                    pg \in BOOLEAN, ask \in Asks, sort \in {"asc", "desc"} :
                       Starts(kind, pg, ask, sort)
           \/ UNCHANGED indexVars /\ walk.kind # "none" /\ WalkStep
<1>1. CASE \E e \in Events : IndexEventInWalk(e)
  BY <1>1 DEF IndexEventInWalk
<1>2. CASE WalkNext /\ UNCHANGED indexVars
  BY <1>2, StepHasKind DEF WalkNext, WalkStep, Starts
<1>3. CASE RotateInWalk
  <2>1. walk.kind = "none" => walk' = walk
    BY <1>3 DEF RotateInWalk
  <2> QED BY <1>3, <2>1, RotatedIs DEF Quiet
<1>4. CASE UNCHANGED <<indexVars, walk>>
  <2>1. UNCHANGED <<index, current, times, walk>>
    BY <1>4 DEF indexVars
  <2> QED BY <2>1, FoundIs DEF Quiet
<1> QED BY <1>1, <1>2, <1>3, <1>4, WalkCases

\* So every step keeps the record in shape,
LEMMA BaseStep ==
    ASSUME WalkBase, [Next]_vars
    PROVE  WalkBase'
<1>1. CASE \E e \in Events : IndexEventInWalk(e)
  BY <1>1, BaseIndexed
<1>2. CASE UNCHANGED <<indexVars, walk>>
  <2>1. UNCHANGED <<created, received, index, current, late, walk>>
    BY <1>2 DEF indexVars, times
  <2> QED BY <2>1 DEF WalkBase, IndexTypeOK, KindsOK
<1>3. ASSUME UNCHANGED indexVars,
             NEW kind \in {"search", "paginated", "viewer", "counts", "scroll"},
             NEW pg \in BOOLEAN, NEW ask \in Asks, NEW sort \in {"asc", "desc"},
             Starts(kind, pg, ask, sort)
      PROVE  WalkBase'
  BY <1>3, BaseStarts DEF Starts
<1>4. CASE UNCHANGED indexVars /\ walk.kind # "none" /\ WalkStep
  BY <1>4, ReadPageIs, ReadPaginatedIs, CountAllIs, AnswerSearchIs, AnswerPaginatedIs,
     ReadOffsetIs, CountsIs, OpenScrollIs, NextScrollIs, ScrollExpiresIs DEF WalkStep
<1>5. CASE RotateInWalk
  BY <1>5, BaseRotated
<1> QED
  BY <1>1, <1>2, <1>3, <1>4, <1>5, WalkCases, StepHasKind DEF WalkNext, WalkStep, Starts

\* and every reachable state has it.
LEMMA BaseInvariance == Spec => []WalkBase
  BY BaseInit, BaseStep, PTL DEF Spec

-----------------------------------------------------------------------------
(* What a walk has at each step *)

\* The first n of S.
UpTo(S, n) == Leading(Order(S), S, n)

\* What was found at the start and no rotation has hidden.
Still == walk.start \cap Found

SearchWalk ==
    walk.kind = "search" =>
        /\ ~ walk.repeated
        /\ walk.cursor = 0 => walk.given = {}
        /\ walk.cursor # 0 => \A e \in walk.given : ~ Precedes(walk.cursor, e)
        /\ walk.pc = "asking" => Still \subseteq walk.given \cup Behinds
        /\ walk.pc \in {"counting", "answering"} =>
              /\ walk.page \cap walk.given = {}
              /\ walk.cursor # 0 => \A e \in walk.page : Precedes(walk.cursor, e)
              /\ \A e \in Still \ (walk.given \cup walk.page) :
                    /\ Cardinality(walk.page) = PageLimit
                    /\ \A x \in walk.page : Precedes(x, e)
        /\ walk.pc = "done" => Still \subseteq walk.given

ScrollWalk ==
    walk.kind = "scroll" =>
        /\ ~ walk.repeated
        /\ walk.pc = "asking" => walk.given = {}
        /\ walk.pc = "scrolling" => walk.given = UpTo(walk.start, Cardinality(walk.given))
        /\ walk.pc = "done" => walk.start \subseteq walk.given

\* The rank in what a request by offset asks for.
RestRank(e) == Rank(Order(Rest), e)

BucketOrder(S) == [a \in S |-> {b \in S : LargerBucket(b, a)}]

CountsWalk ==
    walk.kind = "counts" /\ ~ walk.disturbed =>
        /\ walk.start = Found
        /\ Cardinality(Actions(Found)) <= MaxBuckets =>
              /\ ~ walk.repeated
              /\ walk.given = {a \in Actions(Found) :
                                  Rank(BucketOrder(Actions(Found)), a) < walk.offset}
              /\ walk.pc = "done" => walk.given = Actions(Found)

\* The page is next, and has all before any of its edges; what was there at the
\* start is given, in it or behind it.
PageOK ==
    /\ walk.page \subseteq Page(Rest, walk.offset)
    /\ \A p \in walk.page, x \in Rest :
          Precedes(x, p) => x \in walk.page \/ RestRank(x) < walk.offset
    /\ \A e \in walk.start \ (walk.given \cup walk.page) :
          RestRank(e) >= walk.offset + PageLimit /\ walk.page # {}

PaginatedWalk ==
    walk.kind = "paginated" /\ ~ walk.disturbed =>
        /\ ~ walk.repeated /\ walk.start \subseteq Rest
        /\ \A x \in Rest \ walk.start, e \in walk.start : ~ Precedes(x, e)
        /\ walk.pc # "done" =>
              /\ walk.cursor = 0 => walk.offset = 0
              /\ walk.given \subseteq UpTo(Rest, walk.offset)
        /\ walk.pc = "asking" =>
              \A e \in walk.start \ walk.given : RestRank(e) >= walk.offset
        /\ walk.pc \in {"counting", "answering"} => PageOK
        /\ walk.pc = "answering" \/ walk.cursor # 0 => walk.total >= Cardinality(walk.start)
        /\ walk.pc = "done" => walk.start \subseteq walk.given

ViewerWalk ==
    walk.kind = "viewer" /\ DistinctTimes /\ ~ walk.disturbed =>
        /\ ~ walk.repeated /\ walk.start \subseteq Rest /\ walk.cursor = 0
        /\ walk.pc = "asking" =>
              /\ walk.given \subseteq UpTo(Rest, walk.offset)
              /\ \A e \in walk.start \ walk.given : RestRank(e) >= walk.offset
        /\ walk.pc = "done" => walk.start \subseteq walk.given

\* The order of a walk is that of the ranks; what pages and prefixes hold.
LEMMA PageHolds ==
    ASSUME WalkBase, NEW S \in SUBSET index, NEW n \in Nat
    PROVE  /\ IsFiniteSet(S) /\ Cardinality(S) \in Nat
           /\ \A x \in S : /\ Rank(Order(S), x) \in Nat
                           /\ Rank(Order(S), x) < Cardinality(S)
           /\ \A x, y \in S : Precedes(x, y) <=> Rank(Order(S), x) < Rank(Order(S), y)
           /\ IsFiniteSet(Page(S, n)) /\ Cardinality(Page(S, n)) <= PageLimit
           /\ Cardinality(Page(S, n)) \in Nat
           /\ \A e \in S : /\ Rank(Order(S), e) >= n + PageLimit =>
                                 Cardinality(Page(S, n)) = PageLimit
                           /\ Rank(Order(S), e) >= n => Page(S, n) # {}
           /\ IsFiniteSet(UpTo(S, n)) /\ Cardinality(UpTo(S, n)) \in Nat
           /\ Cardinality(UpTo(S, n)) <= n
           /\ \A e \in S : Rank(Order(S), e) >= n => Cardinality(UpTo(S, n)) = n
<1>1. /\ IsFiniteSet(S) /\ Orders(Order(S), S) /\ Cardinality(S) \in Nat
      /\ \A x, y \in S : x \in Order(S)[y] <=> Precedes(x, y)
  BY SliceIs DEF Order
<1>2. /\ \A x \in S : Rank(Order(S), x) \in Nat /\ Rank(Order(S), x) < Cardinality(S)
      /\ \A x, y \in S : x \in Order(S)[y] <=> Rank(Order(S), x) < Rank(Order(S), y)
  BY <1>1, Ranks
<1>3. /\ IsFiniteSet(Page(S, n)) /\ Cardinality(Page(S, n)) <= PageLimit
      /\ Cardinality(Page(S, n)) \in Nat
      /\ (\E e \in S : Rank(Order(S), e) >= n + PageLimit) =>
            Cardinality(Page(S, n)) = PageLimit
      /\ (\E e \in S : Rank(Order(S), e) >= n) => Page(S, n) # {}
  <2>1. PageLimit \in Nat \ {0}
    BY WalkAssumption
  <2> QED BY <1>1, <2>1, SliceSize DEF Page
<1>4. /\ IsFiniteSet(UpTo(S, n)) /\ Cardinality(UpTo(S, n)) \in Nat
      /\ Cardinality(UpTo(S, n)) <= n
      /\ (\E e \in S : Rank(Order(S), e) >= n) => Cardinality(UpTo(S, n)) = n
  BY <1>1, RanksCount DEF UpTo
<1> QED BY <1>1, <1>2, <1>3, <1>4

-----------------------------------------------------------------------------
(* Walks by cursor *)

\* SearchWalk holds at the start, and after each of the steps of a search.
LEMMA SearchInit == Init => SearchWalk
  BY DEF Init, WalkInit, NoWalk, SearchWalk

LEMMA SearchReads ==
    ASSUME WalkBase, SearchWalk, ReadPage, UNCHANGED indexVars
    PROVE  SearchWalk'
<1>1. /\ walk.kind = "search" /\ walk.pc = "asking"
      /\ walk'.pc = "counting" /\ walk'.page = Page(Behinds, 0)
      /\ \A f \in {"kind", "pg", "query", "scope", "sort", "cursor", "offset", "total",
                   "given", "start", "repeated", "disturbed"} : walk'[f] = walk[f]
      /\ UNCHANGED <<index, current, times>>
  BY ReadPageIs DEF indexVars
<1>2. Found' = Found /\ Still' = Still /\ \A x, e : Precedes(x, e)' <=> Precedes(x, e)
  BY <1>1, FoundIs, SameOrder DEF Still
<1>3. /\ ~ walk.repeated
      /\ walk.cursor = 0 => walk.given = {}
      /\ walk.cursor # 0 => \A e \in walk.given : ~ Precedes(walk.cursor, e)
      /\ Still \subseteq walk.given \cup Behinds
  BY <1>1 DEF SearchWalk
<1>4. walk.cursor # 0 => \A e \in Behinds : Precedes(walk.cursor, e)
  BY AskedIs, BehindIs DEF Behinds, WalkBase, IndexTypeOK
<1>5. walk'.page \subseteq Behinds
  BY <1>1 DEF Page, Ranked
<1>6. ASSUME NEW e \in Still \ (walk.given \cup walk'.page)
      PROVE  /\ Cardinality(walk'.page) = PageLimit
             /\ \A x \in walk'.page : Precedes(x, e)
  <2> DEFINE rank(x) == Rank(Order(Behinds), x)
  <2>1. e \in Behinds
    BY <1>3, <1>6
  <2>2. walk'.page = {x \in Behinds : rank(x) \in 0..(0 + PageLimit - 1)}
    BY <1>1 DEF Page, Ranked
  <2>3. /\ \A x \in Behinds : rank(x) \in Nat
        /\ \A x, y \in Behinds : Precedes(x, y) <=> rank(x) < rank(y)
        /\ rank(e) >= 0 + PageLimit => Cardinality(Page(Behinds, 0)) = PageLimit
    <3>1. Behinds \in SUBSET index /\ 0 \in Nat
      BY AskedIs
    <3> QED BY <2>1, <3>1, PageHolds
  <2> HIDE DEF rank
  <2>4. rank(e) >= 0 + PageLimit
    BY <1>6, <2>1, <2>2, <2>3, WalkAssumption
  <2> QED BY <1>1, <2>1, <2>2, <2>3, <2>4, WalkAssumption
<1> QED BY <1>1, <1>2, <1>3, <1>4, <1>5, <1>6 DEF SearchWalk

LEMMA SearchAnswers ==
    ASSUME WalkBase, SearchWalk, AnswerSearch, UNCHANGED indexVars
    PROVE  SearchWalk'
<1>1. /\ walk.kind = "search" /\ walk.pc = "answering"
      /\ walk'.pc = IF Cardinality(walk.page) = PageLimit THEN "asking" ELSE "done"
      /\ walk.page = {} => walk'.cursor = walk.cursor
      /\ walk.page # {} => /\ walk'.cursor \in walk.page
                           /\ \A x \in walk.page \ {walk'.cursor} :
                                 Precedes(x, walk'.cursor)
      /\ walk'.given = walk.given \cup walk.page
      /\ walk'.repeated = (walk.repeated \/ walk.page \cap walk.given # {})
      /\ \A f \in {"kind", "pg", "query", "scope", "sort", "offset", "total", "start",
                   "disturbed"} : walk'[f] = walk[f]
      /\ UNCHANGED <<index, current, times>> /\ WalkBase'
  BY AnswerSearchIs DEF indexVars
<1>2. Found' = Found /\ Still' = Still /\ \A x, e : Precedes(x, e)' <=> Precedes(x, e)
  BY <1>1, FoundIs, SameOrder DEF Still
<1>3. /\ ~ walk.repeated /\ Still \subseteq Found
      /\ walk.cursor = 0 => walk.given = {}
      /\ walk.cursor # 0 => \A e \in walk.given : ~ Precedes(walk.cursor, e)
      /\ walk.page \cap walk.given = {}
      /\ walk.cursor # 0 => \A e \in walk.page : Precedes(walk.cursor, e)
      /\ \A e \in Still \ (walk.given \cup walk.page) :
            /\ Cardinality(walk.page) = PageLimit
            /\ \A x \in walk.page : Precedes(x, e)
  BY <1>1 DEF SearchWalk, Still
<1>4. /\ walk.page \subseteq Events /\ walk.given \subseteq Events
      /\ Still \subseteq Events /\ walk.cursor \in Events \cup {0}
  BY <1>1 DEF WalkBase, IndexTypeOK, Still
<1>5. /\ \A x, y, z \in Events : Precedes(x, y) /\ Precedes(y, z) => Precedes(x, z)
      /\ \A x \in Events : ~ Precedes(x, x)
      /\ \A x, y \in Events : x = y \/ Precedes(x, y) \/ Precedes(y, x)
  BY OrderIs
<1>6. 0 \notin Events
  BY IndexAssumption
<1>7. walk'.cursor = 0 => walk'.given = {}
  BY <1>1, <1>3, <1>4, <1>6
<1>8. walk'.cursor # 0 => \A e \in walk'.given : ~ Precedes(walk'.cursor, e)
  <2>1. CASE walk.page = {}
    BY <1>1, <1>3, <2>1
  <2>2. CASE walk.page # {}
    <3> DEFINE c == walk'.cursor
    <3>1. c \in walk.page /\ c \in Events /\ \A x \in walk.page \ {c} : Precedes(x, c)
      BY <1>1, <1>4, <2>2
    <3> HIDE DEF c
    <3>2. ASSUME NEW e \in walk.page
          PROVE  ~ Precedes(c, e)
      BY <1>4, <1>5, <3>1
    <3>3. ASSUME NEW e \in walk.given
          PROVE  ~ Precedes(c, e)
      <4>1. walk.cursor # 0 /\ walk.cursor \in Events
        BY <1>3, <1>4, <3>3
      <4>2. Precedes(walk.cursor, c) /\ ~ Precedes(walk.cursor, e) /\ e \in Events
        BY <1>3, <1>4, <3>1, <4>1
      <4> QED BY <1>5, <3>1, <4>1, <4>2
    <3> QED BY <1>1, <3>2, <3>3 DEF c
  <2> QED BY <2>1, <2>2
<1>9. walk'.pc = "asking" => Still' \subseteq walk'.given \cup Behinds'
  <2> SUFFICES ASSUME walk'.pc = "asking", NEW e \in Still, e \notin walk'.given
               PROVE  e \in Behinds'
    BY <1>1, <1>2
  <2>1. Cardinality(walk.page) = PageLimit
    BY <1>1
  <2>2. walk.page # {}
    <3>1. Cardinality({}) = 0 /\ PageLimit # 0
      BY FS_EmptySet, WalkAssumption
    <3> QED BY <2>1, <3>1
  <2>3. walk'.cursor \in Events /\ e \in Events /\ Precedes(walk'.cursor, e)
    BY <1>1, <1>3, <1>4, <2>2
  <2>4. Behind(e, walk'.cursor)
    BY <2>3, BehindIs
  <2>5. Behinds' = {x \in Found' : walk'.cursor = 0 \/ Behind(x, walk'.cursor)}
    BY <1>1, AskedPrimed
  <2> QED BY <1>2, <1>3, <2>4, <2>5
<1>10. walk'.pc = "done" => Still' \subseteq walk'.given
  BY <1>1, <1>2, <1>3
<1> QED BY <1>1, <1>2, <1>3, <1>7, <1>8, <1>9, <1>10 DEF SearchWalk

\* A step does not change what kind of walk it is.
LEMMA KindKept ==
    ASSUME WalkBase, WalkStep, UNCHANGED indexVars
    PROVE  /\ walk'.kind = walk.kind /\ walk'.disturbed = walk.disturbed
           /\ walk.kind = "search" => ReadPage \/ CountAll \/ AnswerSearch
           /\ walk.kind = "paginated" => ReadPaginated \/ CountAll \/ AnswerPaginated
           /\ walk.kind = "viewer" => ReadOffset
           /\ walk.kind = "counts" => Counts
           /\ walk.kind = "scroll" => OpenScroll \/ NextScroll \/ ScrollExpires
<1>1. walk.kind # "none"
  BY StepHasKind
<1>2. CountAll => walk.kind \in {"search", "paginated"}
  BY DEF CountAll, WalkBase, KindsOK
<1> QED
  BY <1>1, <1>2, ReadPageIs, ReadPaginatedIs, CountAllIs, AnswerSearchIs, AnswerPaginatedIs,
     ReadOffsetIs, CountsIs, OpenScrollIs, NextScrollIs, ScrollExpiresIs DEF WalkStep

LEMMA SearchCounts ==
    ASSUME WalkBase, SearchWalk, CountAll, walk.kind = "search", UNCHANGED indexVars
    PROVE  SearchWalk'
<1>1. /\ walk.pc = "counting" /\ walk'.pc = "answering"
      /\ \A f \in {"kind", "pg", "query", "scope", "sort", "cursor", "offset", "page",
                   "given", "start", "repeated", "disturbed"} : walk'[f] = walk[f]
      /\ UNCHANGED <<index, current, times>>
  BY CountAllIs DEF indexVars
<1>2. Found' = Found /\ Still' = Still /\ \A x, e : Precedes(x, e)' <=> Precedes(x, e)
  BY <1>1, FoundIs, SameOrder DEF Still
<1> QED BY <1>1, <1>2 DEF SearchWalk

LEMMA SearchIndexed ==
    ASSUME WalkBase, SearchWalk, NEW e \in Events, IndexEventInWalk(e),
           walk.kind = "search"
    PROVE  SearchWalk'
<1>1. /\ UNCHANGED times
      /\ \A f \in {"kind", "pc", "pg", "query", "scope", "sort", "cursor", "offset",
                   "total", "page", "given", "start", "repeated"} : walk'[f] = walk[f]
      /\ Found \subseteq Found' /\ Found' \subseteq Found \cup {e} /\ e \notin walk.start
      /\ \A x, y : Precedes(x, y)' <=> Precedes(x, y)
  BY IndexedIs DEF WalkBase
<1>2. Behinds \subseteq Behinds'
  BY <1>1, AskedPrimed DEF Behinds
<1>3. Still' = Still
  BY <1>1 DEF Still
<1> QED BY <1>1, <1>2, <1>3 DEF SearchWalk

\* What a rotation hides is neither held back nor asked for any more.
LEMMA SearchRotated ==
    ASSUME WalkBase, SearchWalk, RotateInWalk, walk.kind = "search"
    PROVE  SearchWalk'
<1>1. /\ UNCHANGED times /\ Found' \subseteq Found
      /\ \A f \in {"kind", "pc", "pg", "query", "scope", "sort", "cursor", "offset",
                   "total", "page", "given", "start", "repeated"} : walk'[f] = walk[f]
      /\ \A x, y : Precedes(x, y)' <=> Precedes(x, y)
  BY RotatedIs
<1>2. Behinds' = Behinds \cap Found'
  BY <1>1, AskedPrimed DEF Behinds
<1>3. Still' = Still \cap Found'
  BY <1>1 DEF Still
<1> QED BY <1>1, <1>2, <1>3 DEF SearchWalk

LEMMA SearchStep ==
    ASSUME WalkBase, SearchWalk, [Next]_vars
    PROVE  SearchWalk'
<1>1. ASSUME walk.kind # "none", NEW e \in Events, IndexEventInWalk(e)
      PROVE  SearchWalk'
  <2>1. walk'.kind = walk.kind
    BY <1>1, IndexedIs
  <2> QED BY <1>1, <2>1, SearchIndexed DEF SearchWalk
<1>2. CASE walk'.kind = "none"
  BY <1>2 DEF SearchWalk
<1>3. CASE Quiet
  <2>1. UNCHANGED <<times, walk>> /\ Found' = Found
    BY <1>3 DEF Quiet
  <2>2. /\ Still' = Still /\ Behinds' = Behinds
        /\ \A x, e : Precedes(x, e)' <=> Precedes(x, e)
    BY <2>1, SameOrder, AskedPrimed DEF Behinds, Still
  <2> QED BY <2>1, <2>2 DEF SearchWalk
<1>4. ASSUME UNCHANGED indexVars,
             NEW kind \in {"search", "paginated", "viewer", "counts", "scroll"},
             NEW pg \in BOOLEAN, NEW ask \in Asks, NEW sort \in {"asc", "desc"},
             Starts(kind, pg, ask, sort)
      PROVE  SearchWalk'
  <2>1. /\ walk'.pc = "asking" /\ walk'.cursor = 0 /\ walk'.given = {}
        /\ walk'.repeated = FALSE /\ walk'.start = Found'
    BY <1>4, BaseStarts DEF Starts
  <2> QED BY <2>1 DEF SearchWalk, Behinds, Still
<1>5. CASE UNCHANGED indexVars /\ WalkStep
  <2>1. CASE walk.kind = "search"
    BY <1>5, <2>1, KindKept, SearchReads, SearchCounts, SearchAnswers
  <2>2. CASE walk.kind # "search"
    BY <1>5, <2>2, KindKept DEF SearchWalk
  <2> QED BY <2>1, <2>2
<1>6. CASE walk.kind # "none" /\ RotateInWalk
  <2>1. walk'.kind = walk.kind
    BY <1>6, RotatedIs
  <2> QED BY <1>6, <2>1, SearchRotated DEF SearchWalk
<1> QED BY <1>1, <1>2, <1>3, <1>4, <1>5, <1>6, StepCases

-----------------------------------------------------------------------------
(* Scrolls *)

\* A prefix is that of its size.
LEMMA Prefix ==
    ASSUME WalkBase, NEW S \in SUBSET index, NEW n \in Nat
    PROVE  /\ UpTo(S, n) = UpTo(S, Cardinality(UpTo(S, n)))
           /\ UpTo(S, n) \cup Page(S, n) = UpTo(S, n + PageLimit)
           /\ UpTo(S, n) \cap Page(S, n) = {}
           /\ Page(S, n) = {} => UpTo(S, n) = S
<1> DEFINE rank(x) == Rank(Order(S), x)
           m == Cardinality(UpTo(S, n))
<1>1. /\ UpTo(S, n) = {e \in S : rank(e) < n} /\ UpTo(S, m) = {e \in S : rank(e) < m}
      /\ UpTo(S, n + PageLimit) = {e \in S : rank(e) < n + PageLimit}
      /\ Page(S, n) = {e \in S : rank(e) \in n..(n + PageLimit - 1)}
  BY DEF UpTo, Leading, Page, Ranked
<1>2. /\ Cardinality(S) \in Nat
      /\ \A e \in S : rank(e) \in Nat /\ rank(e) < Cardinality(S)
      /\ m \in Nat /\ m <= n
      /\ \A e \in S : rank(e) >= n => m = n
      /\ \A e \in S : rank(e) >= n => Page(S, n) # {}
  BY PageHolds
<1>3. UpTo(S, n) = UpTo(S, m)
  <2>1. CASE \E e \in S : rank(e) >= n
    BY <1>2, <2>1
  <2>2. CASE ~ \E e \in S : rank(e) >= n
    <3>1. UpTo(S, n) = S
      BY <1>1, <1>2, <2>2
    <3> QED BY <1>1, <1>2, <3>1
  <2> QED BY <2>1, <2>2
<1> HIDE DEF rank, m
<1> QED BY <1>1, <1>2, <1>3, WalkAssumption DEF m

\* ScrollWalk, likewise.
LEMMA ScrollInit == Init => ScrollWalk
  BY DEF Init, WalkInit, NoWalk, ScrollWalk

LEMMA ScrollOpens ==
    ASSUME WalkBase, ScrollWalk, OpenScroll, UNCHANGED indexVars
    PROVE  ScrollWalk'
<1> DEFINE page == IF walk.pg THEN Found ELSE Page(Found, 0)
<1>1. /\ walk.kind = "scroll" /\ walk.pc = "asking"
      /\ walk'.pc = IF walk.pg THEN "done" ELSE "scrolling"
      /\ walk'.given = walk.given \cup page
      /\ walk'.repeated = (walk.repeated \/ page \cap walk.given # {})
      /\ walk'.start = Found /\ walk'.sort = walk.sort
      /\ UNCHANGED times
  BY OpenScrollIs DEF indexVars
<1>2. ~ walk.repeated /\ walk.given = {}
  BY <1>1 DEF ScrollWalk
<1>3. Page(Found, 0) = UpTo(Found, Cardinality(Page(Found, 0)))
  <2>1. Found \in SUBSET index /\ 0 \in Nat /\ 0 + PageLimit = PageLimit /\ PageLimit \in Nat
    BY AskedIs, WalkAssumption
  <2>2. UpTo(Found, 0) = {}
    <3>1. \A e \in Found : Rank(Order(Found), e) \in Nat
      BY <2>1, PageHolds
    <3> QED BY <3>1 DEF UpTo, Leading
  <2>3. Page(Found, 0) = UpTo(Found, PageLimit)
    <3>1. UpTo(Found, 0) \cup Page(Found, 0) = UpTo(Found, 0 + PageLimit)
      <4>1. 0 \in Nat /\ Found \in SUBSET index
        BY <2>1
      <4> HIDE <2>1
      <4> QED BY <4>1, Prefix
    <3> QED BY <2>1, <2>2, <3>1
  <2>4. UpTo(Found, PageLimit) = UpTo(Found, Cardinality(UpTo(Found, PageLimit)))
    BY <2>1, Prefix
  <2> QED BY <2>3, <2>4
<1>4. \A S, n : UpTo(S, n)' = UpTo(S, n)
  BY <1>1, SameOrder DEF UpTo
<1> QED BY <1>1, <1>2, <1>3, <1>4 DEF ScrollWalk

LEMMA ScrollGoesOn ==
    ASSUME WalkBase, ScrollWalk, NextScroll, UNCHANGED indexVars
    PROVE  ScrollWalk'
<1> DEFINE n == Cardinality(walk.given)
           page == Page(walk.start, n)
<1>1. /\ walk.kind = "scroll" /\ walk.pc = "scrolling"
      /\ walk'.pc = IF page = {} THEN "done" ELSE "scrolling"
      /\ walk'.given = walk.given \cup page
      /\ walk'.repeated = (walk.repeated \/ page \cap walk.given # {})
      /\ walk'.start = walk.start /\ walk'.sort = walk.sort
      /\ UNCHANGED times
  BY NextScrollIs DEF indexVars
<1>2. ~ walk.repeated /\ walk.given = UpTo(walk.start, n)
  BY <1>1 DEF ScrollWalk
<1>3. n \in Nat /\ n + PageLimit \in Nat /\ walk.start \in SUBSET index
  <2>1. IsFiniteSet(walk.given)
    BY <1>1, FS_Subset DEF WalkBase
  <2> QED BY <2>1, FS_CardinalityType, WalkAssumption DEF WalkBase
<1> HIDE DEF n
<1>4. /\ walk.given \cap page = {} /\ walk.given \cup page = UpTo(walk.start, n + PageLimit)
      /\ page = {} => walk.given = walk.start
  BY <1>2, <1>3, Prefix
<1>5. walk.given \cup page = UpTo(walk.start, Cardinality(walk.given \cup page))
  BY <1>3, <1>4, Prefix
<1>6. \A S, k : UpTo(S, k)' = UpTo(S, k)
  BY <1>1, SameOrder DEF UpTo
<1> HIDE DEF page
<1> QED BY <1>1, <1>2, <1>4, <1>5, <1>6 DEF ScrollWalk

LEMMA ScrollStep ==
    ASSUME WalkBase, ScrollWalk, [Next]_vars
    PROVE  ScrollWalk'
<1>1. ASSUME walk.kind # "none", NEW e \in Events, IndexEventInWalk(e)
      PROVE  ScrollWalk'
  <2>1. /\ UNCHANGED times
        /\ \A f \in {"kind", "pc", "pg", "query", "scope", "sort", "cursor", "offset",
                     "total", "page", "given", "start", "repeated"} : walk'[f] = walk[f]
    BY <1>1, IndexedIs
  <2>2. \A S, k : UpTo(S, k)' = UpTo(S, k)
    BY <2>1, SameOrder DEF UpTo
  <2> QED BY <2>1, <2>2 DEF ScrollWalk
<1>2. CASE walk'.kind = "none"
  BY <1>2 DEF ScrollWalk
<1>3. CASE Quiet
  <2>1. UNCHANGED <<times, walk>>
    BY <1>3 DEF Quiet
  <2>2. \A S, k : UpTo(S, k)' = UpTo(S, k)
    BY <2>1, SameOrder DEF UpTo
  <2> QED BY <2>1, <2>2 DEF ScrollWalk
<1>4. ASSUME UNCHANGED indexVars,
             NEW kind \in {"search", "paginated", "viewer", "counts", "scroll"},
             NEW pg \in BOOLEAN, NEW ask \in Asks, NEW sort \in {"asc", "desc"},
             Starts(kind, pg, ask, sort)
      PROVE  ScrollWalk'
  <2>1. walk'.pc = "asking" /\ walk'.given = {} /\ walk'.repeated = FALSE
    BY <1>4, BaseStarts DEF Starts
  <2> QED BY <2>1 DEF ScrollWalk
<1>5. CASE UNCHANGED indexVars /\ WalkStep
  <2>1. CASE ScrollExpires
    <3>1. walk'.pc = "failed" /\ walk'.kind = walk.kind /\ walk'.repeated = walk.repeated
      BY <1>5, <2>1, ScrollExpiresIs
    <3> QED BY <3>1 DEF ScrollWalk
  <2>2. CASE walk.kind = "scroll" /\ ~ ScrollExpires
    BY <1>5, <2>2, KindKept, ScrollOpens, ScrollGoesOn
  <2>3. CASE walk.kind # "scroll"
    BY <1>5, <2>3, KindKept DEF ScrollWalk
  <2> QED BY <2>1, <2>2, <2>3
<1>6. CASE walk.kind # "none" /\ RotateInWalk
  <2>1. /\ UNCHANGED times
        /\ \A f \in {"kind", "pc", "pg", "query", "scope", "sort", "cursor", "offset",
                     "total", "page", "given", "start", "repeated"} : walk'[f] = walk[f]
    BY <1>6, RotatedIs
  <2>2. \A S, k : UpTo(S, k)' = UpTo(S, k)
    BY <2>1, SameOrder DEF UpTo
  <2> QED BY <2>1, <2>2 DEF ScrollWalk
<1> QED BY <1>1, <1>2, <1>3, <1>4, <1>5, <1>6, StepCases

\* Cursors name an event, not a position: whatever is indexed or rotated while a
\* client follows them, no edge comes twice and none is skipped that was there at
\* the start and is in the index that is searched to the end.  Of a scroll, the
\* same holds of the snapshot it stands on, whatever a rotation has hidden since.
THEOREM CursorsAreExact == Spec => []CursorWalkIsExact
<1>1. Init => SearchWalk /\ ScrollWalk
  BY SearchInit, ScrollInit
<1>2. WalkBase /\ SearchWalk /\ ScrollWalk /\ [Next]_vars => SearchWalk' /\ ScrollWalk'
  BY SearchStep, ScrollStep
<1>3. SearchWalk /\ ScrollWalk => CursorWalkIsExact
  BY DEF SearchWalk, ScrollWalk, CursorWalkIsExact, Done, Still
<1> QED BY BaseInvariance, <1>1, <1>2, <1>3, PTL DEF Spec

-----------------------------------------------------------------------------
(* Counts *)

\* The actions of what is found are finitely many, and the sizes of their buckets,
\* then their names, order them.
LEMMA BucketsAreOrdered ==
    ASSUME WalkBase
    PROVE  /\ IsFiniteSet(Actions(Found)) /\ Cardinality(Actions(Found)) \in Nat
           /\ Orders(BucketOrder(Actions(Found)), Actions(Found))
<1> DEFINE D == [e \in Found |-> Docs[e]["action"]]
           U == {Docs[e]["action"] : e \in Found}
<1>1. IsFiniteSet(Found) /\ Found \subseteq Events
  BY AskedIs, FS_Subset DEF WalkBase, IndexTypeOK
<1>2. IsFiniteSet(U)
  <2>1. D \in Surjection(Found, U)
    BY DEF Surjection
  <2> QED BY <1>1, <2>1, FS_Surjection
<1>3. IsFiniteSet(Actions(Found)) /\ Actions(Found) \subseteq Nat
  <2>1. \A X \in U : IsFiniteSet(X) /\ X \subseteq Nat
    BY <1>1, TextAssumption
  <2>2. Actions(Found) = UNION U
    BY DEF Actions
  <2> HIDE DEF U
  <2> QED BY <1>2, <2>1, <2>2, FS_UNION
<1>4. \A a : Cardinality(Bucket(a)) \in Nat
  <2>1. \A a : IsFiniteSet(Bucket(a))
    BY <1>1, FS_Subset DEF Bucket
  <2> QED BY <2>1, FS_CardinalityType
<1>5. Orders(BucketOrder(Actions(Found)), Actions(Found))
  <2> DEFINE T == Actions(Found)
             P == BucketOrder(T)
  <2>1. /\ \A x \in T : ~ LargerBucket(x, x)
        /\ \A x, y, z \in T : LargerBucket(x, y) /\ LargerBucket(y, z) => LargerBucket(x, z)
        /\ \A x, y \in T : x = y \/ LargerBucket(x, y) \/ LargerBucket(y, x)
    <3>1. T \subseteq Nat
      BY <1>3
    <3> HIDE DEF T
    <3> QED BY <1>4, <3>1 DEF LargerBucket
  <2>2. P \in [T -> SUBSET T] /\ \A x \in T : P[x] = {y \in T : LargerBucket(y, x)}
    BY DEF BucketOrder
  <2> HIDE DEF P, T
  <2>3. Orders(P, T)
    BY <2>1, <2>2 DEF Orders
  <2> QED BY <2>3 DEF P, T
<1> QED BY <1>3, <1>5, FS_CardinalityType

\* If no bucket is left out, a request is answered with the next of them.
LEMMA BucketSlices ==
    ASSUME WalkBase, Cardinality(Actions(Found)) <= MaxBuckets
    PROVE  LET T == Actions(Found)
               rank(a) == Rank(BucketOrder(T), a) IN
           /\ Buckets = T /\ Cardinality(T) \in Nat
           /\ \A a \in T : rank(a) \in Nat /\ rank(a) < Cardinality(T)
           /\ Slice(Buckets, LargerBucket, walk.offset)
                = {a \in T : rank(a) \in walk.offset..(walk.offset + PageLimit - 1)}
<1> DEFINE T == Actions(Found)
           rank(a) == Rank(BucketOrder(T), a)
<1>1. Cardinality(T) \in Nat /\ \A a \in T : rank(a) \in Nat /\ rank(a) < Cardinality(T)
  BY BucketsAreOrdered, Ranks
<1>2. \A a \in T : Cardinality({b \in T : LargerBucket(b, a)}) = rank(a)
  BY DEF Rank, BucketOrder
<1>3. Buckets = T
  <2>1. \A a \in T : rank(a) < MaxBuckets
    <3>1. Cardinality(T) <= MaxBuckets /\ MaxBuckets \in Nat
      BY WalkAssumption
    <3> HIDE DEF T, rank
    <3> QED BY <1>1, <3>1
  <2> QED BY <1>2, <2>1 DEF Buckets
<1>4. Slice(Buckets, LargerBucket, walk.offset)
        = {a \in T : rank(a) \in walk.offset..(walk.offset + PageLimit - 1)}
  BY <1>2, <1>3 DEF Slice
<1> QED BY <1>1, <1>3, <1>4

\* Every bucket has a rank.
LEMMA BucketRanks ==
    WalkBase => \A a \in Actions(Found) : Rank(BucketOrder(Actions(Found)), a) \in Nat
  BY BucketsAreOrdered, Ranks

\* CountsWalk, likewise.
LEMMA CountsInit == Init => CountsWalk
  BY DEF Init, WalkInit, NoWalk, CountsWalk

\* Buckets are of what is found.
LEMMA SameBuckets ==
    ASSUME Found' = Found
    PROVE  \A S : /\ Actions(S)' = Actions(S) /\ BucketOrder(S)' = BucketOrder(S)
<1>1. \A a : Bucket(a)' = Bucket(a)
  BY DEF Bucket
<1>2. \A a, b : LargerBucket(a, b)' <=> LargerBucket(a, b)
  BY <1>1 DEF LargerBucket
<1> QED BY <1>2 DEF Actions, BucketOrder

LEMMA CountsGoOn ==
    ASSUME WalkBase, CountsWalk, Counts, UNCHANGED indexVars
    PROVE  CountsWalk'
<1> DEFINE T == Actions(Found)
           rank(a) == Rank(BucketOrder(T), a)
           page == Slice(Buckets, LargerBucket, walk.offset)
<1>1. /\ walk.kind = "counts" /\ walk.pc = "asking"
      /\ walk'.pc = IF walk.offset + PageLimit < Cardinality(Buckets)
                    THEN "asking" ELSE "done"
      /\ walk'.offset = walk.offset + PageLimit
      /\ walk'.given = walk.given \cup page
      /\ walk'.repeated = (walk.repeated \/ page \cap walk.given # {})
      /\ \A f \in {"kind", "pg", "query", "scope", "sort", "cursor", "total", "page",
                   "start", "disturbed"} : walk'[f] = walk[f]
      /\ UNCHANGED <<index, current, times>> /\ WalkBase'
      /\ walk.offset \in Nat
  BY CountsIs DEF indexVars, WalkBase, WalkRecords
<1>2. Found' = Found
  BY <1>1, FoundIs
<1>3. \A S : Actions(S)' = Actions(S) /\ BucketOrder(S)' = BucketOrder(S)
  BY <1>2, SameBuckets
<1>4. Actions(Found)' = T /\ BucketOrder(Actions(Found))' = BucketOrder(T)
  BY <1>2, <1>3 DEF Actions, BucketOrder, LargerBucket, Bucket
<1> SUFFICES ASSUME ~ walk.disturbed
             PROVE  CountsWalk'
  BY <1>1 DEF CountsWalk
<1>5. walk.start = Found
  BY <1>1 DEF CountsWalk
<1>6. ASSUME Cardinality(T) <= MaxBuckets
      PROVE  /\ ~ walk'.repeated
             /\ walk'.given = {a \in T : rank(a) < walk'.offset}
             /\ walk'.pc = "done" => walk'.given = T
  <2>1. ~ walk.repeated /\ walk.given = {a \in T : rank(a) < walk.offset}
    BY <1>1, <1>6 DEF CountsWalk
  <2>2. /\ Buckets = T /\ Cardinality(T) \in Nat
        /\ \A a \in T : rank(a) \in Nat /\ rank(a) < Cardinality(T)
        /\ page = {a \in T : rank(a) \in walk.offset..(walk.offset + PageLimit - 1)}
    BY <1>6, BucketSlices
  <2> HIDE DEF T, rank, page
  <2>3. /\ page \cap walk.given = {}
        /\ walk.given \cup page = {a \in T : rank(a) < walk.offset + PageLimit}
    BY <1>1, <2>1, <2>2, WalkAssumption
  <2>4. ASSUME ~ walk.offset + PageLimit < Cardinality(T)
        PROVE  walk.given \cup page = T
    BY <1>1, <2>2, <2>3, <2>4, WalkAssumption
  <2> QED BY <1>1, <2>1, <2>2, <2>3, <2>4
<1>7. Cardinality(Actions(Found))' = Cardinality(T)
  BY <1>4
<1> HIDE DEF page
<1> QED BY <1>1, <1>2, <1>4, <1>5, <1>6 DEF CountsWalk

LEMMA CountsStep ==
    ASSUME WalkBase, CountsWalk, [Next]_vars
    PROVE  CountsWalk'
<1>1. ASSUME walk.kind # "none", NEW e \in Events, IndexEventInWalk(e)
      PROVE  CountsWalk'
  <2>1. walk'.kind = walk.kind /\ walk'.disturbed = (walk.disturbed \/ Disturbs(e))
    BY <1>1, IndexedIs
  <2>2. walk.kind = "counts" => Disturbs(e)
    BY DEF Disturbs
  <2> QED BY <2>1, <2>2 DEF CountsWalk
<1>2. CASE walk'.kind = "none"
  BY <1>2 DEF CountsWalk
<1>3. CASE Quiet
  <2>1. UNCHANGED walk
    BY <1>3 DEF Quiet
  <2>2. Found' = Found
    BY <1>3 DEF Quiet
  <2>3. Actions(Found)' = Actions(Found)
        /\ BucketOrder(Actions(Found))' = BucketOrder(Actions(Found))
    BY <2>2 DEF Actions, BucketOrder, LargerBucket, Bucket
  <2> QED BY <2>1, <2>2, <2>3 DEF CountsWalk
<1>4. ASSUME UNCHANGED indexVars,
             NEW kind \in {"search", "paginated", "viewer", "counts", "scroll"},
             NEW pg \in BOOLEAN, NEW ask \in Asks, NEW sort \in {"asc", "desc"},
             Starts(kind, pg, ask, sort)
      PROVE  CountsWalk'
  <2>1. /\ walk'.pc = "asking" /\ walk'.given = {} /\ walk'.repeated = FALSE
        /\ walk'.start = Found' /\ walk'.offset = 0 /\ WalkBase'
    BY <1>4, BaseStarts DEF Starts
  <2>2. (\A a \in Actions(Found) : Rank(BucketOrder(Actions(Found)), a) \in Nat)'
    BY <2>1, BucketRanks, PTL
  <2> QED BY <2>1, <2>2 DEF CountsWalk
<1>5. CASE UNCHANGED indexVars /\ WalkStep
  BY <1>5, KindKept, CountsGoOn DEF CountsWalk
<1>6. CASE walk'.disturbed
  BY <1>6 DEF CountsWalk
<1> QED BY <1>1, <1>2, <1>3, <1>4, <1>5, <1>6, StepCases

\* A client that follows the positions of counts sees every action once, if
\* nothing is indexed or rotated meanwhile and no bucket is left out: the position
\* is the number of actions it has.
THEOREM CountsAreWhole == Spec => []CountsAreComplete
<1>1. Init => CountsWalk
  BY CountsInit
<1>2. WalkBase /\ CountsWalk /\ [Next]_vars => CountsWalk'
  BY CountsStep
<1>3. CountsWalk => CountsAreComplete
  BY DEF CountsWalk, CountsAreComplete
<1> QED BY BaseInvariance, <1>1, <1>2, <1>3, PTL DEF Spec

-----------------------------------------------------------------------------
(* Two backends *)

\* Values of one word each, given to a keyword, and to one that takes one value.
LEMMA OneWord ==
    ASSUME NEW ask \in Asks, OneWordEach(ask.query), NEW k \in Keywords,
           Given(ask.query, k)
    PROVE  /\ \A value \in ask.query[k] : \E w : value = {w}
           /\ k # "crud" => \E w : ask.query[k] = {{w}} /\ Words(ask.query, k) = {w}
<1> DEFINE V == ask.query[k]
<1>1. IsFiniteSet(V) /\ \A value \in V : IsFiniteSet(value) /\ Cardinality(value) = 1
  BY TextAssumption DEF OneWordEach
<1>2. V # {} /\ (k # "crud" => Cardinality(V) <= 1)
  BY DEF Given, OneWordEach
<1>3. \A value \in V : \E w : value = {w}
  BY <1>1, FS_Singleton
<1> HIDE DEF V
<1>4. ASSUME k # "crud"
      PROVE  \E w : V = {{w}} /\ UNION V = {w}
  <2>1. Cardinality(V) = 1
    BY <1>1, <1>2, <1>4, FS_CardinalityType, FS_EmptySet
  <2>2. PICK value : V = {value}
    BY <1>1, <2>1, FS_Singleton
  <2> QED BY <1>3, <2>2
<1> QED BY <1>3, <1>4 DEF V, Words

\* Of values of one word, any of the words is any of the values.
LEMMA AnyWord ==
    ASSUME NEW V, NEW D, \A value \in V : \E w : value = {w}
    PROVE  (UNION V) \cap D # {} <=> \E value \in V : value \subseteq D
<1>1. ASSUME NEW value \in V, value \subseteq D
      PROVE  (UNION V) \cap D # {}
  <2>1. PICK w : value = {w}
    OBVIOUS
  <2>2. w \in UNION V /\ w \in D
    BY <1>1, <2>1
  <2> QED BY <2>2
<1>2. ASSUME NEW w \in UNION V, w \in D
      PROVE  \E value \in V : value \subseteq D
  <2>1. PICK value \in V : w \in value
    BY <1>2, Zenon
  <2>2. value = {w}
    BY <2>1
  <2> QED BY <1>2, <2>2
<1> QED BY <1>1, <1>2

\* A clause means the same to both.
LEMMA ClausesAgree ==
    ASSUME NEW ask \in Asks, OneWordEach(ask.query), NEW k \in Keywords,
           Given(ask.query, k), NEW doc
    PROVE  EsClause(ask.query, k, doc) <=> PgClause(ask.query, k, doc)
<1> DEFINE q == ask.query
<1>1. k # "location"
  BY DEF OneWordEach
<1>2. CASE k = "crud"
  <2>1. \A value \in q[k] : \E w : value = {w}
    BY OneWord
  <2>2. EsClause(q, k, doc) <=> (UNION q[k]) \cap doc[k] # {}
    BY <1>2 DEF EsClause, Words
  <2>3. PgClause(q, k, doc) <=> \E value \in q[k] : value \subseteq doc[k]
    BY <1>2 DEF PgClause
  <2> QED BY <2>1, <2>2, <2>3, AnyWord
<1>3. CASE k # "crud"
  <2>1. PICK w : q[k] = {{w}} /\ Words(q, k) = {w}
    BY <1>3, OneWord
  <2>2. CASE k = "text"
    BY <2>2 DEF EsClause, PgClause
  <2>3. CASE k # "text"
    BY <1>1, <1>3, <2>1, <2>3 DEF EsClause, PgClause
  <2> QED BY <2>2, <2>3
<1> QED BY <1>2, <1>3

\* Both backends find the same events of documents that name no team, for queries
\* of one word per value that ask for no location: there, any of the words, all of
\* them and the one given value are the same.
THEOREM BackendsAgreeOnWords == Spec => []BackendsAgree
<1>1. ASSUME WalkBase
      PROVE  BackendsAgree
  <2> SUFFICES ASSUME walk.kind # "none", OneWordEach(walk.query), NEW e \in index,
                      Docs[e]["team_id"] = {}
               PROVE  EsMatches(walk.query, walk.scope, Docs[e])
                        <=> PgMatches(walk.query, walk.scope, Docs[e])
    BY DEF BackendsAgree
  <2>1. PICK ask \in Asks : walk.query = ask.query
    BY <1>1 DEF WalkBase
  <2>2. \A k \in Keywords : Given(walk.query, k) =>
           (EsClause(walk.query, k, Docs[e]) <=> PgClause(walk.query, k, Docs[e]))
    BY <2>1, ClausesAgree
  <2>3. EsInScope(walk.scope, Docs[e]) <=> walk.scope \subseteq Docs[e]["group"]
    BY DEF EsInScope
  <2> QED BY <2>2, <2>3 DEF EsMatches, PgMatches
<1> QED BY BaseInvariance, <1>1, PTL

-----------------------------------------------------------------------------
(* Walks by offset *)

\* Elements that come after x do not move it.
LEMMA RankKept ==
    ASSUME NEW S, NEW T, S \subseteq T, NEW x \in S, \A y \in T \ S : ~ Precedes(y, x)
    PROVE  Rank(Order(T), x) = Rank(Order(S), x)
<1>1. {y \in T : Precedes(y, x)} = {y \in S : Precedes(y, x)}
  OBVIOUS
<1> QED BY <1>1 DEF Rank, Order

\* The first elements of a set have the first ranks.
LEMMA InitialRanks ==
    ASSUME WalkBase, NEW S \in SUBSET index, NEW T \in SUBSET S, NEW e \in T,
           \A x \in S \ T : ~ Precedes(x, e)
    PROVE  Rank(Order(S), e) < Cardinality(T)
<1>1. Rank(Order(S), e) = Rank(Order(T), e)
  BY RankKept
<1>2. T \in SUBSET index
  OBVIOUS
<1> QED BY <1>1, <1>2, PageHolds

\* Every event of the rest has a rank.
LEMMA RestRanks == WalkBase => \A e \in Rest : RestRank(e) \in Nat
  BY AskedIs, PageHolds DEF RestRank

\* The ranks while neither the index nor the cursor changes.
LEMMA SameRest ==
    ASSUME UNCHANGED times, Found' = Found,
           \A f \in {"kind", "pg", "query", "scope", "sort", "cursor"} : walk'[f] = walk[f]
    PROVE  /\ Rest' = Rest
           /\ \A x, e : Precedes(x, e)' <=> Precedes(x, e)
           /\ \A S : Order(S)' = Order(S)
           /\ \A e : RestRank(e)' = RestRank(e)
           /\ \A S, n : UpTo(S, n)' = UpTo(S, n) /\ Page(S, n)' = Page(S, n)
<1>2. \A S : Order(S)' = Order(S)
  BY SameOrder
<1>3. Rest' = Rest
  BY AskedPrimed DEF Rest
<1>4. /\ \A e : RestRank(e)' = RestRank(e)
      /\ \A S, n : UpTo(S, n)' = UpTo(S, n) /\ Page(S, n)' = Page(S, n)
  BY <1>2, <1>3 DEF RestRank, UpTo, Page
<1> QED BY <1>2, <1>3, <1>4, SameOrder

\* An event that does not disturb the walk moves nothing that was there at the
\* start, is given or is about to be.
LEMMA Undisturbed ==
    ASSUME WalkBase, NEW e \in Events, IndexEventInWalk(e),
           walk.kind \in {"paginated", "viewer"}, ~ walk'.disturbed
    PROVE  LET held == walk.start \cup walk.page \cup walk.given IN
           /\ ~ walk.disturbed /\ Rest \subseteq Rest'
           /\ \A x \in Rest' \ Rest, k \in held : ~ Precedes(x, k)
           /\ \A k \in held \cap Rest : RestRank(k)' = RestRank(k)
           /\ \A x \in Rest, k \in held \cap Rest :
                 Precedes(x, k) => RestRank(x)' = RestRank(x)
           /\ \A x, y : Precedes(x, y)' <=> Precedes(x, y)
           /\ \A f \in {"kind", "pc", "pg", "query", "scope", "sort", "cursor", "offset",
                        "total", "page", "given", "start", "repeated"} : walk'[f] = walk[f]
           /\ WalkBase'
<1> DEFINE held == walk.start \cup walk.page \cup walk.given
<1>1. /\ WalkBase' /\ UNCHANGED times /\ index' = index \cup {e}
      /\ walk'.disturbed = (walk.disturbed \/ Disturbs(e))
      /\ \A f \in {"kind", "pc", "pg", "query", "scope", "sort", "cursor", "offset",
                   "total", "page", "given", "start", "repeated"} : walk'[f] = walk[f]
      /\ Found \subseteq Found' /\ Found' \subseteq Found \cup {e}
      /\ \A x, y : Precedes(x, y)' <=> Precedes(x, y)
      /\ \A S : Order(S)' = Order(S)
  BY IndexedIs
<1>2. ~ walk.disturbed /\ ~ Disturbs(e)
  BY <1>1
<1>3. Rest' = {x \in Found' : walk.cursor = 0 \/ AtOrBehind(x, walk.cursor)}
  BY <1>1, AskedPrimed
<1>4. Rest \subseteq Rest' /\ Rest' \subseteq Rest \cup {e}
  BY <1>1, <1>3 DEF Rest
<1>5. ASSUME NEW x \in Rest' \ Rest, NEW k \in held, Precedes(x, k)
      PROVE  FALSE
  <2>1. x = e
    BY <1>4
  <2>2. walk.cursor # 0 /\ EarlierTime(e, walk.cursor)
    BY <1>2, <1>5, <2>1 DEF Disturbs
  <2>3. walk.cursor \in Events /\ AtOrBehind(e, walk.cursor)
    BY <1>3, <2>1, <2>2 DEF WalkBase, IndexTypeOK
  <2> QED BY <2>2, <2>3, BehindIs
<1>6. held \subseteq Events /\ Rest \subseteq Events /\ Rest' \subseteq Events
  BY <1>4, AskedIs DEF WalkBase, IndexTypeOK
<1>7. ASSUME NEW x \in Rest, NEW k \in held, Precedes(x, k) \/ x = k
      PROVE  RestRank(x)' = RestRank(x)
  <2>1. \A y \in Rest' \ Rest : ~ Precedes(y, x)
    BY <1>5, <1>6, <1>7, OrderIs
  <2>2. Rank(Order(Rest'), x) = Rank(Order(Rest), x)
    BY <1>4, <2>1, RankKept
  <2>3. Order(Rest)' = Order(Rest')
    BY <1>1 DEF Order
  <2> QED BY <2>2, <2>3 DEF RestRank
<1> QED BY <1>1, <1>2, <1>4, <1>5, <1>7

\* PaginatedWalk, likewise.
LEMMA PaginatedInit == Init => PaginatedWalk
  BY DEF Init, WalkInit, NoWalk, PaginatedWalk

\* A prefix and a page by their ranks.
LEMMA RestIs ==
    ASSUME WalkBase, NEW n \in Nat
    PROVE  /\ Rest \in SUBSET index /\ Rest \subseteq Events
           /\ \A x \in Rest : RestRank(x) \in Nat
           /\ \A x, y \in Rest : Precedes(x, y) <=> RestRank(x) < RestRank(y)
           /\ UpTo(Rest, n) = {x \in Rest : RestRank(x) < n}
           /\ Page(Rest, n) = {x \in Rest : RestRank(x) \in n..(n + PageLimit - 1)}
           /\ \A x \in Rest : RestRank(x) >= n => Page(Rest, n) # {}
<1>1. Rest \in SUBSET index /\ Rest \subseteq Events
  BY AskedIs DEF WalkBase, IndexTypeOK
<1> QED BY <1>1, PageHolds DEF RestRank, UpTo, Leading, Page, Ranked

LEMMA PaginatedReads ==
    ASSUME WalkBase, PaginatedWalk, ReadPaginated, UNCHANGED indexVars
    PROVE  PaginatedWalk'
<1>1. /\ walk.kind = "paginated" /\ walk.pc = "asking"
      /\ walk'.pc = "counting" /\ walk'.page = Page(Rest, walk.offset)
      /\ \A f \in {"kind", "pg", "query", "scope", "sort", "cursor", "offset", "total",
                   "given", "start", "repeated", "disturbed"} : walk'[f] = walk[f]
      /\ UNCHANGED <<index, current, times>> /\ walk.offset \in Nat
  BY ReadPaginatedIs DEF indexVars, WalkBase, WalkRecords
<1>2. /\ Rest' = Rest /\ \A x, e : Precedes(x, e)' <=> Precedes(x, e)
      /\ \A e : RestRank(e)' = RestRank(e)
      /\ \A S, n : UpTo(S, n)' = UpTo(S, n) /\ Page(S, n)' = Page(S, n)
  BY <1>1, FoundIs, SameRest
<1> SUFFICES ASSUME ~ walk.disturbed
             PROVE  PaginatedWalk'
  BY <1>1 DEF PaginatedWalk
<1>3. /\ ~ walk.repeated /\ walk.start \subseteq Rest
      /\ \A x \in Rest \ walk.start, e \in walk.start : ~ Precedes(x, e)
      /\ walk.cursor = 0 => walk.offset = 0
      /\ walk.given \subseteq UpTo(Rest, walk.offset)
      /\ \A e \in walk.start \ walk.given : RestRank(e) >= walk.offset
      /\ walk.cursor # 0 => walk.total >= Cardinality(walk.start)
  BY <1>1 DEF PaginatedWalk
<1>4. /\ \A x \in Rest : RestRank(x) \in Nat
      /\ \A x, y \in Rest : Precedes(x, y) <=> RestRank(x) < RestRank(y)
      /\ Page(Rest, walk.offset)
           = {x \in Rest : RestRank(x) \in walk.offset..(walk.offset + PageLimit - 1)}
      /\ \A x \in Rest : RestRank(x) >= walk.offset => Page(Rest, walk.offset) # {}
  BY <1>1, RestIs
<1>5. \A p \in walk'.page, x \in Rest :
         Precedes(x, p) => x \in walk'.page \/ RestRank(x) < walk.offset
  BY <1>1, <1>4, WalkAssumption
<1>6. \A e \in walk.start \ (walk.given \cup walk'.page) :
         RestRank(e) >= walk.offset + PageLimit /\ walk'.page # {}
  BY <1>1, <1>3, <1>4, WalkAssumption
<1>7. PageOK'
  BY <1>1, <1>2, <1>5, <1>6 DEF PageOK
<1> QED BY <1>1, <1>2, <1>3, <1>7 DEF PaginatedWalk

LEMMA PaginatedCounts ==
    ASSUME WalkBase, PaginatedWalk, CountAll, walk.kind = "paginated", UNCHANGED indexVars
    PROVE  PaginatedWalk'
<1>1. /\ walk.pc = "counting" /\ walk'.pc = "answering"
      /\ walk'.total = IF walk.kind = "paginated" /\ walk.cursor # 0
                       THEN walk.total ELSE Cardinality(Found)
      /\ \A f \in {"kind", "pg", "query", "scope", "sort", "cursor", "offset", "page",
                   "given", "start", "repeated", "disturbed"} : walk'[f] = walk[f]
      /\ UNCHANGED <<index, current, times>>
  BY CountAllIs DEF indexVars
<1>2. /\ Rest' = Rest /\ \A x, e : Precedes(x, e)' <=> Precedes(x, e)
      /\ \A e : RestRank(e)' = RestRank(e)
      /\ \A S, n : UpTo(S, n)' = UpTo(S, n) /\ Page(S, n)' = Page(S, n)
  BY <1>1, FoundIs, SameRest
<1> SUFFICES ASSUME ~ walk.disturbed
             PROVE  PaginatedWalk'
  BY <1>1 DEF PaginatedWalk
<1>3. Cardinality(Found) >= Cardinality(walk.start)
  <2>1. walk.start \subseteq Found
    BY <1>1 DEF PaginatedWalk, Rest
  <2> QED BY <2>1, AskedIs, FS_Subset, FS_CardinalityType DEF WalkBase
<1>4. walk'.total >= Cardinality(walk.start)
  BY <1>1, <1>3 DEF PaginatedWalk
<1>5. PageOK'
  BY <1>1, <1>2 DEF PageOK, PaginatedWalk
<1> QED BY <1>1, <1>2, <1>4, <1>5 DEF PaginatedWalk

\* An edge is kept if its rank in all the request asks for is below the total.
LEMMA EdgeIs ==
    ASSUME WalkBase, PageOK, NEW p \in walk.page
    PROVE  p \in Edges <=> RestRank(p) < walk.total
<1> DEFINE before == {x \in walk.page : Precedes(x, p)}
           lead == UpTo(Rest, walk.offset)
<1>1. walk.offset \in Nat /\ walk.total \in Nat
  BY DEF WalkBase, WalkRecords
<1>2. /\ Rest \in SUBSET index /\ \A x \in Rest : RestRank(x) \in Nat
      /\ \A x, y \in Rest : Precedes(x, y) <=> RestRank(x) < RestRank(y)
      /\ lead = {x \in Rest : RestRank(x) < walk.offset}
      /\ Page(Rest, walk.offset)
           = {x \in Rest : RestRank(x) \in walk.offset..(walk.offset + PageLimit - 1)}
  BY <1>1, RestIs
<1>3. /\ walk.page \subseteq Rest /\ \A x \in walk.page : RestRank(x) >= walk.offset
      /\ \A x \in Rest : Precedes(x, p) => x \in walk.page \/ RestRank(x) < walk.offset
  BY <1>2 DEF PageOK
<1>4. {x \in Rest : Precedes(x, p)} = lead \cup before /\ lead \cap before = {}
  BY <1>1, <1>2, <1>3
<1>5. IsFiniteSet(lead) /\ Cardinality(lead) = walk.offset
  BY <1>1, <1>2, <1>3, PageHolds DEF RestRank
<1>6. IsFiniteSet(before) /\ Cardinality(before) \in Nat
  <2>1. before \in SUBSET index /\ IsFiniteSet(index)
    BY DEF WalkBase
  <2> QED BY <2>1, FS_Subset, FS_CardinalityType
<1>7. RestRank(p) = Cardinality({x \in Rest : Precedes(x, p)})
  BY <1>3 DEF RestRank, Rank, Order
<1>8. RestRank(p) = walk.offset + Cardinality(before)
  <2> HIDE DEF lead, before
  <2>1. Cardinality(lead \cup before) = walk.offset + Cardinality(before)
    <3>1. Cardinality(lead \cup before)
            = Cardinality(lead) + Cardinality(before) - Cardinality(lead \cap before)
      BY <1>5, <1>6, FS_Union
    <3>2. Cardinality(lead \cap before) = 0
      BY <1>4, FS_EmptySet
    <3> QED BY <1>1, <1>5, <1>6, <3>1, <3>2
  <2> QED BY <1>4, <1>7, <2>1
<1>9. p \in Edges <=> Cardinality(before) + walk.offset < walk.total
  BY DEF Edges
<1> HIDE DEF before
<1> QED BY <1>1, <1>6, <1>8, <1>9

\* The first edge cuts nothing off: no event lies before it.
LEMMA FirstEdge ==
    ASSUME WalkBase, PaginatedWalk, AnswerPaginated, UNCHANGED indexVars,
           ~ walk.disturbed
    PROVE  Rest' = Rest
<1>1. /\ walk.kind = "paginated" /\ walk.pc = "answering"
      /\ Edges \subseteq walk.page
      /\ walk.cursor # 0 \/ Edges = {} => walk'.cursor = walk.cursor
      /\ walk.cursor = 0 /\ Edges # {} =>
            /\ walk'.cursor \in Edges
            /\ \A x \in Edges \ {walk'.cursor} : Precedes(walk'.cursor, x)
      /\ \A f \in {"kind", "pg", "query", "scope", "sort", "total", "start",
                   "disturbed"} : walk'[f] = walk[f]
      /\ UNCHANGED <<index, current, times>>
  BY AnswerPaginatedIs DEF indexVars
<1>2. Found' = Found
  BY <1>1, FoundIs
<1>3. Rest' = {e \in Found : walk'.cursor = 0 \/ AtOrBehind(e, walk'.cursor)}
  BY <1>1, <1>2, AskedPrimed
<1>4. CASE walk'.cursor = walk.cursor
  BY <1>3, <1>4 DEF Rest
<1>5. CASE walk.cursor = 0 /\ Edges # {}
  <2> DEFINE f == walk'.cursor
  <2>1. PageOK /\ walk.offset = 0 /\ Rest = Found
    BY <1>1, <1>5 DEF PaginatedWalk, Rest
  <2>2. /\ Rest \subseteq Events /\ \A x \in Rest : RestRank(x) \in Nat
        /\ \A x, y \in Rest : Precedes(x, y) <=> RestRank(x) < RestRank(y)
    BY RestIs
  <2>3. /\ walk.page \subseteq Rest /\ f \in Edges /\ f \in walk.page
        /\ \A x \in Edges \ {f} : Precedes(f, x)
    BY <1>1, <1>5, <2>1 DEF PageOK, Page, Ranked
  <2> HIDE DEF f
  <2>4. ASSUME NEW x \in Rest
        PROVE  x = f \/ Precedes(f, x)
    <3> SUFFICES ASSUME x # f, Precedes(x, f)
                 PROVE  FALSE
      BY <2>2, <2>3, OrderIs
    <3>1. x \in walk.page
      BY <2>1, <2>2, <2>3 DEF PageOK
    <3>2. RestRank(x) < walk.total
      <4>1. RestRank(f) < walk.total /\ RestRank(x) < RestRank(f) /\ walk.total \in Nat
        BY <2>1, <2>2, <2>3, EdgeIs DEF WalkBase, WalkRecords
      <4> QED BY <2>2, <2>3, <4>1
    <3>3. x \in Edges
      BY <2>1, <3>1, <3>2, EdgeIs
    <3> QED BY <2>2, <2>3, <3>3, OrderIs
  <2>5. \A x \in Rest : AtOrBehind(x, f)
    BY <2>2, <2>3, <2>4, BehindIs
  <2> QED BY <1>3, <2>1, <2>5 DEF f
<1> QED BY <1>1, <1>4, <1>5

LEMMA PaginatedAnswers ==
    ASSUME WalkBase, PaginatedWalk, AnswerPaginated, UNCHANGED indexVars
    PROVE  PaginatedWalk'
<1>1. /\ walk.kind = "paginated" /\ walk.pc = "answering"
      /\ Edges \subseteq walk.page
      /\ walk'.pc = IF Edges = {} \/ walk.offset + PageLimit >= walk.total
                    THEN "done" ELSE "asking"
      /\ walk'.offset = walk.offset + PageLimit
      /\ walk.cursor = 0 /\ Edges # {} => walk'.cursor \in Edges
      /\ walk'.given = walk.given \cup Edges
      /\ walk'.repeated = (walk.repeated \/ Edges \cap walk.given # {})
      /\ \A f \in {"kind", "pg", "query", "scope", "sort", "total", "start",
                   "disturbed"} : walk'[f] = walk[f]
      /\ UNCHANGED <<index, current, times>>
      /\ walk.cursor # 0 \/ Edges = {} => walk'.cursor = walk.cursor
  BY AnswerPaginatedIs DEF indexVars
<1> SUFFICES ASSUME ~ walk.disturbed
             PROVE  PaginatedWalk'
  BY <1>1 DEF PaginatedWalk
<1>2. Rest' = Rest
  BY FirstEdge
<1>3. /\ \A x, e : Precedes(x, e)' <=> Precedes(x, e)
      /\ \A S : Order(S)' = Order(S)
  BY <1>1, SameOrder
<1>4. /\ \A e : RestRank(e)' = RestRank(e)
      /\ UpTo(Rest, walk.offset)' = UpTo(Rest, walk'.offset)
  BY <1>2, <1>3 DEF RestRank, UpTo
<1>5. /\ ~ walk.repeated /\ walk.start \subseteq Rest
      /\ \A x \in Rest \ walk.start, e \in walk.start : ~ Precedes(x, e)
      /\ walk.cursor = 0 => walk.offset = 0
      /\ walk.given \subseteq UpTo(Rest, walk.offset)
      /\ PageOK
      /\ walk.total >= Cardinality(walk.start)
  BY <1>1 DEF PaginatedWalk
<1>6. /\ walk.offset \in Nat /\ walk.total \in Nat /\ PageLimit \in Nat \ {0}
      /\ Cardinality(walk.start) \in Nat
  <2>1. walk.start \in SUBSET index
    BY DEF WalkBase
  <2> QED BY <2>1, PageHolds, WalkAssumption DEF WalkBase, WalkRecords
<1>7. /\ Rest \in SUBSET index /\ \A x \in Rest : RestRank(x) \in Nat
      /\ UpTo(Rest, walk.offset) = {x \in Rest : RestRank(x) < walk.offset}
      /\ Page(Rest, walk.offset)
           = {x \in Rest : RestRank(x) \in walk.offset..(walk.offset + PageLimit - 1)}
  BY <1>6, RestIs
<1>8. UpTo(Rest, walk'.offset) = {x \in Rest : RestRank(x) < walk.offset + PageLimit}
  <2>1. walk.offset + PageLimit \in Nat
    BY <1>6
  <2> QED BY <1>1, <2>1, RestIs
<1>9. /\ \A p \in walk.page : /\ p \in Rest /\ RestRank(p) >= walk.offset
                              /\ RestRank(p) < walk.offset + PageLimit
      /\ \A e \in walk.start \ (walk.given \cup walk.page) :
            RestRank(e) >= walk.offset + PageLimit /\ walk.page # {}
  BY <1>5, <1>6, <1>7 DEF PageOK
<1>10. \A p \in walk.page : p \in Edges <=> RestRank(p) < walk.total
  BY <1>5, EdgeIs
<1>11. \A e \in walk.start : RestRank(e) < walk.total
  <2>1. \A e \in walk.start : RestRank(e) < Cardinality(walk.start)
    BY <1>5, <1>7, InitialRanks DEF RestRank
  <2> QED BY <1>5, <1>6, <1>7, <2>1
<1>12. Edges \cap walk.given = {}
  BY <1>1, <1>5, <1>6, <1>7, <1>9
<1>13. walk'.given \subseteq UpTo(Rest, walk'.offset)
  BY <1>1, <1>5, <1>6, <1>7, <1>8, <1>9
<1>14. \A e \in walk.start \ walk'.given : /\ RestRank(e) >= walk.offset + PageLimit
                                           /\ walk.page # {}
  BY <1>1, <1>9, <1>10, <1>11
<1>15. ASSUME walk'.pc = "done"
       PROVE  walk.start \subseteq walk'.given
  <2> SUFFICES ASSUME NEW e \in walk.start \ walk'.given
               PROVE  FALSE
    OBVIOUS
  <2>1. RestRank(e) >= walk.offset + PageLimit /\ RestRank(e) < walk.total
        /\ RestRank(e) \in Nat
    BY <1>5, <1>7, <1>11, <1>14
  <2>2. Edges = {}
    BY <1>1, <1>6, <1>15, <2>1
  <2>3. PICK p \in walk.page : TRUE
    BY <1>14
  <2>4. RestRank(p) < walk.total
    BY <1>6, <1>7, <1>9, <2>1
  <2> QED BY <1>10, <2>2, <2>4
<1>16. walk'.pc # "done" => walk'.cursor # 0
  <2>1. 0 \notin Events /\ Edges \subseteq Events
    BY <1>1, IndexAssumption DEF WalkBase, IndexTypeOK
  <2> QED BY <1>1, <2>1
<1>17. walk'.pc = "asking" => \A e \in walk.start \ walk'.given : RestRank(e) >= walk'.offset
  BY <1>1, <1>14
<1> QED
  BY <1>1, <1>2, <1>3, <1>4, <1>5, <1>12, <1>13, <1>15, <1>16, <1>17 DEF PaginatedWalk

LEMMA PaginatedIndexed ==
    ASSUME WalkBase, PaginatedWalk, NEW e \in Events, IndexEventInWalk(e),
           walk.kind = "paginated"
    PROVE  PaginatedWalk'
<1> SUFFICES ASSUME ~ walk'.disturbed
             PROVE  PaginatedWalk'
  BY DEF PaginatedWalk
<1> DEFINE held == walk.start \cup walk.page \cup walk.given
<1>1. /\ ~ walk.disturbed /\ Rest \subseteq Rest'
      /\ \A x \in Rest' \ Rest, k \in held : ~ Precedes(x, k)
      /\ \A k \in held \cap Rest : RestRank(k)' = RestRank(k)
      /\ \A x \in Rest, k \in held \cap Rest :
            Precedes(x, k) => RestRank(x)' = RestRank(x)
      /\ \A x, y : Precedes(x, y)' <=> Precedes(x, y)
      /\ \A f \in {"kind", "pc", "pg", "query", "scope", "sort", "cursor", "offset",
                   "total", "page", "given", "start", "repeated"} : walk'[f] = walk[f]
      /\ WalkBase'
  BY Undisturbed
<1>2. /\ ~ walk.repeated /\ walk.start \subseteq Rest
      /\ \A x \in Rest \ walk.start, s \in walk.start : ~ Precedes(x, s)
      /\ walk.pc # "done" =>
            /\ walk.cursor = 0 => walk.offset = 0
            /\ walk.given \subseteq UpTo(Rest, walk.offset)
      /\ walk.pc = "asking" =>
            \A s \in walk.start \ walk.given : RestRank(s) >= walk.offset
      /\ walk.pc \in {"counting", "answering"} => PageOK
      /\ walk.pc = "answering" \/ walk.cursor # 0 => walk.total >= Cardinality(walk.start)
      /\ walk.pc = "done" => walk.start \subseteq walk.given
  BY <1>1 DEF PaginatedWalk
<1>3. walk.offset \in Nat
  BY DEF WalkBase, WalkRecords
<1>4. /\ UpTo(Rest, walk.offset) = {x \in Rest : RestRank(x) < walk.offset}
      /\ Page(Rest, walk.offset)
           = {x \in Rest : RestRank(x) \in walk.offset..(walk.offset + PageLimit - 1)}
  BY <1>3, RestIs
<1>5. /\ UpTo(Rest, walk.offset)' = {x \in Rest' : RestRank(x)' < walk.offset}
      /\ Page(Rest, walk.offset)'
           = {x \in Rest' : RestRank(x)' \in walk.offset..(walk.offset + PageLimit - 1)}
  BY <1>1 DEF UpTo, Leading, Page, Ranked, RestRank
<1>6. \A x \in Rest' \ walk.start, s \in walk.start : ~ Precedes(x, s)
  BY <1>1, <1>2
<1>7. walk.given \subseteq UpTo(Rest, walk.offset)
        => walk.given \subseteq UpTo(Rest, walk.offset)'
  BY <1>1, <1>4, <1>5
<1>8. ASSUME PageOK
      PROVE  PageOK'
  <2>1. walk.page \subseteq Rest
    BY <1>4, <1>8 DEF PageOK
  <2>2. walk.page \subseteq Page(Rest, walk.offset)'
    BY <1>1, <1>4, <1>5, <1>8, <2>1 DEF PageOK
  <2>3. \A p \in walk.page, x \in Rest' :
           Precedes(x, p) => x \in walk.page \/ RestRank(x)' < walk.offset
    <3> SUFFICES ASSUME NEW p \in walk.page, NEW x \in Rest', Precedes(x, p),
                        x \notin walk.page
                 PROVE  RestRank(x)' < walk.offset
      OBVIOUS
    <3>1. x \in Rest
      BY <1>1
    <3>2. RestRank(x) < walk.offset
      BY <1>8, <3>1 DEF PageOK
    <3> QED BY <1>1, <2>1, <3>1, <3>2
  <2>4. \A s \in walk.start \ (walk.given \cup walk.page) :
           RestRank(s)' >= walk.offset + PageLimit /\ walk.page # {}
    BY <1>1, <1>2, <1>8 DEF PageOK
  <2> QED BY <1>1, <2>2, <2>3, <2>4 DEF PageOK
<1>9. walk.pc = "asking" => \A s \in walk.start \ walk.given : RestRank(s)' >= walk.offset
  BY <1>1, <1>2
<1> QED BY <1>1, <1>2, <1>6, <1>7, <1>8, <1>9 DEF PaginatedWalk

LEMMA PaginatedStep ==
    ASSUME WalkBase, PaginatedWalk, [Next]_vars
    PROVE  PaginatedWalk'
<1>1. ASSUME walk.kind # "none", NEW e \in Events, IndexEventInWalk(e)
      PROVE  PaginatedWalk'
  <2>1. walk'.kind = walk.kind
    BY <1>1, IndexedIs
  <2> QED BY <1>1, <2>1, PaginatedIndexed DEF PaginatedWalk
<1>2. CASE walk'.kind = "none"
  BY <1>2 DEF PaginatedWalk
<1>3. CASE Quiet
  <2>1. UNCHANGED <<times, walk>> /\ Found' = Found
    BY <1>3 DEF Quiet
  <2>2. /\ Rest' = Rest /\ \A x, e : Precedes(x, e)' <=> Precedes(x, e)
        /\ \A e : RestRank(e)' = RestRank(e)
        /\ \A S, n : UpTo(S, n)' = UpTo(S, n) /\ Page(S, n)' = Page(S, n)
    BY <2>1, SameRest
  <2>3. PageOK' = PageOK
    BY <2>1, <2>2 DEF PageOK
  <2> QED BY <2>1, <2>2, <2>3 DEF PaginatedWalk
<1>4. ASSUME UNCHANGED indexVars,
             NEW kind \in {"search", "paginated", "viewer", "counts", "scroll"},
             NEW pg \in BOOLEAN, NEW ask \in Asks, NEW sort \in {"asc", "desc"},
             Starts(kind, pg, ask, sort)
      PROVE  PaginatedWalk'
  <2>1. /\ walk'.pc = "asking" /\ walk'.given = {} /\ walk'.repeated = FALSE
        /\ walk'.start = Found' /\ walk'.offset = 0 /\ walk'.cursor = 0 /\ WalkBase'
    BY <1>4, BaseStarts DEF Starts
  <2>2. (\A e \in Rest : RestRank(e) \in Nat)'
    BY <2>1, RestRanks, PTL
  <2>3. Rest' = Found'
    BY <2>1 DEF Rest
  <2> QED BY <2>1, <2>2, <2>3 DEF PaginatedWalk
<1>5. CASE UNCHANGED indexVars /\ WalkStep
  <2>1. CASE walk.kind = "paginated"
    BY <1>5, <2>1, KindKept, PaginatedReads, PaginatedCounts, PaginatedAnswers
  <2>2. CASE walk.kind # "paginated"
    BY <1>5, <2>2, KindKept DEF PaginatedWalk
  <2> QED BY <2>1, <2>2
<1>6. CASE walk'.disturbed
  BY <1>6 DEF PaginatedWalk
<1> QED BY <1>1, <1>2, <1>3, <1>4, <1>5, <1>6, StepCases

-----------------------------------------------------------------------------
(* The viewer's offsets *)

\* ViewerWalk, likewise.
LEMMA ViewerInit == Init => ViewerWalk
  BY DEF Init, WalkInit, NoWalk, ViewerWalk

\* With times all different, a page at an offset holds the ranks from there.
LEMMA OffsetPageIs ==
    ASSUME WalkBase, DistinctTimes, walk.kind = "viewer", walk.cursor = 0,
           NEW page \in SUBSET Found, NEW before \in SUBSET Found,
           IsOffsetPage(page, before)
    PROVE  /\ \A p \in page : /\ RestRank(p) >= walk.offset
                              /\ RestRank(p) < walk.offset + PageLimit
           /\ \A e \in before : RestRank(e) < walk.offset
           /\ \A e \in Found \ (before \cup page) : RestRank(e) >= walk.offset + PageLimit
<1> DEFINE rest == Found \ (before \cup page)
<1>1. /\ page \cap before = {} /\ Cardinality(before) = walk.offset
      /\ Cardinality(page) <= PageLimit /\ (rest # {} => Cardinality(page) = PageLimit)
      /\ \A e \in before, x \in page \cup rest : CanonicalTime(e) >= CanonicalTime(x)
      /\ \A e \in page, x \in rest : CanonicalTime(e) >= CanonicalTime(x)
  BY DEF IsOffsetPage
<1>2. /\ Found \subseteq index /\ Found \subseteq Events
      /\ \A e \in Events : CanonicalTime(e) \in Nat
      /\ walk.offset \in Nat /\ PageLimit \in Nat \ {0} /\ walk.sort = "desc"
      /\ IsFiniteSet(index) /\ Rest = Found
  <2>1. \A e \in Events : CanonicalTime(e) \in 0..MaxTime
    BY CanonicalTimeType DEF WalkBase
  <2>2. \A e \in Events : CanonicalTime(e) \in Nat
    BY <2>1, IndexAssumption
  <2>3. walk.offset \in Nat /\ walk.sort = "desc"
    BY DEF WalkBase, WalkRecords, KindsOK
  <2>4. index \subseteq Events /\ IsFiniteSet(index)
    BY DEF WalkBase, IndexTypeOK
  <2>5. Found \subseteq index
    BY AskedIs
  <2>6. Rest = Found
    BY DEF Rest
  <2> QED BY <2>2, <2>3, <2>4, <2>5, <2>6, WalkAssumption
<1> HIDE DEF rest
<1>3. /\ \A e \in before, x \in page \cup rest : Precedes(e, x) /\ ~ Precedes(x, e)
      /\ \A e \in page, x \in rest : Precedes(e, x) /\ ~ Precedes(x, e)
  <2>1. \A e, x \in Found : e # x => CanonicalTime(e) # CanonicalTime(x)
    BY <1>2 DEF DistinctTimes
  <2>2. \A e, x \in Found : CanonicalTime(e) > CanonicalTime(x) =>
           Precedes(e, x) /\ ~ Precedes(x, e)
    BY <1>2 DEF Precedes, Older
  <2> QED BY <1>1, <1>2, <2>1, <2>2 DEF rest
<1>4. /\ IsFiniteSet(before) /\ IsFiniteSet(page) /\ IsFiniteSet(Found)
      /\ Cardinality(page) \in Nat
  BY <1>2, FS_Subset, FS_CardinalityType
<1>5. \A e \in Found : /\ RestRank(e) = Cardinality({x \in Found : Precedes(x, e)})
                       /\ ~ Precedes(e, e)
  BY <1>2, OrderIs DEF RestRank, Rank, Order
<1>6. Cardinality(before \cup page) = walk.offset + Cardinality(page)
  <2>1. Cardinality(before \cup page)
          = Cardinality(before) + Cardinality(page) - Cardinality(before \cap page)
    BY <1>4, FS_Union
  <2>2. Cardinality(before \cap page) = 0
    BY <1>1, FS_EmptySet
  <2> QED BY <1>1, <1>2, <1>4, <2>1, <2>2
<1>7. IsFiniteSet(before \cup page)
  BY <1>4, FS_Union
<1>8. ASSUME NEW S \in SUBSET Found, NEW e \in Found, e \notin S,
             \A x \in Found : Precedes(x, e) => x \in S \/ x = e
      PROVE  RestRank(e) \in Nat /\ RestRank(e) <= Cardinality(S)
  <2>1. {x \in Found : Precedes(x, e)} \in SUBSET S /\ IsFiniteSet(S)
    BY <1>4, <1>5, <1>8, FS_Subset
  <2> QED BY <1>5, <2>1, FS_Subset, FS_CardinalityType
<1>9. ASSUME NEW S \in SUBSET Found, NEW e \in Found, \A x \in S : Precedes(x, e)
      PROVE  RestRank(e) \in Nat /\ RestRank(e) >= Cardinality(S)
  <2>1. S \in SUBSET {x \in Found : Precedes(x, e)}
    BY <1>9
  <2>2. IsFiniteSet({x \in Found : Precedes(x, e)}) /\ IsFiniteSet(S)
    BY <1>4, FS_Subset
  <2> QED BY <1>5, <2>1, <2>2, FS_Subset, FS_CardinalityType
<1>10. ASSUME NEW e \in before
       PROVE  RestRank(e) < walk.offset
  <2>1. RestRank(e) \in Nat /\ RestRank(e) <= Cardinality(before \ {e})
    <3>1. \A x \in Found : Precedes(x, e) => x \in before \ {e} \/ x = e
      BY <1>3 DEF rest
    <3> QED BY <1>8, <3>1
  <2>2. Cardinality(before \ {e}) = walk.offset - 1
    BY <1>1, <1>4, FS_RemoveElement
  <2> QED BY <1>2, <2>1, <2>2
<1>11. ASSUME NEW p \in page
       PROVE  RestRank(p) >= walk.offset /\ RestRank(p) < walk.offset + PageLimit
  <2>1. RestRank(p) \in Nat /\ RestRank(p) >= walk.offset
    BY <1>1, <1>3, <1>9
  <2>2. RestRank(p) <= Cardinality((before \cup page) \ {p})
    <3>1. \A x \in Found : Precedes(x, p) => x \in (before \cup page) \ {p} \/ x = p
      BY <1>3 DEF rest
    <3> QED BY <1>8, <3>1
  <2>3. Cardinality((before \cup page) \ {p}) = walk.offset + Cardinality(page) - 1
    <3>1. p \in before \cup page
      OBVIOUS
    <3>2. Cardinality((before \cup page) \ {p}) = Cardinality(before \cup page) - 1
      BY <1>7, <3>1, FS_RemoveElement
    <3> QED BY <1>2, <1>4, <1>6, <3>2
  <2> QED BY <1>1, <1>2, <1>4, <2>1, <2>2, <2>3
<1>12. ASSUME NEW e \in rest
       PROVE  RestRank(e) >= walk.offset + PageLimit
  <2>1. e \in Found /\ \A x \in before \cup page : Precedes(x, e)
    BY <1>3 DEF rest
  <2>2. RestRank(e) >= Cardinality(before \cup page)
    BY <1>9, <2>1
  <2>3. Cardinality(page) = PageLimit
    BY <1>1
  <2> QED BY <1>6, <2>2, <2>3
<1> QED BY <1>10, <1>11, <1>12 DEF rest

\* What the client has by then, and what it has not, lies on the two sides of the
\* next offset.
LEMMA ViewerReads ==
    ASSUME WalkBase, ViewerWalk, ReadOffset, UNCHANGED indexVars
    PROVE  ViewerWalk'
<1> SUFFICES ASSUME DistinctTimes', ~ walk'.disturbed
             PROVE  ViewerWalk'
  BY DEF ViewerWalk
<1>1. /\ walk.kind = "viewer" /\ walk.pc = "asking"
      /\ walk'.pc = IF walk.offset + PageLimit >= Cardinality(Found) THEN "done" ELSE "asking"
      /\ walk'.offset = walk.offset + PageLimit
      /\ \A f \in {"kind", "pg", "query", "scope", "sort", "cursor", "start", "disturbed"} :
            walk'[f] = walk[f]
  BY ReadOffsetIs
<1>2. PICK page \in SUBSET Found, before \in SUBSET Found :
         /\ IsOffsetPage(page, before)
         /\ walk'.given = walk.given \cup page
         /\ walk'.repeated = (walk.repeated \/ page \cap walk.given # {})
  BY ReadOffsetIs
<1>3. UNCHANGED <<index, current, times>>
  BY DEF indexVars
<1>4. DistinctTimes /\ ~ walk.disturbed
  <2>1. \A e : CanonicalTime(e)' = CanonicalTime(e)
    BY <1>3 DEF CanonicalTime, times
  <2> QED BY <1>1, <1>3, <2>1 DEF DistinctTimes
<1>5. /\ ~ walk.repeated /\ walk.start \subseteq Rest /\ walk.cursor = 0
      /\ walk.given \subseteq UpTo(Rest, walk.offset)
      /\ \A e \in walk.start \ walk.given : RestRank(e) >= walk.offset
  BY <1>1, <1>4 DEF ViewerWalk
<1>6. /\ \A p \in page : RestRank(p) >= walk.offset /\ RestRank(p) < walk.offset + PageLimit
      /\ \A e \in before : RestRank(e) < walk.offset
      /\ \A e \in Found \ (before \cup page) : RestRank(e) >= walk.offset + PageLimit
  BY <1>1, <1>2, <1>4, <1>5, OffsetPageIs
<1>7. walk.offset \in Nat /\ PageLimit \in Nat \ {0} /\ Rest = Found
  BY <1>5, WalkAssumption DEF WalkBase, WalkRecords, Rest
<1>8. /\ Rest' = Rest /\ \A e : RestRank(e)' = RestRank(e)
      /\ \A S, n : UpTo(S, n)' = UpTo(S, n)
  BY <1>1, <1>3, FoundIs, SameRest
<1>9. /\ Rest \in SUBSET index /\ \A x \in Rest : RestRank(x) \in Nat
      /\ UpTo(Rest, walk.offset) = {x \in Rest : RestRank(x) < walk.offset}
  BY <1>7, RestIs
<1>10. UpTo(Rest, walk.offset + PageLimit)
         = {x \in Rest : RestRank(x) < walk.offset + PageLimit}
  BY <1>7, RestIs
<1>11. page \cap walk.given = {} /\ ~ walk'.repeated
  <2>1. ASSUME NEW p \in page, p \in walk.given
        PROVE  FALSE
    <3>1. p \in Rest /\ RestRank(p) < walk.offset
      BY <1>5, <1>9, <2>1
    <3>2. RestRank(p) >= walk.offset /\ RestRank(p) \in Nat
      BY <1>6, <1>9, <3>1
    <3> QED BY <1>7, <3>1, <3>2
  <2> QED BY <1>2, <1>5, <2>1
<1>12. walk'.given \subseteq UpTo(Rest, walk.offset)'
  <2>1. walk.given \cup page \subseteq {x \in Rest : RestRank(x) < walk.offset + PageLimit}
    <3>1. \A p \in page : p \in Rest /\ RestRank(p) < walk.offset + PageLimit
      BY <1>6, <1>7
    <3>2. ASSUME NEW g \in walk.given
          PROVE  g \in Rest /\ RestRank(g) < walk.offset + PageLimit
      <4>1. g \in Rest /\ RestRank(g) < walk.offset /\ RestRank(g) \in Nat
        BY <1>5, <1>9
      <4> QED BY <1>7, <4>1
    <3> QED BY <3>1, <3>2
  <2>2. UpTo(Rest, walk.offset)' = UpTo(Rest, walk.offset + PageLimit)
    BY <1>1, <1>8 DEF UpTo, Leading, Rank
  <2> QED BY <1>2, <1>10, <2>1, <2>2
<1>13. \A e \in walk.start \ (walk.given \cup page) :
          /\ e \in Found \ (before \cup page)
          /\ RestRank(e) >= walk.offset + PageLimit
  BY <1>5, <1>6, <1>7, <1>9
<1>14. walk'.pc = "done" => walk.start \subseteq walk.given \cup page
  <2> SUFFICES ASSUME walk.offset + PageLimit >= Cardinality(Found),
                      NEW e \in walk.start, e \notin walk.given \cup page
               PROVE  FALSE
    BY <1>1
  <2>1. RestRank(e) >= walk.offset + PageLimit /\ e \in Rest
    BY <1>7, <1>13
  <2>2. RestRank(e) \in Nat /\ RestRank(e) < Cardinality(Rest)
    BY <1>9, <2>1, PageHolds DEF RestRank
  <2>3. Cardinality(Rest) \in Nat
    BY <1>9, PageHolds
  <2> QED BY <1>7, <2>1, <2>2, <2>3
<1>15. \A e \in walk'.start \ walk'.given : RestRank(e)' >= walk'.offset
  BY <1>1, <1>2, <1>8, <1>13
<1> QED BY <1>1, <1>2, <1>5, <1>8, <1>11, <1>12, <1>14, <1>15 DEF ViewerWalk

LEMMA ViewerIndexed ==
    ASSUME WalkBase, ViewerWalk, NEW e \in Events, IndexEventInWalk(e),
           walk.kind = "viewer"
    PROVE  ViewerWalk'
<1> SUFFICES ASSUME DistinctTimes', ~ walk'.disturbed
             PROVE  ViewerWalk'
  BY DEF ViewerWalk
<1> DEFINE held == walk.start \cup walk.page \cup walk.given
<1>1. /\ ~ walk.disturbed /\ Rest \subseteq Rest'
      /\ \A k \in held \cap Rest : RestRank(k)' = RestRank(k)
      /\ \A f \in {"kind", "pc", "pg", "query", "scope", "sort", "cursor", "offset",
                   "total", "page", "given", "start", "repeated"} : walk'[f] = walk[f]
      /\ WalkBase'
  BY Undisturbed
<1>2. DistinctTimes
  <2>1. index' = index \cup {e} /\ UNCHANGED times
    BY IndexedIs
  <2>2. \A x : CanonicalTime(x)' = CanonicalTime(x)
    BY <2>1 DEF CanonicalTime, times
  <2> QED BY <2>1, <2>2 DEF DistinctTimes
<1>3. /\ ~ walk.repeated /\ walk.start \subseteq Rest /\ walk.cursor = 0
      /\ walk.pc = "asking" =>
            /\ walk.given \subseteq UpTo(Rest, walk.offset)
            /\ \A s \in walk.start \ walk.given : RestRank(s) >= walk.offset
      /\ walk.pc = "done" => walk.start \subseteq walk.given
  BY <1>1, <1>2 DEF ViewerWalk
<1>4. walk.offset \in Nat
  BY DEF WalkBase, WalkRecords
<1>5. UpTo(Rest, walk.offset) = {x \in Rest : RestRank(x) < walk.offset}
  BY <1>4, RestIs
<1>6. (UpTo(Rest, walk.offset) = {x \in Rest : RestRank(x) < walk.offset})'
  BY <1>1 DEF UpTo, Leading, RestRank
<1>7. walk.pc = "asking" => walk'.given \subseteq UpTo(Rest, walk.offset)'
  BY <1>1, <1>3, <1>5, <1>6
<1>8. walk.pc = "asking" =>
         \A s \in walk'.start \ walk'.given : RestRank(s)' >= walk'.offset
  BY <1>1, <1>3
<1> QED BY <1>1, <1>3, <1>7, <1>8 DEF ViewerWalk

LEMMA ViewerStep ==
    ASSUME WalkBase, ViewerWalk, [Next]_vars
    PROVE  ViewerWalk'
<1>1. ASSUME walk.kind # "none", NEW e \in Events, IndexEventInWalk(e)
      PROVE  ViewerWalk'
  <2>1. walk'.kind = walk.kind
    BY <1>1, IndexedIs
  <2> QED BY <1>1, <2>1, ViewerIndexed DEF ViewerWalk
<1>2. CASE walk'.kind = "none"
  BY <1>2 DEF ViewerWalk
<1>3. CASE Quiet
  <2>1. UNCHANGED <<index, times, walk>> /\ Found' = Found
    BY <1>3 DEF Quiet
  <2>2. /\ Rest' = Rest /\ \A e : RestRank(e)' = RestRank(e)
        /\ \A S, n : UpTo(S, n)' = UpTo(S, n)
    BY <2>1, SameRest
  <2>3. DistinctTimes' = DistinctTimes
    BY <2>1 DEF DistinctTimes, CanonicalTime, times
  <2> QED BY <2>1, <2>2, <2>3 DEF ViewerWalk
<1>4. ASSUME UNCHANGED indexVars,
             NEW kind \in {"search", "paginated", "viewer", "counts", "scroll"},
             NEW pg \in BOOLEAN, NEW ask \in Asks, NEW sort \in {"asc", "desc"},
             Starts(kind, pg, ask, sort)
      PROVE  ViewerWalk'
  <2>1. /\ walk'.pc = "asking" /\ walk'.given = {} /\ walk'.repeated = FALSE
        /\ walk'.start = Found' /\ walk'.offset = 0 /\ walk'.cursor = 0 /\ WalkBase'
    BY <1>4, BaseStarts DEF Starts
  <2>2. (\A e \in Rest : RestRank(e) \in Nat)'
    BY <2>1, RestRanks, PTL
  <2>3. Rest' = Found'
    BY <2>1 DEF Rest
  <2> QED BY <2>1, <2>2, <2>3 DEF ViewerWalk
<1>5. CASE UNCHANGED indexVars /\ WalkStep
  <2>1. CASE walk.kind = "viewer"
    BY <1>5, <2>1, KindKept, ViewerReads
  <2>2. CASE walk.kind # "viewer"
    BY <1>5, <2>2, KindKept DEF ViewerWalk
  <2> QED BY <2>1, <2>2
<1>6. CASE walk'.disturbed
  BY <1>6 DEF ViewerWalk
<1> QED BY <1>1, <1>2, <1>3, <1>4, <1>5, <1>6, StepCases

\* Neither repeats or skips what was there at the start, as long as nothing is
\* indexed that moves the rows an offset counts: AnswerPaginated takes the cursor
\* of its first page, the viewer's searchEvents relies on the times.
THEOREM OffsetsAreStable == Spec => []OffsetWalkIsStable
<1>1. Init => PaginatedWalk /\ ViewerWalk
  BY PaginatedInit, ViewerInit
<1>2. WalkBase /\ PaginatedWalk /\ ViewerWalk /\ [Next]_vars
        => (PaginatedWalk /\ ViewerWalk)'
  BY PaginatedStep, ViewerStep
<1>3. PaginatedWalk /\ ViewerWalk => OffsetWalkIsStable
  BY DEF PaginatedWalk, ViewerWalk, OffsetWalkIsStable
<1> QED BY <1>1, <1>2, <1>3, BaseInvariance, PTL DEF Spec

=============================================================================
