----------------------------- MODULE EventSearch -----------------------------
(***************************************************************************)
(* A client that walks through what a search finds, page by page, in one   *)
(* of the five ways the API has:                                           *)
(*   "search"     GraphQL search: first/after or last/before, each page     *)
(*                after the cursor of the last edge of the one before;      *)
(*   "paginated"  GraphQL searchPaginated: offsets into what lies at or     *)
(*                behind the cursor of the first edge of the first page;    *)
(*   "counts"     GraphQL counts: a position in the list of actions, which  *)
(*                every request aggregates anew;                            *)
(*   "viewer"     the searchEvents endpoints: offsets into all of it;       *)
(*   "scroll"     doAllQuery for saved exports: a snapshot Elasticsearch   *)
(*                keeps.                                                    *)
(* Searches run against Elasticsearch or, with PG_SEARCH, against Postgres. *)
(* The viewer's endpoints read every index; the others name theirs with    *)
(* scope(), the write alias, and so lose sight of what was indexed before  *)
(* a rotation.  A request reads its page and the total in separate         *)
(* queries, and events are indexed, and the index is rotated, between any  *)
(* two of them.  searchAdHoc, a scroll over every index with the clauses   *)
(* of the viewer's endpoints, is left out.                                 *)
(*                                                                         *)
(* A query maps each keyword to the values given for it, each a set of     *)
(* words; a document maps each field to its words.  How Elasticsearch and  *)
(* Postgres split text into words is left out: that filter joins adjacent  *)
(* values of the text without a space (filter.ts:277) and cuts each off at *)
(* a colon (filter.ts:281) too.                                            *)
(***************************************************************************)
EXTENDS SearchIndex

CONSTANTS
    Docs,         \* the document of each event
    Asks,         \* queries, each with the group it is confined to, or {}
    PageLimit,    \* the client's first, last or pageLimit
    MaxBuckets    \* terms an aggregation returns when it is given no size

ASSUME WalkAssumption == PageLimit \in Nat \ {0} /\ MaxBuckets \in Nat

VARIABLE walk

-----------------------------------------------------------------------------
(* Queries *)

Keywords == {"action", "crud", "actor_id", "actor_name", "description", "external_id",
             "target_id", "location", "text"}

\* A query names finitely many values of finitely many words, a document
\* finitely many actions.
ASSUME TextAssumption ==
    /\ \A ask \in Asks : \A k \in Keywords :
          IsFiniteSet(ask.query[k]) /\ \A value \in ask.query[k] : IsFiniteSet(value)
    /\ \A e \in Events :
          IsFiniteSet(Docs[e]["action"]) /\ Docs[e]["action"] \subseteq Nat

Given(q, k) == q[k] # {}

Words(q, k) == UNION q[k]

\* models/event/query: "match" takes any of the words unless its operator is
\* "and", and there is one value, except of crud.  A target is no keyword: it
\* stays in the text, where query_string reads it as a field.
EsClause(q, k, doc) ==
    CASE k \in {"crud", "actor_name", "description", "location"} ->
            Words(q, k) \cap doc[k] # {}
      [] OTHER -> Words(q, k) \subseteq doc[k]

\* The documents of a group, or of one published for a team of that name.
EsInScope(scope, doc) == scope \subseteq doc["group"] \cup doc["team_id"]

EsMatches(q, scope, doc) ==
    /\ \A k \in Keywords : Given(q, k) => EsClause(q, k, doc)
    /\ EsInScope(scope, doc)

\* Mutant: several values must all be there.
PgClauseAll(q, k, doc) ==
    CASE k = "description" -> Words(q, k) \subseteq doc[k]
      [] k \in {"location", "text"} -> Words(q, k) \subseteq doc["text"]
      [] OTHER -> \A value \in q[k] : value \subseteq doc[k]

\* models/event/filter: any of the values, all words of it; all words of all
\* values of the description; the location is added to the text.
PgClause(q, k, doc) ==
    CASE k = "description" -> Words(q, k) \subseteq doc[k]
      [] k \in {"location", "text"} -> Words(q, k) \subseteq doc["text"]
      [] OTHER -> \E value \in q[k] : value \subseteq doc[k]

PgMatches(q, scope, doc) ==
    /\ \A k \in Keywords : Given(q, k) => PgClause(q, k, doc)
    /\ scope \subseteq doc["group"]

\* models/event/search: any of the values; events of a crud that is not asked for
\* are left out, so that without any only events that name none are found.
SearchMatches(q, scope, doc) ==
    /\ Given(q, "text") => Words(q, "text") \cap doc["text"] # {}
    /\ \A k \in {"target_id", "actor_id", "action"} :
          Given(q, k) => \E value \in q[k] : value \subseteq doc[k]
    /\ doc["crud"] \cap ({"c", "r", "u", "d"} \ Words(q, "crud")) = {}
    /\ EsInScope(scope, doc)

\* scope() names the write alias, the viewer's endpoints the search alias;
\* Postgres has one table.
ReadsCurrent(kind, pg) == kind # "viewer" /\ ~ pg

Searched(kind, pg) == IF ReadsCurrent(kind, pg) THEN current ELSE index

Finds(kind, pg, q, scope) ==
    {e \in Searched(kind, pg) :
        CASE kind = "viewer" -> SearchMatches(q, scope, Docs[e])
          [] kind # "viewer" /\ pg -> PgMatches(q, scope, Docs[e])
          [] OTHER -> EsMatches(q, scope, Docs[e])}

Found == Finds(walk.kind, walk.pg, walk.query, walk.scope)

-----------------------------------------------------------------------------
(* Order and cursors *)

Older(e, x) ==
    \/ CanonicalTime(e) < CanonicalTime(x)
    \/ CanonicalTime(e) = CanonicalTime(x) /\ e < x

Precedes(e, x) == IF walk.sort = "asc" THEN Older(e, x) ELSE Older(x, e)

EarlierTime(e, x) ==
    IF walk.sort = "asc" THEN CanonicalTime(e) < CanonicalTime(x)
                         ELSE CanonicalTime(e) > CanonicalTime(x)

EarlierId(e, x) == IF walk.sort = "asc" THEN e < x ELSE e > x

\* The slice [from, from + PageLimit) of a set that `before' orders.
Slice(S, before(_, _), from) ==
    {e \in S : Cardinality({x \in S : before(x, e)}) \in from..(from + PageLimit - 1)}

\* searchParams: not before the cursor's time, and behind it by time or by id.
EsBehind(e, c) == ~ EarlierTime(e, c) /\ (EarlierTime(c, e) \/ EarlierId(c, e))

\* filter: behind it by time, or at its time by id.
PgBehind(e, c) ==
    \/ EarlierTime(c, e)
    \/ CanonicalTime(e) = CanonicalTime(c) /\ EarlierId(c, e)

\* Mutant: the time alone.
BehindTime(e, c) == EarlierTime(c, e)

Behind(e, c) == IF walk.pg THEN PgBehind(e, c) ELSE EsBehind(e, c)

\* searchParamsPaginated: the first alternative repeats the condition before it,
\* and the id is not used.
EsAtOrBehind(e, c) == ~ EarlierTime(e, c) /\ (~ EarlierTime(e, c) \/ ~ EarlierId(e, c))

PgAtOrBehind(e, c) ==
    \/ EarlierTime(c, e)
    \/ CanonicalTime(e) = CanonicalTime(c) /\ ~ EarlierId(e, c)

\* Mutant: the cursor is left behind, as it is for search.
StrictlyBehind(e, c) == Behind(e, c)

AtOrBehind(e, c) == IF walk.pg THEN PgAtOrBehind(e, c) ELSE EsAtOrBehind(e, c)

-----------------------------------------------------------------------------
(* The walk *)

NoWalk == [kind |-> "none", pc |-> "asking", pg |-> FALSE, query |-> {}, scope |-> {},
           sort |-> "asc", cursor |-> 0, offset |-> 0, total |-> 0, page |-> {},
           given |-> {}, start |-> {}, repeated |-> FALSE, disturbed |-> FALSE]

WalkTypeOK ==
    /\ walk.kind \in {"none", "search", "paginated", "viewer", "counts", "scroll"}
    /\ walk.pc \in {"asking", "counting", "answering", "scrolling", "done", "failed"}
    /\ walk.cursor \in index \cup {0}
    /\ Cardinality(walk.page) <= PageLimit
    /\ walk.kind # "counts" => (walk.page \cup walk.given \cup walk.start) \subseteq index
    /\ walk.repeated \in BOOLEAN /\ walk.disturbed \in BOOLEAN

WalkInit == walk = NoWalk

StartWalk(kind, pg, query, scope, sort) ==
    /\ walk.kind = "none"
    /\ kind \in {"counts", "viewer"} => ~ pg
    /\ kind = "viewer" => sort = "desc"
    /\ walk' = [NoWalk EXCEPT !.kind = kind, !.pg = pg, !.query = query,
                              !.scope = scope, !.sort = sort,
                              !.start = Finds(kind, pg, query, scope)]

\* The answer is given: what it repeats, and what the client has by now.
Give(page) ==
    [walk EXCEPT !.page = {}, !.given = @ \cup page,
                 !.repeated = @ \/ page \cap walk.given # {}]

First(page) == {e \in page : \A x \in page \ {e} : Precedes(e, x)}
Last(page) == {e \in page : \A x \in page \ {e} : Precedes(x, e)}

\* query and filter: the page ...
ReadPage ==
    /\ walk.kind = "search" /\ walk.pc = "asking"
    /\ LET behind == {e \in Found : walk.cursor = 0 \/ Behind(e, walk.cursor)} IN
       walk' = [walk EXCEPT !.pc = "counting", !.page = Slice(behind, Precedes, 0)]

\* ... queryEventsPaginated and filterEventsPaginated ...
ReadPaginated ==
    /\ walk.kind = "paginated" /\ walk.pc = "asking"
    /\ LET behind == {e \in Found : walk.cursor = 0 \/ AtOrBehind(e, walk.cursor)} IN
       walk' = [walk EXCEPT !.pc = "counting",
                            !.page = Slice(behind, Precedes, walk.offset)]

\* ... and then the total, without the cursor.  The cursor of searchPaginated
\* carries the first page's, which replaces it.
CountAll ==
    /\ walk.pc = "counting"
    /\ walk' = [walk EXCEPT !.pc = "answering",
                            !.total = IF walk.kind = "paginated" /\ walk.cursor # 0
                                      THEN @ ELSE Cardinality(Found)]

\* The client goes on behind the last edge until a page is not full: hasNextPage
\* compares the page with the total, and stays true.
AnswerSearch ==
    /\ walk.kind = "search" /\ walk.pc = "answering"
    /\ walk' = [Give(walk.page) EXCEPT
                   !.pc = IF Cardinality(walk.page) = PageLimit THEN "asking" ELSE "done",
                   !.cursor = IF walk.page = {} THEN @
                              ELSE CHOOSE e \in Last(walk.page) : TRUE]

\* Edges past the total are cut off.  The client goes on with the next offset,
\* and the cursor of the first edge of its first page, until it has the total.
Edges ==
    {e \in walk.page :
        Cardinality({x \in walk.page : Precedes(x, e)}) + walk.offset < walk.total}

AnswerPaginated ==
    /\ walk.kind = "paginated" /\ walk.pc = "answering"
    /\ walk' = [Give(Edges) EXCEPT
                   !.pc = IF Edges = {} \/ walk.offset + PageLimit >= walk.total
                          THEN "done" ELSE "asking",
                   !.offset = @ + PageLimit,
                   !.cursor = IF @ # 0 \/ Edges = {} THEN @
                              ELSE CHOOSE e \in First(Edges) : TRUE]

\* The page behind `before', in descending order of time alone.
IsOffsetPage(page, before) ==
    LET rest == Found \ (before \cup page) IN
    /\ page \cap before = {}
    /\ Cardinality(before) = walk.offset
    /\ Cardinality(page) <= PageLimit /\ (rest # {} => Cardinality(page) = PageLimit)
    /\ \A e \in before, x \in page \cup rest : CanonicalTime(e) >= CanonicalTime(x)
    /\ \A e \in page, x \in rest : CanonicalTime(e) >= CanonicalTime(x)

\* models/event/search: one request, answered with the total it saw.
ReadOffset ==
    /\ walk.kind = "viewer" /\ walk.pc = "asking"
    /\ \E page, before \in SUBSET Found :
          /\ IsOffsetPage(page, before)
          /\ walk' = [Give(page) EXCEPT
                         !.pc = IF walk.offset + PageLimit >= Cardinality(Found)
                                THEN "done" ELSE "asking",
                         !.offset = @ + PageLimit]

-----------------------------------------------------------------------------
(* counts *)

\* The action of an event is one word, a number here; its bucket.
Actions(S) == UNION {Docs[e]["action"] : e \in S}
Bucket(a) == {e \in Found : a \in Docs[e]["action"]}

LargerBucket(a, b) ==
    \/ Cardinality(Bucket(a)) > Cardinality(Bucket(b))
    \/ Cardinality(Bucket(a)) = Cardinality(Bucket(b)) /\ a < b

Buckets ==
    {a \in Actions(Found) :
        Cardinality({b \in Actions(Found) : LargerBucket(b, a)}) < MaxBuckets}

\* Mutant: the next request begins at the position of the last edge.
CountsFromLast ==
    /\ walk.kind = "counts" /\ walk.pc = "asking"
    /\ walk' = [Give(Slice(Buckets, LargerBucket, walk.offset)) EXCEPT
                   !.pc = IF walk.offset + PageLimit < Cardinality(Buckets)
                          THEN "asking" ELSE "done",
                   !.offset = @ + PageLimit - 1]

\* The cursor is the position of the last edge; the next request begins one
\* after it.
Counts ==
    /\ walk.kind = "counts" /\ walk.pc = "asking"
    /\ walk' = [Give(Slice(Buckets, LargerBucket, walk.offset)) EXCEPT
                   !.pc = IF walk.offset + PageLimit < Cardinality(Buckets)
                          THEN "asking" ELSE "done",
                   !.offset = @ + PageLimit]

-----------------------------------------------------------------------------
(* scroll *)

\* The search that opens the scroll; with PG_SEARCH an export is one query.
OpenScroll ==
    /\ walk.kind = "scroll" /\ walk.pc = "asking"
    /\ walk' = [Give(IF walk.pg THEN Found ELSE Slice(Found, Precedes, 0)) EXCEPT
                   !.pc = IF walk.pg THEN "done" ELSE "scrolling", !.start = Found]

\* Each page behind the one before, of what was found then, up to an empty one.
NextScroll ==
    /\ walk.pc = "scrolling"
    /\ LET page == Slice(walk.start, Precedes, Cardinality(walk.given)) IN
       walk' = [Give(page) EXCEPT !.pc = IF page = {} THEN "done" ELSE "scrolling"]

\* Elasticsearch keeps the snapshot for 30 seconds (5 minutes for searchAdHoc).
ScrollExpires ==
    /\ walk.pc = "scrolling"
    /\ walk' = [walk EXCEPT !.pc = "failed"]

-----------------------------------------------------------------------------
(* Events indexed meanwhile *)

\* It moves the rows an offset counts: it precedes one of them, and is not cut
\* off by the cursor.
Disturbs(e) ==
    IF walk.kind = "counts" THEN TRUE
    ELSE /\ \E x \in walk.start \cup walk.page \cup walk.given : Precedes(e, x)
         /\ walk.cursor # 0 => ~ EarlierTime(e, walk.cursor)

IndexEventInWalk(e) ==
    /\ IndexEvent(e)
    /\ walk' = IF walk.kind = "none" THEN walk
               ELSE [walk EXCEPT !.disturbed = @ \/ Disturbs(e)]

\* A rotation takes from the walk what it has not seen yet, if it reads the write
\* alias.
RotateInWalk ==
    /\ Rotate
    /\ walk' = IF walk.kind = "none" THEN walk
               ELSE [walk EXCEPT !.disturbed = @ \/ ReadsCurrent(walk.kind, walk.pg)]

WalkNext ==
    \/ \E kind \in {"search", "paginated", "viewer", "counts", "scroll"}, pg \in BOOLEAN,
          ask \in Asks, sort \in {"asc", "desc"} :
             StartWalk(kind, pg, ask.query, ask.scope, sort)
    \/ ReadPage     \/ ReadPaginated   \/ CountAll
    \/ AnswerSearch \/ AnswerPaginated \/ ReadOffset \/ Counts
    \/ OpenScroll   \/ NextScroll      \/ ScrollExpires

-----------------------------------------------------------------------------
(* What must hold *)

Done(kind) == walk.kind = kind /\ walk.pc = "done"

\* Cursors name an event, not a position: whatever is indexed or rotated while a
\* client follows them, in either order and with several events of one time, no
\* edge comes twice, and none is skipped that was there at the start and is in
\* the index that is searched to the end.  A scroll is of what was found when it
\* was opened, even if a rotation has hidden it since.
CursorWalkIsExact ==
    /\ walk.kind \in {"search", "scroll"} => ~ walk.repeated
    /\ Done("search") => walk.start \cap Found \subseteq walk.given
    /\ Done("scroll") => walk.start \subseteq walk.given

DistinctTimes == \A e, x \in index : e # x => CanonicalTime(e) # CanonicalTime(x)

\* Offsets stand on the cursor of the first page: events that the cursor cuts
\* off, or that come after all others, repeat and hide nothing, though the total
\* was counted after the page was read.  The viewer's offsets have no cursor and
\* no order among events of one time.  A rotation disturbs searchPaginated on
\* Elasticsearch, and never the viewer's walk, which reads every index.
OffsetWalkIsStable ==
    /\ walk.kind = "paginated" \/ (walk.kind = "viewer" /\ DistinctTimes)
    /\ ~ walk.disturbed
    =>
        /\ ~ walk.repeated
        /\ walk.pc = "done" => walk.start \subseteq walk.given

\* A client that follows the positions of counts sees every action of the events
\* the write alias was over once, if nothing is indexed or rotated meanwhile and
\* no bucket is left out.
CountsAreComplete ==
    walk.kind = "counts" /\ ~ walk.disturbed /\ Cardinality(Actions(walk.start)) <= MaxBuckets =>
        /\ ~ walk.repeated
        /\ walk.pc = "done" => walk.given = Actions(walk.start)

\* The queries for Elasticsearch and for Postgres match the same documents that
\* name no team, if they have one word per value and ask for no location.  (What
\* they find differs by what scope() hides from the former.)
OneWordEach(q) ==
    /\ ~ Given(q, "location")
    /\ \A k \in Keywords :
          /\ k # "crud" => Cardinality(q[k]) <= 1
          /\ \A value \in q[k] : Cardinality(value) = 1

BackendsAgree ==
    walk.kind # "none" /\ OneWordEach(walk.query) =>
        \A e \in index : Docs[e]["team_id"] = {} =>
            (EsMatches(walk.query, walk.scope, Docs[e])
                <=> PgMatches(walk.query, walk.scope, Docs[e]))

=============================================================================
