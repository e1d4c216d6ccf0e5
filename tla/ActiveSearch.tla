---------------------------- MODULE ActiveSearch ----------------------------
(***************************************************************************)
(* One active search: a cursor, kept in Postgres, over the events that     *)
(* match a saved search.  Every call of pumpActiveSearch returns a page    *)
(* and a token; the next call presents the token and goes on from the      *)
(* time the cursor holds.  A call reads the cursor, searches, moves the    *)
(* cursor, saves an event about itself and answers, each with an await;    *)
(* the client may have several calls under way, and may start over by      *)
(* presenting no token.                                                    *)
(* The row may be deleted under them.                                      *)
(***************************************************************************)
EXTENDS SearchIndex

CONSTANTS
    Pumps,        \* calls that may be under way at once
    PageSize,
    MaxTokens,    \* tokens drawn in a behaviour
    MaxFaults     \* calls that fail

ASSUME PumpAssumption ==
    /\ PageSize \in Nat \ {0}
    /\ MaxTokens \in Nat /\ MaxFaults \in Nat

VARIABLES
    row,        \* next_token and next_start_time, 0 while they are null
    deleted,    \* the active_search row is gone
    pump,       \* the calls
    next,       \* the token the client holds, or 0
    given,      \* events it was given since it last started over
    overlap,    \* since then it has had two calls under way at once
    tokens,     \* how many tokens were drawn
    faults

pumpVars == <<row, deleted, pump, next, given, overlap, tokens, faults>>

Cursors == [token : 0..MaxTokens, start : 0..(MaxTime + 1)]
Idle == [pc |-> "idle", token |-> 0, start |-> 0, page |-> {}]

PumpTypeOK ==
    /\ row \in Cursors /\ deleted \in BOOLEAN
    /\ pump \in [Pumps -> [pc : {"idle", "sent", "searching", "updating", "answering"},
                           token : 0..MaxTokens, start : 0..(MaxTime + 1),
                           page : SUBSET Events]]
    /\ \A p \in Pumps : pump[p].pc = "updating" => pump[p].page # {}
    /\ next \in 0..tokens /\ tokens \in 0..MaxTokens
    /\ given \subseteq index /\ overlap \in BOOLEAN
    /\ faults \in 0..MaxFaults

\* createSavedSearch and createActiveSearch have been called.
PumpInit ==
    /\ row = [token |-> 0, start |-> 0]
    /\ deleted = FALSE
    /\ pump = [p \in Pumps |-> Idle]
    /\ next = 0 /\ given = {} /\ overlap = FALSE
    /\ tokens = 0 /\ faults = 0

StartOver ==
    /\ next # 0
    /\ \A p \in Pumps : pump[p] = Idle
    /\ next' = 0
    /\ given' = {} /\ overlap' = FALSE
    /\ UNCHANGED <<row, deleted, pump, tokens, faults>>

SendPump(p) ==
    /\ pump[p] = Idle
    /\ tokens < MaxTokens
    /\ pump' = [pump EXCEPT ![p].pc = "sent", ![p].token = next]
    /\ overlap' = (overlap \/ \E q \in Pumps : pump[q] # Idle)
    /\ UNCHANGED <<row, deleted, next, given, tokens, faults>>

DeleteActiveSearch ==
    /\ ~ deleted
    /\ deleted' = TRUE
    /\ UNCHANGED <<row, pump, next, given, overlap, tokens, faults>>

\* Without a token from the start, with the current one from the cursor, with
\* another one, or when the row is gone, not at all (404).
ReadCursor(p) ==
    /\ pump[p].pc = "sent"
    /\ pump' = [pump EXCEPT ![p] =
           IF deleted THEN Idle
           ELSE IF @.token = 0 THEN [@ EXCEPT !.pc = "searching"]
           ELSE IF @.token = row.token
           THEN [@ EXCEPT !.pc = "searching", !.start = row.start]
           ELSE Idle]
    /\ UNCHANGED <<row, deleted, next, given, overlap, tokens, faults>>

\* A page of the events received since `start', in canonical order.
Matching(start) == {e \in index : received[e] >= start}

IsPage(page, found) ==
    /\ Cardinality(page) <= PageSize
    /\ page # found => Cardinality(page) = PageSize
    /\ \A e \in page, x \in found \ page : CanonicalTime(e) <= CanonicalTime(x)

IsLast(e, page) == e \in page /\ \A x \in page : CanonicalTime(x) <= CanonicalTime(e)

\* Mutant: the last event's time itself.
SearchAgainFrom(p) ==
    /\ pump[p].pc = "searching"
    /\ \E page \in SUBSET Matching(pump[p].start) :
          /\ IsPage(page, Matching(pump[p].start))
          /\ \/ /\ page = {}
                /\ pump' = [pump EXCEPT ![p].pc = "answering"]
             \/ \E last \in page :
                   /\ IsLast(last, page)
                   /\ pump' = [pump EXCEPT ![p].pc = "updating", ![p].page = page,
                                           ![p].start = CanonicalTime(last)]
    /\ UNCHANGED <<row, deleted, next, given, overlap, tokens, faults>>

\* Mutant: the cursor moves to the end of the time searched.
SearchToTheEnd(p) ==
    /\ pump[p].pc = "searching"
    /\ \E page \in SUBSET Matching(pump[p].start) :
          /\ IsPage(page, Matching(pump[p].start))
          /\ \/ /\ page = {}
                /\ pump' = [pump EXCEPT ![p].pc = "answering"]
             \/ \E last \in page :
                   /\ IsLast(last, page)
                   /\ pump' = [pump EXCEPT ![p].pc = "updating", ![p].page = page,
                                           ![p].start = MaxTime + 1]
    /\ UNCHANGED <<row, deleted, next, given, overlap, tokens, faults>>

Search(p) ==
    /\ pump[p].pc = "searching"
    /\ \E page \in SUBSET Matching(pump[p].start) :
          /\ IsPage(page, Matching(pump[p].start))
          /\ \/ /\ page = {}
                /\ pump' = [pump EXCEPT ![p].pc = "answering"]
             \/ \E last \in page :
                   /\ IsLast(last, page)
                   /\ pump' = [pump EXCEPT ![p].pc = "updating", ![p].page = page,
                                           ![p].start = CanonicalTime(last) + 1]
    /\ UNCHANGED <<row, deleted, next, given, overlap, tokens, faults>>

\* updateActiveSearch with a new token, whoever moved the cursor meanwhile.
UpdateCursor(p) ==
    /\ pump[p].pc = "updating"
    /\ ~ deleted
    /\ tokens < MaxTokens
    /\ tokens' = tokens + 1
    /\ row' = [token |-> tokens + 1, start |-> pump[p].start]
    /\ pump' = [pump EXCEPT ![p].pc = "answering", ![p].token = tokens + 1]
    /\ UNCHANGED <<deleted, next, given, overlap, faults>>

\* "Can't update non-existent active search": the page is not answered.
UpdateGone(p) ==
    /\ pump[p].pc = "updating"
    /\ deleted
    /\ pump' = [pump EXCEPT ![p] = Idle]
    /\ UNCHANGED <<row, deleted, next, given, overlap, tokens, faults>>

Answer(p) ==
    /\ pump[p].pc = "answering"
    /\ given' = given \cup pump[p].page
    /\ next' = IF pump[p].page = {} THEN next ELSE pump[p].token
    /\ pump' = [pump EXCEPT ![p] = Idle]
    /\ UNCHANGED <<row, deleted, overlap, tokens, faults>>

\* A query, the search or the saving of the call's own event fails.
PumpFail(p) ==
    /\ pump[p].pc # "idle"
    /\ faults < MaxFaults
    /\ faults' = faults + 1
    /\ pump' = [pump EXCEPT ![p] = Idle]
    /\ UNCHANGED <<row, deleted, next, given, overlap, tokens>>

PumpNext ==
    \/ \E p \in Pumps :
          \/ SendPump(p)     \/ ReadCursor(p) \/ Search(p)
          \/ UpdateCursor(p) \/ UpdateGone(p) \/ Answer(p) \/ PumpFail(p)
    \/ StartOver
    \/ DeleteActiveSearch

-----------------------------------------------------------------------------
(* What must hold *)

\* A client whose token is good has been given every event behind the cursor,
\* though it had several calls under way and some failed, if events come in the
\* order in which they were received, one at a time (those that do not are in
\* late), and the times they say of their own are in that order and not after it.
\* The cursor is a canonical time, compared with times of receipt.
Unique == \A e, x \in index : received[e] = received[x] => e = x

TimesInOrder ==
    \A e \in index :
        /\ CanonicalTime(e) <= received[e]
        /\ \A x \in index : received[x] < received[e] => CanonicalTime(x) < CanonicalTime(e)

Complete ==
    next # 0 /\ next = row.token =>
        \A e \in index \ late : received[e] < row.start => e \in given

CursorIsComplete == Unique /\ TimesInOrder => Complete

OnlyReceived == \A e \in Events : created[e] = 0

\* A client that waits for each answer is given no event twice before it starts
\* over, in whichever order events are indexed, if they say no time of their own.
Fresh ==
    \A p \in Pumps : pump[p].pc = "updating" => pump[p].page \cap given = {}

PagesAreFresh == OnlyReceived /\ ~ overlap => Fresh

=============================================================================
