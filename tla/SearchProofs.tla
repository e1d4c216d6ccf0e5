----------------------------- MODULE SearchProofs ------------------------------
(***************************************************************************)
(* Proofs about active searches, for any events, calls, page size, tokens  *)
(* and failures.  Walks through other searches share the index with them   *)
(* and nothing else.                                                       *)
(***************************************************************************)
EXTENDS Searches, TLAPS

PumpRecords ==
    [pc : {"idle", "sent", "searching", "updating", "answering"},
     token : 0..MaxTokens, start : 0..(MaxTime + 1), page : SUBSET Events]

Types == IndexTypeOK /\ PumpTypeOK

\* What a call carries; tokens that are not drawn yet are nowhere.
CallsOK ==
    /\ row.token <= tokens
    /\ \A p \in Pumps :
          /\ pump[p].pc = "idle" => pump[p] = Idle
          /\ pump[p].pc = "sent" => pump[p].start = 0
          /\ pump[p].pc \in {"sent", "searching"} => pump[p].page = {}
          /\ pump[p].pc = "answering" /\ pump[p].page # {} => pump[p].token # 0
          /\ pump[p].page \subseteq index
          /\ pump[p].token <= tokens

\* A time to go on from is not past what has been indexed.
Reached(s) == s = 0 \/ \E x \in index : s <= received[x] + 1

StartsReached == Reached(row.start) /\ \A p \in Pumps : Reached(pump[p].start)

\* All that is behind s, but for what came late, is in G.
Below(s, G) == \A e \in index \ late : received[e] < s => e \in G

\* A client that holds the cursor's token has all that is behind the cursor, and
\* one that is about to get it is about to have it.
CompleteInv ==
    /\ next # 0 /\ next = row.token => Below(row.start, given)
    /\ \A p \in Pumps :
          /\ pump[p].pc = "sent" /\ pump[p].token # 0 /\ pump[p].token = row.token =>
                Below(row.start, given)
          /\ pump[p].pc = "searching" => Below(pump[p].start, given)
          /\ pump[p].pc = "updating" => Below(pump[p].start, given \cup pump[p].page)
          /\ /\ pump[p].pc = "answering" /\ pump[p].page # {}
             /\ pump[p].token = row.token
             => Below(row.start, given \cup pump[p].page)

\* All of G is behind s.
Under(G, s) == \A e \in G : received[e] < s

\* A client with one call at a time has nothing that is not behind its cursor.
FreshInv ==
    /\ \A p, q \in Pumps : pump[p].pc # "idle" /\ pump[q].pc # "idle" => p = q
    /\ next = 0 => given = {}
    /\ next # 0 /\ next = row.token => Under(given, row.start)
    /\ \A p \in Pumps :
          /\ pump[p].pc = "sent" => pump[p].token = next
          /\ pump[p].pc = "searching" => Under(given, pump[p].start)
          /\ pump[p].pc = "updating" =>
                pump[p].page \cap given = {} /\ Under(given \cup pump[p].page, pump[p].start)
          /\ /\ pump[p].pc = "answering" /\ pump[p].page # {}
             /\ pump[p].token = row.token
             => Under(given \cup pump[p].page, row.start)

SearchInv ==
    /\ Types /\ CallsOK
    /\ TimesInOrder => StartsReached
    /\ Unique /\ TimesInOrder => CompleteInv
    /\ OnlyReceived /\ ~ overlap => FreshInv

LEMMA ReceivedIsCanonical ==
    ASSUME OnlyReceived
    PROVE  \A e \in Events : CanonicalTime(e) = received[e]
  BY DEF OnlyReceived, CanonicalTime

LEMMA CanonicalTimeType ==
    ASSUME IndexTypeOK, NEW e \in Events
    PROVE  CanonicalTime(e) \in 0..MaxTime
<1>1. created[e] \in OwnTimes /\ received[e] \in 1..MaxTime
  BY DEF IndexTypeOK
<1>2. created[e] \in 0..MaxTime /\ received[e] \in 0..MaxTime
  <2>1. MaxTime \in Nat /\ OwnTimes \subseteq 0..MaxTime
    BY IndexAssumption
  <2>2. created[e] \in 0..MaxTime
    BY <1>1, <2>1
  <2>3. received[e] \in 0..MaxTime
    BY <1>1, <2>1
  <2> QED
    BY <2>2, <2>3
<1> QED
  BY <1>2 DEF CanonicalTime

LEMMA IdleOK == Idle \in PumpRecords /\ Idle.pc = "idle" /\ Idle.start = 0 /\ Idle.page = {}
                /\ Idle.token = 0
<1>1. 0 \in 0..MaxTokens /\ 0 \in 0..(MaxTime + 1)
  BY PumpAssumption, IndexAssumption
<1> QED
  BY <1>1 DEF Idle, PumpRecords

\* The call p becomes k.
LEMMA OnePump ==
    ASSUME Types, NEW p \in Pumps, NEW k \in PumpRecords, pump' = [pump EXCEPT ![p] = k]
    PROVE  /\ pump' \in [Pumps -> PumpRecords] /\ pump'[p] = k
           /\ \A q \in Pumps \ {p} : pump'[q] = pump[q]
  BY DEF Types, PumpTypeOK, PumpRecords

LEMMA Parts ==
    ASSUME SearchInv
    PROVE  /\ Types /\ CallsOK /\ row \in Cursors /\ deleted \in BOOLEAN
           /\ pump \in [Pumps -> PumpRecords]
           /\ \A p \in Pumps : pump[p].pc = "updating" => pump[p].page # {}
           /\ next \in 0..tokens /\ tokens \in 0..MaxTokens
           /\ given \subseteq index /\ overlap \in BOOLEAN /\ faults \in 0..MaxFaults
           /\ index \subseteq Events /\ late \subseteq index
           /\ received \in [Events -> 1..MaxTime]
  BY DEF SearchInv, Types, PumpTypeOK, IndexTypeOK, PumpRecords

-----------------------------------------------------------------------------
(* The index *)

LEMMA IndexStep ==
    ASSUME SearchInv, NEW e \in Events, IndexEvent(e), UNCHANGED pumpVars
    PROVE  SearchInv'
<1>1. /\ e \notin index /\ index' = index \cup {e} /\ UNCHANGED <<created, received>>
      /\ current' = current \cup {e}
      /\ late \subseteq late' /\ late' \subseteq late \cup {e}
      /\ e \notin late' => \A x \in index : received[x] < received[e]
  <2>1. \A x \in index : received[x] \in Nat /\ received[e] \in Nat
    BY Parts
  <2> QED
    BY <2>1 DEF IndexEvent, times
<1>2. UNCHANGED <<row, deleted, pump, next, given, overlap, tokens, faults>>
  BY DEF pumpVars
<1>3. Types'
  <2>1. IndexTypeOK'
    BY <1>1 DEF SearchInv, Types, IndexTypeOK
  <2>2. PumpTypeOK'
    BY <1>1, <1>2, Parts DEF PumpTypeOK, PumpRecords, Cursors
  <2> QED
    BY <2>1, <2>2 DEF Types
<1>4. CallsOK'
  BY <1>1, <1>2, Parts DEF CallsOK
<1>5. ASSUME TimesInOrder'
      PROVE  StartsReached'
  <2>1. TimesInOrder
    BY <1>1, <1>5 DEF TimesInOrder, CanonicalTime
  <2> QED
    BY <1>1, <1>2, <2>1 DEF SearchInv, StartsReached, Reached
<1>6. ASSUME Unique', TimesInOrder'
      PROVE  CompleteInv'
  <2>1. CompleteInv /\ StartsReached
    BY <1>1, <1>6 DEF TimesInOrder, CanonicalTime, Unique, SearchInv
  <2>2. ASSUME NEW s \in Nat, NEW G, Reached(s), Below(s, G)
        PROVE  \A f \in index' \ late' : received'[f] < s => f \in G
    <3>1. ASSUME e \notin late', received[e] < s
          PROVE  FALSE
      <4>1. PICK x \in index : s <= received[x] + 1
        BY <2>2, <3>1, Parts DEF Reached
      <4>2. received[x] < received[e] /\ received[x] \in Nat /\ received[e] \in Nat
        BY <1>1, <3>1, Parts
      <4> QED
        BY <3>1, <4>1, <4>2
    <3> QED
      BY <1>1, <2>2, <3>1 DEF Below
  <2>3. row.start \in Nat /\ \A p \in Pumps : pump[p].start \in Nat
    BY Parts DEF Cursors, PumpRecords
  <2> QED
    BY <1>1, <1>2, <2>1, <2>2, <2>3 DEF CompleteInv, StartsReached, Below
<1>7. ASSUME OnlyReceived', ~ overlap'
      PROVE  FreshInv'
  <2>1. FreshInv
    BY <1>1, <1>2, <1>7 DEF OnlyReceived, SearchInv
  <2> QED
    BY <1>1, <1>2, <2>1 DEF FreshInv, Under
<1> QED
  BY <1>3, <1>4, <1>5, <1>6, <1>7 DEF SearchInv

-----------------------------------------------------------------------------
(* The calls *)

LEMMA TypesStep ==
    ASSUME SearchInv, UNCHANGED indexVars, pump' \in [Pumps -> PumpRecords],
           \A p \in Pumps : pump'[p].pc = "updating" => pump'[p].page # {},
           row' \in Cursors, deleted' \in BOOLEAN, next' \in 0..tokens',
           tokens' \in 0..MaxTokens, given' \subseteq index, overlap' \in BOOLEAN,
           faults' \in 0..MaxFaults
    PROVE  Types'
<1>1. IndexTypeOK'
  BY DEF SearchInv, Types, IndexTypeOK, indexVars, times
<1>2. PumpTypeOK'
  BY DEF PumpTypeOK, PumpRecords, Cursors, indexVars
<1> QED
  BY <1>1, <1>2 DEF Types

LEMMA SameIndex ==
    ASSUME UNCHANGED indexVars
    PROVE  /\ UNCHANGED <<created, received, index, late>>
           /\ OnlyReceived' = OnlyReceived /\ Unique' = Unique
           /\ TimesInOrder' = TimesInOrder /\ \A e : CanonicalTime(e)' = CanonicalTime(e)
<1>1. UNCHANGED <<created, received, index, late>>
  BY DEF indexVars, times
<1> QED
  BY <1>1 DEF OnlyReceived, Unique, TimesInOrder, CanonicalTime

\* A call that ends without an answer, or fails.
LEMMA EndStep ==
    ASSUME SearchInv, NEW p \in Pumps, pump' = [pump EXCEPT ![p] = Idle],
           UNCHANGED <<indexVars, row, deleted, next, given, overlap, tokens>>,
           faults' \in 0..MaxFaults
    PROVE  SearchInv'
<1>1. /\ pump' \in [Pumps -> PumpRecords] /\ pump'[p] = Idle
      /\ \A q \in Pumps \ {p} : pump'[q] = pump[q]
  BY OnePump, IdleOK, Parts
<1>2. Types'
  BY <1>1, IdleOK, Parts, TypesStep
<1>3. CallsOK'
  BY <1>1, IdleOK, Parts, SameIndex DEF CallsOK
<1>4. StartsReached => StartsReached'
  BY <1>1, IdleOK, SameIndex DEF StartsReached, Reached
<1>5. CompleteInv => CompleteInv'
  BY <1>1, IdleOK, SameIndex DEF CompleteInv, Below
<1>6. FreshInv => FreshInv'
  BY <1>1, IdleOK, SameIndex DEF FreshInv, Under
<1> QED
  BY <1>2, <1>3, <1>4, <1>5, <1>6, SameIndex DEF SearchInv

LEMMA SendPumpInv ==
    ASSUME SearchInv, NEW p \in Pumps, SendPump(p), UNCHANGED indexVars
    PROVE  SearchInv'
<1> DEFINE k == [pump[p] EXCEPT !.pc = "sent", !.token = next]
<1>1. /\ pump[p] = Idle /\ pump' = [pump EXCEPT ![p] = k]
      /\ overlap' = (overlap \/ \E q \in Pumps : pump[q] # Idle)
      /\ UNCHANGED <<row, deleted, next, given, tokens, faults>>
  BY DEF SendPump
<1>2. /\ k \in PumpRecords /\ k.pc = "sent" /\ k.token = next /\ k.start = 0 /\ k.page = {}
  <2>1. next \in 0..MaxTokens
    BY Parts, PumpAssumption
  <2>2. pump[p] \in PumpRecords
    BY Parts
  <2> QED
    BY <1>1, <2>1, <2>2, IdleOK DEF PumpRecords
<1> HIDE DEF k
<1>3. /\ pump' \in [Pumps -> PumpRecords] /\ pump'[p] = k
      /\ \A q \in Pumps \ {p} : pump'[q] = pump[q]
  BY <1>1, <1>2, OnePump, Parts
<1>4. Types'
  BY <1>1, <1>2, <1>3, Parts, TypesStep
<1>5. CallsOK'
  BY <1>1, <1>2, <1>3, Parts, SameIndex DEF CallsOK
<1>6. StartsReached => StartsReached'
  BY <1>1, <1>2, <1>3, SameIndex DEF StartsReached, Reached
<1>7. CompleteInv => CompleteInv'
  BY <1>1, <1>2, <1>3, SameIndex DEF CompleteInv, Below
<1>8. ASSUME OnlyReceived, ~ overlap'
      PROVE  FreshInv'
  <2>0. ~ overlap /\ \A q \in Pumps : pump[q] = Idle
    BY <1>1, <1>8, Zenon
  <2>1. FreshInv /\ \A q \in Pumps : pump[q] = Idle
    BY <1>8, <2>0 DEF SearchInv
  <2>2. \A q \in Pumps \ {p} : pump'[q].pc = "idle"
    BY <1>3, <2>1, IdleOK
  <2> QED
    BY <1>1, <1>2, <1>3, <2>1, <2>2, SameIndex DEF FreshInv, Under
<1> QED
  BY <1>4, <1>5, <1>6, <1>7, <1>8, SameIndex DEF SearchInv

LEMMA ReadCursorInv ==
    ASSUME SearchInv, NEW p \in Pumps, ReadCursor(p), UNCHANGED indexVars
    PROVE  SearchInv'
<1> DEFINE k == [pump[p] EXCEPT !.pc = "searching"]
           m == [pump[p] EXCEPT !.pc = "searching", !.start = row.start]
<1>1. /\ pump[p].pc = "sent"
      /\ UNCHANGED <<row, deleted, next, given, overlap, tokens, faults>>
      /\ pump[p] \in PumpRecords /\ pump[p].start = 0 /\ pump[p].page = {}
      /\ row.start \in 0..(MaxTime + 1)
  BY Parts DEF ReadCursor, CallsOK, Cursors
<1>2. \/ pump' = [pump EXCEPT ![p] = Idle]
      \/ pump[p].token = 0 /\ pump' = [pump EXCEPT ![p] = k]
      \/ pump[p].token # 0 /\ pump[p].token = row.token /\ pump' = [pump EXCEPT ![p] = m]
  BY DEF ReadCursor
<1>3. /\ k \in PumpRecords /\ k.pc = "searching" /\ k.token = pump[p].token
      /\ k.start = 0 /\ k.page = {}
  BY <1>1 DEF PumpRecords
<1>4. /\ m \in PumpRecords /\ m.pc = "searching" /\ m.token = pump[p].token
      /\ m.start = row.start /\ m.page = {}
  BY <1>1 DEF PumpRecords
<1> HIDE DEF k, m
<1>5. CASE pump' = [pump EXCEPT ![p] = Idle]
  BY <1>1, <1>5, Parts, EndStep
<1>6. ASSUME NEW j \in PumpRecords, pump' = [pump EXCEPT ![p] = j],
             j.pc = "searching", j.token = pump[p].token, j.page = {},
             \/ j.start = 0 /\ pump[p].token = 0
             \/ j.start = row.start /\ pump[p].token # 0 /\ pump[p].token = row.token
      PROVE  SearchInv'
  <2>1. /\ pump' \in [Pumps -> PumpRecords] /\ pump'[p] = j
        /\ \A q \in Pumps \ {p} : pump'[q] = pump[q]
    BY <1>6, OnePump, Parts
  <2>2. Types'
    BY <1>1, <1>6, <2>1, Parts, TypesStep
  <2>3. CallsOK'
    BY <1>1, <1>6, <2>1, Parts, SameIndex DEF CallsOK
  <2>4. StartsReached => StartsReached'
    BY <1>1, <1>6, <2>1, SameIndex DEF StartsReached, Reached
  <2>5. CompleteInv => CompleteInv'
    <3>1. Below(0, given)
      <4>1. \A e \in index : received[e] \in 1..MaxTime
        BY Parts
      <4> QED
        BY <4>1 DEF Below
    <3>2. CompleteInv => Below(j.start, given)
      BY <1>1, <1>6, <3>1 DEF CompleteInv
    <3> QED
      BY <1>1, <1>6, <2>1, <3>2, SameIndex DEF CompleteInv, Below
  <2>6. FreshInv => FreshInv'
    <3>1. FreshInv => Under(given, j.start)
      BY <1>1, <1>6 DEF FreshInv, Under
    <3> QED
      BY <1>1, <1>6, <2>1, <3>1, SameIndex DEF FreshInv, Under
  <2> QED
    BY <1>1, <2>2, <2>3, <2>4, <2>5, <2>6, SameIndex DEF SearchInv
<1> QED
  BY <1>2, <1>3, <1>4, <1>5, <1>6

\* What a search finds is behind the last of its page, or was behind it before.
LEMMA PageIs ==
    ASSUME SearchInv, OnlyReceived, NEW s \in 0..(MaxTime + 1),
           NEW page \in SUBSET Matching(s), IsPage(page, Matching(s)),
           NEW last \in page, IsLast(last, page)
    PROVE  /\ CanonicalTime(last) = received[last] /\ s <= received[last]
           /\ \A e \in page : s <= received[e] /\ received[e] <= received[last]
<1>1. page \subseteq index /\ \A e \in page : e \in Events /\ s <= received[e]
  BY Parts DEF Matching
<1>2. \A e \in page : received[e] <= received[last]
  BY <1>1, ReceivedIsCanonical DEF IsLast
<1> QED
  BY <1>1, <1>2, ReceivedIsCanonical

\* A page holds all that was received up to the canonical time of its last.
LEMMA PageCovers ==
    ASSUME SearchInv, TimesInOrder, NEW s \in 0..(MaxTime + 1),
           NEW page \in SUBSET Matching(s), IsPage(page, Matching(s)),
           NEW last \in page, IsLast(last, page)
    PROVE  /\ CanonicalTime(last) <= received[last]
           /\ Unique => \A e \in index : s <= received[e] /\ received[e] <= CanonicalTime(last)
                                            => e \in page
<1>1. last \in Events /\ last \in index /\ CanonicalTime(last) <= received[last]
  BY Parts DEF Matching, TimesInOrder
<1>2. ASSUME Unique, NEW e \in index, s <= received[e], received[e] <= CanonicalTime(last),
             e \notin page
      PROVE  FALSE
  <2>1. e \in Matching(s) \ page /\ e \in Events
    BY <1>2, Parts DEF Matching
  <2>2. CanonicalTime(last) <= CanonicalTime(e)
    BY <2>1 DEF IsPage
  <2>3. /\ received[e] \in Nat /\ received[last] \in Nat
        /\ CanonicalTime(e) \in Nat /\ CanonicalTime(last) \in Nat
    BY <1>1, <2>1, Parts, CanonicalTimeType, IndexAssumption DEF Types
  <2>4. received[e] # received[last]
    BY <1>1, <1>2, <2>1 DEF Unique
  <2>5. received[e] < received[last] => CanonicalTime(e) < CanonicalTime(last)
    BY <1>1, <2>1 DEF TimesInOrder
  <2> QED
    BY <1>1, <1>2, <2>2, <2>3, <2>4, <2>5
<1> QED
  BY <1>1, <1>2

LEMMA SearchStepInv ==
    ASSUME SearchInv, NEW p \in Pumps, Search(p), UNCHANGED indexVars
    PROVE  SearchInv'
<1>1. /\ pump[p].pc = "searching" /\ pump[p] \in PumpRecords /\ pump[p].page = {}
      /\ UNCHANGED <<row, deleted, next, given, overlap, tokens, faults>>
      /\ pump[p].start \in 0..(MaxTime + 1)
  BY Parts DEF Search, CallsOK, PumpRecords
<1> DEFINE s == pump[p].start
<1>2. PICK page \in SUBSET Matching(s) :
          /\ IsPage(page, Matching(s))
          /\ \/ /\ page = {}
                /\ pump' = [pump EXCEPT ![p].pc = "answering"]
             \/ \E last \in page :
                   /\ IsLast(last, page)
                   /\ pump' = [pump EXCEPT ![p].pc = "updating", ![p].page = page,
                                           ![p].start = CanonicalTime(last) + 1]
  BY DEF Search
<1>3. page \subseteq index /\ index \subseteq Events
  BY Parts DEF Matching
<1>4. CASE page = {} /\ pump' = [pump EXCEPT ![p].pc = "answering"]
  <2> DEFINE k == [pump[p] EXCEPT !.pc = "answering"]
  <2>1. pump' = [pump EXCEPT ![p] = k]
    BY <1>4
  <2>2. /\ k \in PumpRecords /\ k.pc = "answering" /\ k.page = {}
        /\ k.token = pump[p].token /\ k.start = pump[p].start
    BY <1>1 DEF PumpRecords
  <2> HIDE DEF k
  <2>3. /\ pump' \in [Pumps -> PumpRecords] /\ pump'[p] = k
        /\ \A q \in Pumps \ {p} : pump'[q] = pump[q]
    BY <2>1, <2>2, OnePump, Parts
  <2>4. Types'
    BY <1>1, <2>2, <2>3, Parts, TypesStep
  <2>5. CallsOK'
    BY <1>1, <2>2, <2>3, Parts, SameIndex DEF CallsOK
  <2>6. StartsReached => StartsReached'
    BY <1>1, <2>2, <2>3, SameIndex DEF StartsReached, Reached
  <2>7. CompleteInv => CompleteInv'
    BY <1>1, <2>2, <2>3, SameIndex DEF CompleteInv, Below
  <2>8. FreshInv => FreshInv'
    BY <1>1, <2>2, <2>3, SameIndex DEF FreshInv, Under
  <2> QED
    BY <1>1, <2>4, <2>5, <2>6, <2>7, <2>8, SameIndex DEF SearchInv
<1>5. ASSUME NEW last \in page, IsLast(last, page),
             pump' = [pump EXCEPT ![p].pc = "updating", ![p].page = page,
                                  ![p].start = CanonicalTime(last) + 1]
      PROVE  SearchInv'
  <2> DEFINE k == [pump[p] EXCEPT !.pc = "updating", !.page = page,
                                  !.start = CanonicalTime(last) + 1]
  <2>1. pump' = [pump EXCEPT ![p] = k]
    BY <1>5
  <2>2. CanonicalTime(last) + 1 \in 0..(MaxTime + 1)
    <3>1. CanonicalTime(last) \in 0..MaxTime
      BY <1>3, CanonicalTimeType DEF SearchInv, Types
    <3> QED
      BY <3>1, IndexAssumption
  <2>3. /\ k \in PumpRecords /\ k.pc = "updating" /\ k.page = page
        /\ k.token = pump[p].token /\ k.start = CanonicalTime(last) + 1
    BY <1>1, <1>3, <2>2 DEF PumpRecords
  <2> HIDE DEF k
  <2>4. /\ pump' \in [Pumps -> PumpRecords] /\ pump'[p] = k
        /\ \A q \in Pumps \ {p} : pump'[q] = pump[q]
    BY <2>1, <2>3, OnePump, Parts
  <2>5. Types'
    BY <1>1, <1>5, <2>3, <2>4, Parts, TypesStep
  <2>6. CallsOK'
    BY <1>1, <1>3, <2>3, <2>4, Parts, SameIndex DEF CallsOK
  <2>7. ASSUME OnlyReceived
        PROVE  /\ k.start = received[last] + 1 /\ s <= received[last]
               /\ \A e \in page : s <= received[e] /\ received[e] <= received[last]
    BY <1>1, <1>2, <1>5, <2>3, <2>7, PageIs
  <2>8. ASSUME TimesInOrder, StartsReached
        PROVE  StartsReached'
    <3>1. /\ last \in index /\ received[last] \in Nat
          /\ CanonicalTime(last) \in Nat
      BY <1>3, <1>5, Parts, CanonicalTimeType, IndexAssumption DEF Types
    <3>2. k.start <= received[last] + 1
      <4>1. CanonicalTime(last) <= received[last]
        BY <1>1, <1>2, <1>5, <2>8, PageCovers
      <4> QED
        BY <2>3, <3>1, <4>1
    <3>3. Reached(k.start)
      BY <3>1, <3>2 DEF Reached
    <3> QED
      BY <1>1, <2>4, <2>8, <3>3, SameIndex DEF StartsReached, Reached
  <2>9. ASSUME TimesInOrder, Unique, CompleteInv
        PROVE  CompleteInv'
    <3>1. Below(k.start, given \cup k.page)
      <4>1. Below(s, given)
        BY <1>1, <2>9 DEF CompleteInv
      <4>2. \A e \in index : received[e] \in Nat
        BY Parts
      <4>3. s \in Nat
        BY <1>1
      <4>4. \A e \in index : s <= received[e] /\ received[e] <= CanonicalTime(last)
                                 => e \in page
        BY <1>1, <1>2, <1>5, <2>9, PageCovers
      <4>5. CanonicalTime(last) \in Nat
        BY <1>3, <1>5, Parts, CanonicalTimeType, IndexAssumption DEF Types
      <4> QED
        BY <1>3, <2>3, <4>1, <4>2, <4>3, <4>4, <4>5 DEF Below
    <3> QED
      BY <1>1, <2>3, <2>4, <2>9, <3>1, SameIndex DEF CompleteInv, Below
  <2>10. ASSUME OnlyReceived, FreshInv
         PROVE  FreshInv'
    <3>1. k.page \cap given = {} /\ Under(given \cup k.page, k.start)
      <4>1. Under(given, s)
        BY <1>1, <2>10 DEF FreshInv
      <4>2. \A e \in index : received[e] \in Nat
        BY Parts
      <4>3. s \in Nat /\ given \subseteq index
        BY <1>1, Parts
      <4> QED
        BY <1>3, <1>5, <2>3, <2>7, <2>10, <4>1, <4>2, <4>3 DEF Under
    <3> QED
      BY <1>1, <2>3, <2>4, <2>10, <3>1, SameIndex DEF FreshInv, Under
  <2> QED
    BY <1>1, <2>5, <2>6, <2>8, <2>9, <2>10, SameIndex DEF SearchInv
<1> QED
  BY <1>2, <1>4, <1>5

LEMMA UpdateCursorInv ==
    ASSUME SearchInv, NEW p \in Pumps, UpdateCursor(p), UNCHANGED indexVars
    PROVE  SearchInv'
<1> DEFINE t == tokens + 1
           k == [pump[p] EXCEPT !.pc = "answering", !.token = t]
<1>1. /\ pump[p].pc = "updating" /\ tokens < MaxTokens /\ tokens' = t
      /\ row' = [token |-> t, start |-> pump[p].start]
      /\ pump' = [pump EXCEPT ![p] = k]
      /\ UNCHANGED <<deleted, next, given, overlap, faults>>
      /\ pump[p] \in PumpRecords
  BY Parts DEF UpdateCursor
<1>2. t \in 0..MaxTokens /\ t # 0 /\ tokens < t /\ tokens \in Nat
      /\ \A n \in 0..tokens : n \in 0..t /\ n # t
  BY <1>1, Parts, PumpAssumption
<1> HIDE DEF t
<1>3. /\ k \in PumpRecords /\ k.pc = "answering" /\ k.token = t
      /\ k.start = pump[p].start /\ k.page = pump[p].page
  BY <1>1, <1>2 DEF PumpRecords
<1> HIDE DEF k
<1>4. /\ pump' \in [Pumps -> PumpRecords] /\ pump'[p] = k
      /\ \A q \in Pumps \ {p} : pump'[q] = pump[q]
  BY <1>1, <1>3, OnePump, Parts
<1>5. row' \in Cursors /\ row'.token = t /\ row'.start = pump[p].start
  BY <1>1, <1>2 DEF Cursors, PumpRecords
<1>6. Types'
  BY <1>1, <1>2, <1>3, <1>4, <1>5, Parts, TypesStep
<1>7. \A q \in Pumps : pump[q].token <= tokens /\ pump[q].token \in Nat
  BY Parts DEF CallsOK, PumpRecords
<1>8. CallsOK'
  <2>1. t <= t
    BY <1>2
  <2>2. \A q \in Pumps : pump[q].token <= t
    BY <1>2, <1>7
  <2> QED
    BY <1>1, <1>2, <1>3, <1>4, <1>5, <2>1, <2>2, Parts, SameIndex DEF CallsOK
<1>9. next # t /\ \A q \in Pumps : pump[q].token # t
  BY <1>2, <1>7, Parts
<1>10. StartsReached => StartsReached'
  BY <1>3, <1>4, <1>5, SameIndex DEF StartsReached, Reached
<1>11. CompleteInv => CompleteInv'
  BY <1>1, <1>3, <1>4, <1>5, <1>9, SameIndex DEF CompleteInv, Below
<1>12. FreshInv => FreshInv'
  BY <1>1, <1>3, <1>4, <1>5, <1>9, SameIndex DEF FreshInv, Under
<1> QED
  BY <1>1, <1>6, <1>8, <1>10, <1>11, <1>12, SameIndex DEF SearchInv

LEMMA AnswerInv ==
    ASSUME SearchInv, NEW p \in Pumps, Answer(p), UNCHANGED indexVars
    PROVE  SearchInv'
<1>1. /\ pump[p].pc = "answering" /\ given' = given \cup pump[p].page
      /\ next' = (IF pump[p].page = {} THEN next ELSE pump[p].token)
      /\ pump' = [pump EXCEPT ![p] = Idle]
      /\ UNCHANGED <<row, deleted, overlap, tokens, faults>>
  BY DEF Answer
<1>2. /\ pump' \in [Pumps -> PumpRecords] /\ pump'[p] = Idle
      /\ \A q \in Pumps \ {p} : pump'[q] = pump[q]
  BY <1>1, IdleOK, OnePump, Parts
<1>3. given' \subseteq index /\ next' \in 0..tokens'
  <2>1. pump[p].page \subseteq index /\ pump[p].token <= tokens /\ pump[p].token \in Nat
    BY Parts DEF CallsOK, PumpRecords
  <2> QED
    BY <1>1, <2>1, Parts
<1>4. Types'
  BY <1>1, <1>2, <1>3, IdleOK, Parts, TypesStep
<1>5. CallsOK'
  BY <1>1, <1>2, IdleOK, Parts, SameIndex DEF CallsOK
<1>6. StartsReached => StartsReached'
  BY <1>1, <1>2, IdleOK, SameIndex DEF StartsReached, Reached
<1>7. CompleteInv => CompleteInv'
  BY <1>1, <1>2, IdleOK, SameIndex DEF CompleteInv, Below
<1>8. FreshInv => FreshInv'
  <2> SUFFICES ASSUME FreshInv
               PROVE  FreshInv'
    OBVIOUS
  <2>1. \A q \in Pumps : pump'[q].pc = "idle"
    BY <1>1, <1>2, IdleOK DEF FreshInv
  <2>2. next' = 0 => given' = {}
    BY <1>1, Parts DEF FreshInv, CallsOK
  <2>3. next' # 0 /\ next' = row'.token => Under(given, row.start)'
    BY <1>1, SameIndex DEF FreshInv, Under
  <2> QED
    BY <2>1, <2>2, <2>3 DEF FreshInv
<1> QED
  BY <1>1, <1>4, <1>5, <1>6, <1>7, <1>8, SameIndex DEF SearchInv

LEMMA StartOverInv ==
    ASSUME SearchInv, StartOver, UNCHANGED indexVars
    PROVE  SearchInv'
<1>1. /\ \A p \in Pumps : pump[p] = Idle
      /\ next' = 0 /\ given' = {} /\ overlap' = FALSE
      /\ UNCHANGED <<row, deleted, pump, tokens, faults>>
  BY DEF StartOver
<1>2. Types'
  <2>1. next' \in 0..tokens'
    BY <1>1, Parts
  <2>2. given' \subseteq index /\ overlap' \in BOOLEAN
    BY <1>1
  <2> QED
    BY <1>1, <2>1, <2>2, Parts, TypesStep
<1>3. CallsOK'
  BY <1>1, Parts, SameIndex DEF CallsOK
<1>4. StartsReached => StartsReached'
  BY <1>1, SameIndex DEF StartsReached, Reached
<1>5. CompleteInv'
  BY <1>1, IdleOK DEF CompleteInv
<1>6. FreshInv'
  BY <1>1, IdleOK DEF FreshInv
<1> QED
  BY <1>1, <1>2, <1>3, <1>4, <1>5, <1>6, SameIndex DEF SearchInv

\* A rotation moves the write alias, which pumps do not read.
LEMMA RotateInv ==
    ASSUME SearchInv, Rotate, UNCHANGED pumpVars
    PROVE  SearchInv'
<1>1. /\ UNCHANGED <<created, received, index, late>> /\ current' = {}
      /\ UNCHANGED <<row, deleted, pump, next, given, overlap, tokens, faults>>
  BY DEF Rotate, times, pumpVars
<1>2. Types'
  <2>1. IndexTypeOK'
    BY <1>1 DEF SearchInv, Types, IndexTypeOK
  <2>2. PumpTypeOK'
    BY <1>1 DEF SearchInv, Types, PumpTypeOK, PumpRecords, Cursors
  <2> QED
    BY <2>1, <2>2 DEF Types
<1>3. CallsOK'
  BY <1>1, Parts DEF CallsOK
<1>4. /\ OnlyReceived' = OnlyReceived /\ Unique' = Unique
      /\ TimesInOrder' = TimesInOrder
  BY <1>1 DEF OnlyReceived, Unique, TimesInOrder, CanonicalTime
<1>5. StartsReached => StartsReached'
  BY <1>1 DEF StartsReached, Reached
<1>6. CompleteInv => CompleteInv'
  BY <1>1 DEF CompleteInv, Below
<1>7. FreshInv => FreshInv'
  BY <1>1 DEF FreshInv, Under
<1> QED
  BY <1>1, <1>2, <1>3, <1>4, <1>5, <1>6, <1>7 DEF SearchInv

\* The row is deleted; or a client walks through another search.
LEMMA ElsewhereInv ==
    ASSUME SearchInv, UNCHANGED <<indexVars, row, pump, next, given, overlap, tokens, faults>>,
           deleted' \in BOOLEAN
    PROVE  SearchInv'
<1>1. Types'
  BY Parts, TypesStep
<1>2. CallsOK'
  BY Parts, SameIndex DEF CallsOK
<1>3. StartsReached => StartsReached'
  BY SameIndex DEF StartsReached, Reached
<1>4. CompleteInv => CompleteInv'
  BY SameIndex DEF CompleteInv, Below
<1>5. FreshInv => FreshInv'
  BY SameIndex DEF FreshInv, Under
<1> QED
  BY <1>1, <1>2, <1>3, <1>4, <1>5, SameIndex DEF SearchInv

LEMMA PumpNextInv ==
    ASSUME SearchInv, PumpNext, UNCHANGED indexVars
    PROVE  SearchInv'
<1>1. ASSUME NEW p \in Pumps, UpdateGone(p)
      PROVE  SearchInv'
  BY <1>1, EndStep, Parts DEF UpdateGone
<1>2. ASSUME NEW p \in Pumps, PumpFail(p)
      PROVE  SearchInv'
  <2>1. faults' \in 0..MaxFaults
    BY <1>2, Parts, PumpAssumption DEF PumpFail
  <2> QED
    BY <1>2, <2>1, EndStep DEF PumpFail
<1>3. CASE DeleteActiveSearch
  BY <1>3, ElsewhereInv DEF DeleteActiveSearch
<1> QED
  BY <1>1, <1>2, <1>3, SendPumpInv, ReadCursorInv, SearchStepInv, UpdateCursorInv, AnswerInv,
     StartOverInv
  DEF PumpNext

-----------------------------------------------------------------------------
(* The invariant *)

LEMMA InitInv == Init => SearchInv
<1> SUFFICES ASSUME IndexInit, PumpInit
             PROVE  SearchInv
  BY DEF Init
<1>1. /\ row = [token |-> 0, start |-> 0] /\ pump = [p \in Pumps |-> Idle]
      /\ deleted = FALSE /\ next = 0 /\ given = {} /\ overlap = FALSE
      /\ tokens = 0 /\ faults = 0 /\ index = {} /\ current = {} /\ late = {}
  BY DEF PumpInit, IndexInit
<1>2. Types
  <2>1. IndexTypeOK
    BY DEF IndexInit, IndexTypeOK
  <2>2. 0 \in 0..MaxTokens /\ 0 \in 0..(MaxTime + 1) /\ 0 \in 0..MaxFaults /\ 0 \in 0..0
    BY PumpAssumption, IndexAssumption
  <2>3. row \in Cursors /\ \A p \in Pumps : pump[p] = Idle
    BY <1>1, <2>2 DEF Cursors
  <2>4. pump \in [Pumps -> PumpRecords]
    BY <1>1, IdleOK
  <2>5. PumpTypeOK
    BY <1>1, <2>2, <2>3, <2>4, IdleOK DEF PumpTypeOK, PumpRecords
  <2> QED
    BY <2>1, <2>5 DEF Types
<1>3. CallsOK
  BY <1>1, IdleOK DEF CallsOK
<1>4. StartsReached
  BY <1>1, IdleOK DEF StartsReached, Reached
<1>5. CompleteInv
  BY <1>1, IdleOK DEF CompleteInv
<1>6. FreshInv
  BY <1>1, IdleOK DEF FreshInv
<1> QED
  BY <1>2, <1>3, <1>4, <1>5, <1>6 DEF SearchInv

LEMMA Invariance == Spec => []SearchInv
<1>1. ASSUME SearchInv, [Next]_vars
      PROVE  SearchInv'
  <2>1. ASSUME NEW e \in Events, IndexEventInWalk(e), UNCHANGED pumpVars
        PROVE  SearchInv'
    BY <1>1, <2>1, IndexStep DEF IndexEventInWalk
  <2>2. CASE PumpNext /\ UNCHANGED indexVars
    BY <1>1, <2>2, PumpNextInv
  <2>3. CASE UNCHANGED <<indexVars, pumpVars>>
    <3>1. deleted \in BOOLEAN
      BY <1>1, Parts
    <3> QED
      BY <1>1, <2>3, <3>1, ElsewhereInv DEF pumpVars
  <2>4. CASE RotateInWalk /\ UNCHANGED pumpVars
    BY <1>1, <2>4, RotateInv DEF RotateInWalk
  <2> QED
    BY <1>1, <2>1, <2>2, <2>3, <2>4 DEF Next, vars
<1> QED
  BY InitInv, <1>1, PTL DEF Spec

-----------------------------------------------------------------------------
(* What is proved of the specification *)

\* The variables of the index and of active searches keep their types: a client
\* holds tokens that were drawn, and is given events there are.
THEOREM PumpTypes == Spec => [](IndexTypeOK /\ PumpTypeOK)
<1>1. SearchInv => IndexTypeOK /\ PumpTypeOK
  BY DEF SearchInv, Types
<1> QED
  BY Invariance, <1>1, PTL

\* A client whose token is the cursor's misses nothing behind it: a token is
\* presented by a call only after the page it came with was answered, and a call
\* goes on from the cursor only while that token is the cursor's.  It is about
\* events whose times of receipt differ, that are indexed in their order, and that
\* say no time of their own or one that is in that order and not after it.
THEOREM NothingIsSkipped == Spec => []CursorIsComplete
<1>1. SearchInv => CursorIsComplete
  BY DEF SearchInv, CursorIsComplete, Complete, CompleteInv, Below
<1> QED
  BY Invariance, <1>1, PTL

\* A client with one call at a time is given nothing twice: what it has is behind
\* the cursor its next call goes on from.
THEOREM NothingComesTwice == Spec => []PagesAreFresh
<1>1. SearchInv => PagesAreFresh
  BY DEF SearchInv, PagesAreFresh, Fresh, FreshInv
<1> QED
  BY Invariance, <1>1, PTL

=============================================================================
