------------------------------ MODULE AliasProofs ------------------------------
(***************************************************************************)
(* Proofs about the aliases of an environment, for any number of indices,  *)
(* handlers and events.                                                    *)
(***************************************************************************)
EXTENDS IndexAliases, FiniteSetTheorems, TLAPS

\* Whatever a handler, a swap or a deletion names was created.
UsedInv ==
    /\ \A s \in swaps : s.add \in used
    /\ \A w \in Workers : job[w].seen \subseteq used
    /\ deletion.pc = "dropping" => deletion.index \subseteq detached
    /\ env = "none" =>
          /\ used = {} /\ swaps = {} /\ deletion.pc = "none"
          /\ \A w \in Workers : job[w] = Idle

\* A deletion that went on has taken an index out of the aliases.
DetachInv ==
    /\ deletion.pc = "detaching" => deletion.index # {}
    /\ deletion.pc \in {"dropping", "committing"} => detached # {}
    /\ env = "deleted" => detached # {}

\* What will be written, now or by a request on its way, is searched.
SearchInv ==
    detached = {} =>
        /\ write \subseteq search
        /\ \A s \in swaps : s.add \in search
        /\ \A w \in Workers : job[w].pc \in {"checking", "restoring"} => job[w].seen \subseteq search

\* Without a fault there is one rotation at a time, and the repair finds
\* nothing to repair.
CalmWrite == Exists => \E i \in Indices : write = {i}

CalmJobs ==
    \A w \in Workers :
        /\ job[w].pc \notin {"trimming", "restoring"}
        /\ job[w].pc = "checking" => job[w].seen # {}
        /\ job[w].pc = "creating" => job[w].seen = write

CalmSwaps ==
    /\ \A s \in swaps : s.remove = write /\ s.add \notin write
    /\ \A s, t \in swaps : s = t
    /\ swaps # {} => Rotators = {}
    /\ \A v, w \in Rotators : v = w

CalmEvents ==
    /\ strayed = {}
    /\ \A e \in Events : /\ message[e] # "given_up"
                         /\ message[e] # "saved" => attempts[e] = 0

CalmInv ==
    faults = 0 /\ detached = {} => CalmWrite /\ CalmJobs /\ CalmSwaps /\ CalmEvents

\* Events are submitted to an environment that is there.
EventInv == \A e \in Events : message[e] # "none" => env \in {"present", "deleted"}

Inv == TypeOK /\ UsedInv /\ DetachInv /\ EventInv /\ SearchInv /\ SavedIsSearchable /\ CalmInv

USE DEF Idle, Steps

LEMMA Singles ==
    /\ \A S : Cardinality(S) = 1 => S # {}
    /\ \A i : Cardinality({i}) = 1
<1>1. Cardinality({}) = 0
  BY FS_EmptySet
<1>2. \A i : Cardinality({i}) = 1
  BY FS_Singleton
<1> QED
  BY <1>1, <1>2

LEMMA InitInv == Init => Inv
<1> SUFFICES ASSUME Init
             PROVE  Inv
  OBVIOUS
<1> USE DEF Init
<1>1. TypeOK
  BY AliasAssumption DEF TypeOK
<1>2. UsedInv /\ DetachInv /\ EventInv /\ SearchInv
  BY DEF UsedInv, DetachInv, EventInv, SearchInv
<1>3. SavedIsSearchable
  BY DEF SavedIsSearchable
<1>4. CalmInv
  BY DEF CalmInv, CalmWrite, CalmJobs, CalmSwaps, CalmEvents, Exists, Rotators
<1> QED
  BY <1>1, <1>2, <1>3, <1>4 DEF Inv

\* A counted fault excuses from CalmInv.
LEMMA FaultExcuses ==
    ASSUME TypeOK, Fault
    PROVE  faults' \in 0..MaxFaults /\ CalmInv'
  BY AliasAssumption DEF TypeOK, Fault, CalmInv

-----------------------------------------------------------------------------
(* Events: the aliases stay as they are *)

\* What an attempt to store an event does to the documents.
LEMMA StoredDocs ==
    ASSUME Inv, NEW e \in Events, Stored(e)
    PROVE  /\ docs' \in [Indices -> SUBSET Events] /\ strayed' \subseteq Events
           /\ strayed \subseteq strayed'
           /\ \A i \in Indices : docs[i] \subseteq docs'[i]
           /\ detached = {} => (\E i \in search : e \in docs'[i]) \/ e \in strayed'
           /\ faults = 0 /\ detached = {} /\ Exists => strayed' = {}
<1>1. CASE /\ Cardinality(write) = 1
           /\ docs' = [i \in Indices |-> IF i \in write THEN docs[i] \cup {e} ELSE docs[i]]
           /\ strayed' = strayed
  <2>1. write # {}
    BY <1>1, Singles
  <2>2. detached = {} => \E i \in search : i \in write /\ i \in Indices
    BY <2>1 DEF Inv, SearchInv, TypeOK
  <2> QED
    BY <1>1, <2>2 DEF Inv, TypeOK, CalmInv, CalmEvents
<1>2. CASE write = {} /\ strayed' = strayed \cup {e} /\ docs' = docs
  BY <1>2 DEF Inv, TypeOK, CalmInv, CalmWrite
<1> QED
  BY <1>1, <1>2 DEF Stored

\* A step of the saver keeps Inv if it keeps what Inv says of events.
LEMMA SaverInv ==
    ASSUME Inv, UNCHANGED <<env, esVars, job, swaps, deletion>>,
           faults' \in 0..MaxFaults,
           docs' \in [Indices -> SUBSET Events], strayed' \subseteq Events,
           message' \in [Events -> {"none", "queued", "saved", "given_up"}],
           attempts' \in [Events -> 0..MaxAttempts],
           EventInv', SavedIsSearchable', faults' = 0 => faults = 0,
           faults' = 0 /\ detached = {} => CalmEvents'
    PROVE  Inv'
<1> USE DEF Inv
<1>1. TypeOK'
  BY DEF TypeOK, esVars
<1>2. UsedInv' /\ DetachInv' /\ SearchInv'
  BY DEF UsedInv, DetachInv, SearchInv, esVars
<1>3. CalmInv'
  BY DEF CalmInv, CalmWrite, CalmJobs, CalmSwaps, Exists, Rotators, esVars
<1> QED
  BY <1>1, <1>2, <1>3

LEMMA SubmitInv ==
    ASSUME Inv, NEW e \in Events, Submit(e)
    PROVE  Inv'
<1> USE DEF Inv
<1>1. /\ env = "present" /\ message[e] = "none" /\ message' = [message EXCEPT ![e] = "queued"]
      /\ UNCHANGED <<env, esVars, docs, strayed, attempts, job, swaps, deletion, faults>>
  BY DEF Submit
<1>2. message' \in [Events -> {"none", "queued", "saved", "given_up"}]
  BY <1>1 DEF TypeOK
<1>3. SavedIsSearchable'
  BY <1>1 DEF SavedIsSearchable, UnderSearchAlias, TypeOK, esVars
<1>4. EventInv'
  BY <1>1 DEF EventInv, TypeOK
<1>5. faults = 0 /\ detached = {} => CalmEvents'
  BY <1>1 DEF CalmInv, CalmEvents, TypeOK
<1> QED
  BY <1>1, <1>2, <1>3, <1>4, <1>5, SaverInv DEF TypeOK

\* An event that is attempted was submitted: its environment is there, or deleted.
LEMMA AttemptCounts ==
    ASSUME Inv, NEW e \in Events, Attempt(e)
    PROVE  /\ attempts' \in [Events -> 0..MaxAttempts] /\ message[e] = "queued"
           /\ \A x \in Events \ {e} : attempts'[x] = attempts[x]
           /\ detached = {} => Exists
  BY AliasAssumption DEF Inv, TypeOK, Attempt, EventInv, DetachInv, Exists

LEMMA SaveEventInv ==
    ASSUME Inv, NEW e \in Events, SaveEvent(e)
    PROVE  Inv'
<1> USE DEF Inv
<1>1. /\ Attempt(e) /\ Stored(e) /\ message' = [message EXCEPT ![e] = "saved"]
      /\ UNCHANGED <<env, esVars, job, swaps, deletion, faults>>
  BY DEF SaveEvent
<1>2. /\ message' \in [Events -> {"none", "queued", "saved", "given_up"}]
      /\ message'[e] = "saved" /\ \A x \in Events \ {e} : message'[x] = message[x]
  BY <1>1 DEF TypeOK
<1>3. EventInv'
  BY <1>1, <1>2, AttemptCounts DEF EventInv
<1>4. SavedIsSearchable'
  <2> SUFFICES ASSUME NEW x \in Events, message'[x] = "saved", detached = {}
               PROVE  (\E i \in search : x \in docs'[i]) \/ x \in strayed'
    BY <1>1 DEF SavedIsSearchable, UnderSearchAlias, esVars
  <2>1. CASE x = e
    BY <2>1, <1>1, StoredDocs
  <2>2. CASE x # e
    <3>1. (\E i \in search : x \in docs[i]) \/ x \in strayed
      BY <2>2, <1>2 DEF SavedIsSearchable, UnderSearchAlias
    <3> QED
      BY <3>1, <1>1, StoredDocs DEF TypeOK
  <2> QED
    BY <2>1, <2>2
<1>5. faults = 0 /\ detached = {} => CalmEvents'
  BY <1>1, <1>2, AttemptCounts, StoredDocs DEF CalmInv, CalmEvents
<1> QED
  BY <1>1, <1>2, <1>3, <1>4, <1>5, AttemptCounts, StoredDocs, SaverInv DEF TypeOK

\* Two write aliases or none: not without a fault.
LEMMA SaveRefusedInv ==
    ASSUME Inv, NEW e \in Events, SaveRefused(e)
    PROVE  Inv'
<1> USE DEF Inv
<1>1. /\ Attempt(e) /\ ~ Storable
      /\ UNCHANGED <<env, esVars, docs, strayed, message, job, swaps, deletion, faults>>
  BY DEF SaveRefused
<1>2. EventInv' /\ SavedIsSearchable'
  BY <1>1 DEF EventInv, SavedIsSearchable, UnderSearchAlias, esVars
<1>3. ~ (faults = 0 /\ detached = {})
  BY <1>1, AttemptCounts, Singles DEF CalmInv, CalmWrite, Storable
<1> QED
  BY <1>1, <1>2, <1>3, AttemptCounts, SaverInv DEF TypeOK

LEMMA SaveFailInv ==
    ASSUME Inv, NEW e \in Events, SaveFail(e)
    PROVE  Inv'
<1> USE DEF Inv
<1>1. /\ Attempt(e) /\ Fault
      /\ Stored(e) \/ UNCHANGED <<docs, strayed>>
      /\ UNCHANGED <<env, esVars, message, job, swaps, deletion>>
  BY DEF SaveFail
<1>2. /\ docs' \in [Indices -> SUBSET Events] /\ strayed' \subseteq Events
      /\ strayed \subseteq strayed' /\ \A i \in Indices : docs[i] \subseteq docs'[i]
  BY <1>1, StoredDocs DEF TypeOK
<1>3. EventInv' /\ SavedIsSearchable'
  BY <1>1, <1>2 DEF EventInv, SavedIsSearchable, UnderSearchAlias, esVars, TypeOK
<1>4. faults' \in 0..MaxFaults /\ faults' # 0
  BY <1>1, AliasAssumption DEF Fault, TypeOK
<1> QED
  BY <1>1, <1>2, <1>3, <1>4, AttemptCounts, SaverInv DEF TypeOK

LEMMA GiveUpInv ==
    ASSUME Inv, NEW e \in Events, GiveUp(e)
    PROVE  Inv'
<1> USE DEF Inv
<1>1. /\ message[e] = "queued" /\ attempts[e] = MaxAttempts
      /\ message' = [message EXCEPT ![e] = "given_up"]
      /\ UNCHANGED <<env, esVars, docs, strayed, attempts, job, swaps, deletion, faults>>
  BY DEF GiveUp
<1>2. message' \in [Events -> {"none", "queued", "saved", "given_up"}]
  BY <1>1 DEF TypeOK
<1>3. EventInv' /\ SavedIsSearchable'
  BY <1>1 DEF EventInv, SavedIsSearchable, UnderSearchAlias, TypeOK, esVars
<1>4. ~ (faults = 0 /\ detached = {})
  BY <1>1, AliasAssumption DEF CalmInv, CalmEvents
<1> QED
  BY <1>1, <1>2, <1>3, <1>4, SaverInv DEF TypeOK

-----------------------------------------------------------------------------
(* Handlers: the aliases stay as they are *)

\* A handler's step keeps Inv if what it has seen and does next is in order.
LEMMA JobInv ==
    ASSUME Inv, NEW w \in Workers, NEW step \in Steps, NEW seen \in SUBSET used,
           Goto(w, step, seen),
           env # "none" \/ (step = "idle" /\ seen = {}),
           step \in {"checking", "restoring"} /\ detached = {} => seen \subseteq search,
           faults' \in 0..MaxFaults, faults' = 0 => faults = 0,
           faults' = 0 /\ detached = {} => CalmJobs' /\ CalmSwaps',
           UNCHANGED <<env, esVars, docVars, swaps, deletion>>
    PROVE  Inv'
<1> USE DEF Inv
<1>1. /\ job' = [job EXCEPT ![w] = [pc |-> step, seen |-> seen]]
      /\ UNCHANGED <<env, used, dropped, detached, search, write, docs, strayed, message,
                     attempts, swaps, deletion>>
  BY DEF Goto, esVars, docVars
<1>2. /\ job'[w] = [pc |-> step, seen |-> seen]
      /\ \A v \in Workers \ {w} : job'[v] = job[v]
  BY <1>1 DEF TypeOK
<1>3. TypeOK'
  <2>1. seen \in SUBSET Indices
    BY DEF TypeOK
  <2>2. job' \in [Workers -> [pc : Steps, seen : SUBSET Indices]]
    BY <1>1, <2>1 DEF TypeOK
  <2> QED
    BY <1>1, <2>2 DEF TypeOK
<1>4. UsedInv'
  BY <1>1, <1>2 DEF UsedInv
<1>5. DetachInv' /\ EventInv' /\ SavedIsSearchable'
  BY <1>1 DEF DetachInv, EventInv, SavedIsSearchable, UnderSearchAlias
<1>6. SearchInv'
  BY <1>1, <1>2 DEF SearchInv
<1>7. CalmInv'
  BY <1>1 DEF CalmInv, CalmWrite, CalmEvents, Exists
<1> QED
  BY <1>3, <1>4, <1>5, <1>6, <1>7

\* What Goto does, for one handler and the others.
LEMMA GotoOne ==
    ASSUME TypeOK, NEW w \in Workers, NEW step, NEW seen, Goto(w, step, seen)
    PROVE  /\ job'[w].pc = step /\ job'[w].seen = seen
           /\ \A v \in Workers \ {w} : job'[v] = job[v]
  BY DEF TypeOK, Goto

\* Handlers other than rotations do not disturb the rotation there is.
LEMMA NoRotator ==
    ASSUME Inv, NEW w \in Workers, NEW step, NEW seen, Goto(w, step, seen),
           step \in {"idle", "checking"}, step = "checking" => seen # {},
           UNCHANGED <<write, swaps>>, faults = 0, detached = {}
    PROVE  CalmJobs' /\ CalmSwaps'
<1>1. /\ job'[w].pc = step /\ job'[w].seen = seen
      /\ \A v \in Workers \ {w} : job'[v] = job[v]
  BY GotoOne DEF Inv
<1>2. CalmJobs /\ CalmSwaps
  BY DEF Inv, CalmInv
<1>3. Rotators' \subseteq Rotators
  BY <1>1 DEF Rotators
<1> QED
  BY <1>1, <1>2, <1>3 DEF CalmJobs, CalmSwaps

LEMMA StartRotationInv ==
    ASSUME Inv, NEW w \in Workers, StartRotation(w)
    PROVE  Inv'
<1> USE DEF Inv
<1>1. /\ job[w] = Idle /\ env = "present" /\ Goto(w, "listing", {})
      /\ IF Rotating THEN Fault ELSE faults' = faults
      /\ UNCHANGED <<env, esVars, docVars, swaps, deletion>>
  BY DEF StartRotation
<1>2. faults' \in 0..MaxFaults /\ (faults' = 0 => faults = 0 /\ ~ Rotating)
  BY <1>1, AliasAssumption DEF TypeOK, Fault
<1>3. ASSUME faults' = 0, detached = {}
      PROVE  CalmJobs' /\ CalmSwaps'
  <2>1. CalmJobs /\ CalmSwaps /\ swaps = {} /\ Rotators = {}
    BY <1>2, <1>3 DEF CalmInv, Rotating
  <2>2. /\ job'[w].pc = "listing" /\ \A v \in Workers \ {w} : job'[v] = job[v]
    BY <1>1, GotoOne
  <2>3. Rotators' \subseteq {w}
    BY <2>1, <2>2 DEF Rotators
  <2> QED
    BY <1>1, <2>1, <2>2, <2>3 DEF CalmJobs, CalmSwaps, esVars
<1> QED
  BY <1>1, <1>2, <1>3, JobInv

LEMMA ReadWriteAliasesInv ==
    ASSUME Inv, NEW w \in Workers, ReadWriteAliases(w)
    PROVE  Inv'
<1> USE DEF Inv
<1>1. /\ job[w].pc = "listing" /\ Goto(w, "creating", write)
      /\ UNCHANGED <<env, esVars, docVars, swaps, deletion, faults>>
  BY DEF ReadWriteAliases
<1>2. env # "none" /\ write \in SUBSET used /\ faults \in 0..MaxFaults
  BY <1>1 DEF UsedInv, TypeOK
<1>3. ASSUME faults = 0, detached = {}
      PROVE  CalmJobs' /\ CalmSwaps'
  <2>1. CalmJobs /\ CalmSwaps
    BY <1>3 DEF CalmInv
  <2>2. /\ job'[w].pc = "creating" /\ job'[w].seen = write
        /\ \A v \in Workers \ {w} : job'[v] = job[v]
    BY <1>1, GotoOne
  <2>3. Rotators' = Rotators
    BY <1>1, <2>2 DEF Rotators
  <2> QED
    BY <1>1, <2>1, <2>2, <2>3 DEF CalmJobs, CalmSwaps, esVars
<1> QED
  BY <1>1, <1>2, <1>3, JobInv

LEMMA StartVerifyInv ==
    ASSUME Inv, NEW w \in Workers, StartVerify(w)
    PROVE  Inv'
<1> USE DEF Inv
<1>1. /\ env = "present" /\ Goto(w, "checking", search)
      /\ UNCHANGED <<env, esVars, docVars, swaps, deletion, faults>>
  BY DEF StartVerify
<1>2. search \in SUBSET used /\ faults \in 0..MaxFaults
  BY DEF TypeOK
<1>3. ASSUME faults = 0, detached = {}
      PROVE  CalmJobs' /\ CalmSwaps'
  <2>1. search # {}
    BY <1>1, <1>3 DEF CalmInv, CalmWrite, SearchInv, Exists
  <2> QED
    BY <1>1, <1>3, <2>1, NoRotator DEF esVars
<1> QED
  BY <1>1, <1>2, <1>3, JobInv

\* Without a fault the repair finds one write alias, and is done.
LEMMA CheckInv ==
    ASSUME Inv, NEW w \in Workers, CheckWriteAliases(w)
    PROVE  Inv'
<1> USE DEF Inv
<1>1. /\ job[w].pc = "checking"
      /\ UNCHANGED <<env, esVars, docVars, swaps, deletion, faults>>
  BY DEF CheckWriteAliases
<1>2. /\ env # "none" /\ faults \in 0..MaxFaults /\ write \in SUBSET used
      /\ job[w].seen \in SUBSET used
      /\ detached = {} => job[w].seen \subseteq search
  BY <1>1 DEF UsedInv, SearchInv, TypeOK
<1>3. faults = 0 /\ detached = {} => job[w].seen # {} /\ Cardinality(write) = 1 /\ write # {}
  <2> SUFFICES ASSUME faults = 0, detached = {}
               PROVE  job[w].seen # {} /\ Cardinality(write) = 1 /\ write # {}
    OBVIOUS
  <2>1. CalmWrite /\ CalmJobs /\ Exists
    BY <1>2 DEF CalmInv, Exists, TypeOK, DetachInv
  <2> QED
    BY <1>1, <2>1, Singles DEF CalmWrite, CalmJobs
<1>4. CASE Goto(w, "idle", {})
  <2>1. faults = 0 /\ detached = {} => CalmJobs' /\ CalmSwaps'
    BY <1>1, <1>4, NoRotator DEF esVars
  <2> QED
    BY <1>1, <1>2, <1>4, <2>1, JobInv
<1>5. CASE job[w].seen = {} /\ Goto(w, "listing", {})
  BY <1>1, <1>2, <1>3, <1>5, JobInv
<1>6. CASE \E keep \in write : Cardinality(write) > 1 /\ Goto(w, "trimming", write \ {keep})
  BY <1>1, <1>2, <1>3, <1>6, JobInv
<1>7. CASE \E i \in job[w].seen : write = {} /\ Goto(w, "restoring", {i})
  BY <1>1, <1>2, <1>3, <1>7, JobInv
<1> QED
  BY <1>4, <1>5, <1>6, <1>7 DEF CheckWriteAliases

LEMMA HandlerFailInv ==
    ASSUME Inv, NEW w \in Workers, HandlerFail(w)
    PROVE  Inv'
<1> USE DEF Inv
<1>1. /\ Fault /\ Goto(w, "idle", {})
      /\ UNCHANGED <<env, esVars, docVars, swaps, deletion>>
  BY DEF HandlerFail
<1>2. faults' \in 0..MaxFaults /\ faults' # 0
  BY <1>1, AliasAssumption DEF Fault, TypeOK
<1> QED
  BY <1>1, <1>2, JobInv

-----------------------------------------------------------------------------
(* Aliases *)

LEMMA CreateEnvironmentIndexInv ==
    ASSUME Inv, NEW i \in Indices, CreateEnvironmentIndex(i)
    PROVE  Inv'
<1> USE DEF Inv
<1>1. /\ env = "none" /\ env' = "indexed"
      /\ used' = {i} /\ search' = {i} /\ write' = {i}
      /\ UNCHANGED <<dropped, detached, docs, strayed, message, attempts, job, swaps,
                     deletion, faults>>
  BY DEF CreateEnvironmentIndex, docVars
<1>2. /\ used = {} /\ detached = {} /\ dropped = {} /\ swaps = {} /\ deletion.pc = "none"
      /\ \A w \in Workers : job[w].pc = "idle" /\ job[w].seen = {}
      /\ \A e \in Events : message[e] = "none"
  BY <1>1 DEF UsedInv, EventInv, TypeOK
<1>3. TypeOK'
  BY <1>1, <1>2 DEF TypeOK
<1>4. UsedInv' /\ DetachInv' /\ EventInv' /\ SearchInv'
  BY <1>1, <1>2 DEF UsedInv, DetachInv, EventInv, SearchInv
<1>5. SavedIsSearchable'
  BY <1>1, <1>2 DEF SavedIsSearchable
<1>6. CalmInv'
  <2>1. CalmWrite' /\ CalmJobs' /\ CalmSwaps'
    BY <1>1, <1>2 DEF CalmWrite, CalmJobs, CalmSwaps, Rotators
  <2>2. CalmEvents => CalmEvents'
    BY <1>1 DEF CalmEvents
  <2> QED
    BY <1>1, <2>1, <2>2 DEF CalmInv
<1> QED
  BY <1>3, <1>4, <1>5, <1>6

LEMMA CreateEnvironmentRowInv ==
    ASSUME Inv, CreateEnvironmentRow
    PROVE  Inv'
<1> USE DEF Inv
<1>1. /\ env = "indexed" /\ env' = "present"
      /\ UNCHANGED <<used, dropped, detached, search, write, docs, strayed, message, attempts,
                     job, swaps, deletion, faults>>
  BY DEF CreateEnvironmentRow, esVars, docVars
<1>2. TypeOK'
  BY <1>1 DEF TypeOK
<1>3. UsedInv' /\ DetachInv' /\ EventInv' /\ SearchInv' /\ SavedIsSearchable'
  BY <1>1 DEF UsedInv, DetachInv, EventInv, SearchInv, SavedIsSearchable, UnderSearchAlias
<1>4. CalmInv'
  BY <1>1 DEF CalmInv, CalmWrite, CalmJobs, CalmSwaps, CalmEvents, Exists, Rotators
<1> QED
  BY <1>2, <1>3, <1>4

\* The rotation hands over to its swap.
LEMMA CreateIndexInv ==
    ASSUME Inv, NEW w \in Workers, NEW i \in Indices, CreateIndex(w, i)
    PROVE  Inv'
<1> DEFINE s == [add |-> i, remove |-> job[w].seen]
<1> USE DEF Inv
<1>1. /\ job[w].pc = "creating" /\ i \notin used
      /\ used' = used \cup {i} /\ search' = search \cup {i} /\ swaps' = swaps \cup {s}
      /\ Goto(w, "idle", {})
      /\ UNCHANGED <<env, dropped, detached, write, docs, strayed, message, attempts, deletion,
                     faults>>
  BY DEF CreateIndex, docVars
<1>2. s \in [add : Indices, remove : SUBSET Indices] /\ s.add = i /\ s.remove = job[w].seen
  BY DEF TypeOK
<1> HIDE DEF s
<1>3. /\ job'[w].pc = "idle" /\ job'[w].seen = {}
      /\ \A v \in Workers \ {w} : job'[v] = job[v]
  BY <1>1, GotoOne
<1>4. TypeOK'
  <2>1. job' \in [Workers -> [pc : Steps, seen : SUBSET Indices]]
    BY <1>1 DEF TypeOK, Goto
  <2>2. search' \subseteq used' \ detached' /\ write' \subseteq used' \ dropped'
    BY <1>1 DEF TypeOK
  <2> QED
    BY <1>1, <1>2, <2>1, <2>2 DEF TypeOK
<1>5. env # "none"
  BY <1>1 DEF UsedInv
<1>6. UsedInv'
  BY <1>1, <1>2, <1>3, <1>5 DEF UsedInv
<1>7. DetachInv' /\ EventInv'
  BY <1>1 DEF DetachInv, EventInv
<1>8. SearchInv'
  BY <1>1, <1>2, <1>3 DEF SearchInv
<1>9. SavedIsSearchable'
  BY <1>1 DEF SavedIsSearchable, UnderSearchAlias
<1>10. CalmInv'
  <2> SUFFICES ASSUME faults = 0, detached = {}
               PROVE  CalmWrite' /\ CalmJobs' /\ CalmSwaps' /\ CalmEvents'
    BY <1>1 DEF CalmInv
  <2>1. CalmWrite /\ CalmJobs /\ CalmSwaps /\ CalmEvents
    BY DEF CalmInv
  <2>2. CalmWrite' /\ CalmEvents'
    BY <1>1, <2>1 DEF CalmWrite, CalmEvents, Exists
  <2>3. CalmJobs'
    BY <1>1, <1>3, <2>1 DEF CalmJobs
  <2>4. w \in Rotators /\ swaps = {} /\ Rotators' = {}
    <3>1. w \in Rotators
      BY <1>1 DEF Rotators
    <3>2. swaps = {} /\ Rotators = {w}
      BY <2>1, <3>1 DEF CalmSwaps
    <3> QED
      BY <1>3, <3>1, <3>2 DEF Rotators
  <2>5. s.remove = write /\ s.add \notin write
    BY <1>1, <1>2, <2>1 DEF CalmJobs, TypeOK
  <2>6. CalmSwaps'
    BY <1>1, <2>4, <2>5 DEF CalmSwaps
  <2> QED
    BY <2>2, <2>3, <2>6
<1> QED
  BY <1>4, <1>6, <1>7, <1>8, <1>9, <1>10

\* What an alias request adds is searched; that is all that Inv asks of it, but
\* for CalmInv.
LEMMA PutAliasesInv ==
    ASSUME Inv, NEW add \in SUBSET used, NEW remove \in SUBSET Indices,
           PutAliases(add, remove),
           detached = {} => add \subseteq search,
           swaps' \subseteq swaps,
           job' \in [Workers -> [pc : Steps, seen : SUBSET Indices]],
           \A w \in Workers : job'[w] = job[w] \/ job'[w] = Idle,
           CalmInv',
           UNCHANGED <<env, used, dropped, detached, search, docVars, deletion, faults>>
    PROVE  Inv'
<1> USE DEF Inv
<1>1. UNCHANGED <<env, used, dropped, detached, search, docs, strayed, message, attempts,
                  deletion, faults>>
  BY DEF docVars
<1>2. /\ write' \subseteq write \cup add
      /\ write' \subseteq used \ dropped
  BY DEF PutAliases, TypeOK
<1>3. TypeOK'
  BY <1>1, <1>2 DEF TypeOK
<1>4. \A w \in Workers : /\ job'[w].seen \subseteq job[w].seen
                         /\ job'[w].pc = job[w].pc \/ job'[w].pc = "idle"
  OBVIOUS
<1>5. UsedInv'
  BY <1>1, <1>4 DEF UsedInv
<1>6. DetachInv' /\ EventInv' /\ SavedIsSearchable'
  BY <1>1 DEF DetachInv, EventInv, SavedIsSearchable, UnderSearchAlias
<1>7. SearchInv'
  BY <1>1, <1>2, <1>4 DEF SearchInv
<1> QED
  BY <1>3, <1>5, <1>6, <1>7

\* The swap of the one rotation there is moves the write alias to its index.
LEMMA SwapAliasesInv ==
    ASSUME Inv, NEW s \in swaps, SwapAliases(s)
    PROVE  Inv'
<1> USE DEF Inv
<1>1. /\ PutAliases({s.add}, s.remove) /\ swaps' = swaps \ {s}
      /\ UNCHANGED <<env, used, dropped, detached, search, docVars, job, deletion, faults>>
  BY DEF SwapAliases
<1>2. s.add \in Indices /\ s.add \in used /\ s.remove \in SUBSET Indices
  BY DEF TypeOK, UsedInv
<1>3. CalmInv'
  <2> SUFFICES ASSUME faults = 0, detached = {}
               PROVE  CalmWrite' /\ CalmJobs' /\ CalmSwaps' /\ CalmEvents'
    BY <1>1 DEF CalmInv
  <2>1. CalmWrite /\ CalmJobs /\ CalmSwaps /\ CalmEvents
    BY DEF CalmInv
  <2>2. dropped = {} /\ strayed = {}
    BY <2>1 DEF CalmEvents, TypeOK
  <2>3. Rotators = {} /\ s.remove = write /\ s.add \notin write /\ swaps = {s}
    BY <2>1 DEF CalmSwaps
  <2>4. write' = {s.add}
    BY <1>1, <2>2, <2>3 DEF PutAliases
  <2>5. CalmWrite'
    BY <1>2, <2>4 DEF CalmWrite
  <2>6. CalmJobs' /\ Rotators' = {}
    BY <1>1, <2>1, <2>3 DEF CalmJobs, Rotators
  <2>7. CalmSwaps'
    BY <1>1, <2>3, <2>6 DEF CalmSwaps
  <2>8. CalmEvents'
    BY <1>1, <2>1 DEF CalmEvents, docVars
  <2> QED
    BY <2>5, <2>6, <2>7, <2>8
<1>4. detached = {} => {s.add} \subseteq search
  BY DEF SearchInv
<1>5. job \in [Workers -> [pc : Steps, seen : SUBSET Indices]]
  BY DEF TypeOK
<1> QED
  BY <1>1, <1>2, <1>3, <1>4, <1>5, PutAliasesInv

LEMMA SwapFailInv ==
    ASSUME Inv, NEW s \in swaps, SwapFail(s)
    PROVE  Inv'
<1> USE DEF Inv
<1>1. /\ Fault /\ swaps' = swaps \ {s}
      /\ UNCHANGED <<env, used, dropped, detached, search, write, docs, strayed, message,
                     attempts, job, deletion>>
  BY DEF SwapFail, esVars, docVars
<1>2. faults' \in 0..MaxFaults /\ CalmInv'
  BY <1>1, FaultExcuses
<1>3. TypeOK'
  BY <1>1, <1>2 DEF TypeOK
<1>4. UsedInv' /\ DetachInv' /\ EventInv' /\ SearchInv' /\ SavedIsSearchable'
  BY <1>1 DEF UsedInv, DetachInv, EventInv, SearchInv, SavedIsSearchable, UnderSearchAlias
<1> QED
  BY <1>2, <1>3, <1>4

\* Trimming and restoring happen after a fault or a deletion alone.
LEMMA RepairInv ==
    ASSUME Inv, NEW w \in Workers, TrimWriteAliases(w) \/ RestoreWriteAlias(w)
    PROVE  Inv'
<1> USE DEF Inv
<1>1. /\ job[w].pc \in {"trimming", "restoring"}
      /\ PutAliases({}, job[w].seen) \/ (job[w].pc = "restoring" /\ PutAliases(job[w].seen, {}))
      /\ Goto(w, "idle", {})
      /\ UNCHANGED <<env, used, dropped, detached, search, docVars, swaps, deletion, faults>>
  BY DEF TrimWriteAliases, RestoreWriteAlias
<1>2. CalmInv'
  <2>1. ~ (faults = 0 /\ detached = {})
    BY <1>1 DEF CalmInv, CalmJobs
  <2> QED
    BY <1>1, <2>1 DEF CalmInv
<1>3. /\ job' \in [Workers -> [pc : Steps, seen : SUBSET Indices]]
      /\ \A v \in Workers : job'[v] = job[v] \/ job'[v] = Idle
  BY <1>1 DEF Goto, TypeOK
<1>4. /\ job[w].seen \in SUBSET used /\ job[w].seen \in SUBSET Indices
      /\ {} \in SUBSET used /\ {} \in SUBSET Indices
      /\ job[w].pc = "restoring" /\ detached = {} => job[w].seen \subseteq search
  BY DEF UsedInv, TypeOK, SearchInv
<1>5. CASE PutAliases({}, job[w].seen)
  BY <1>1, <1>2, <1>3, <1>4, <1>5, PutAliasesInv
<1>6. CASE job[w].pc = "restoring" /\ PutAliases(job[w].seen, {})
  BY <1>1, <1>2, <1>3, <1>4, <1>6, PutAliasesInv
<1> QED
  BY <1>1, <1>5, <1>6

-----------------------------------------------------------------------------
(* Deletion *)

\* A step of the deletion that leaves Elasticsearch alone.
LEMMA DeletionInv ==
    ASSUME Inv, NEW step \in {"none", "listing", "detaching", "committing"},
           NEW index \in SUBSET used, Deletion(step, index),
           env # "none" \/ step = "none",
           step = "detaching" => index # {},
           step = "committing" => detached # {},
           env' = env \/ (env' = "deleted" /\ detached # {} /\ env # "none"),
           faults' \in 0..MaxFaults, faults' = 0 => faults = 0,
           UNCHANGED <<esVars, docVars, job, swaps>>
    PROVE  Inv'
<1> USE DEF Inv
<1>1. /\ deletion'.pc = step /\ deletion'.index = index
      /\ UNCHANGED <<used, dropped, detached, search, write, docs, strayed, message, attempts,
                     job, swaps>>
  BY DEF Deletion, esVars, docVars
<1>2. TypeOK'
  BY <1>1 DEF TypeOK
<1>3. UsedInv' /\ DetachInv' /\ EventInv' /\ SearchInv'
  BY <1>1 DEF UsedInv, DetachInv, EventInv, SearchInv
<1>4. SavedIsSearchable'
  BY <1>1 DEF SavedIsSearchable, UnderSearchAlias
<1>5. CalmInv'
  BY <1>1 DEF CalmInv, CalmWrite, CalmJobs, CalmSwaps, CalmEvents, Exists, Rotators
<1> QED
  BY <1>2, <1>3, <1>4, <1>5

\* Before its requests, between them, and at its end.
LEMMA DeletionRowsInv ==
    ASSUME Inv, DeleteRows \/ DeleteListsIndices \/ DeleteCommit \/ DeleteFail
    PROVE  Inv'
<1> USE DEF Inv
<1>1. {} \in SUBSET used /\ search \in SUBSET used /\ faults \in 0..MaxFaults
  BY DEF TypeOK
<1>2. CASE DeleteRows
  BY <1>1, <1>2, DeletionInv DEF DeleteRows
<1>3. CASE DeleteListsIndices
  <2>1. /\ deletion.pc = "listing" /\ env # "none"
        /\ \/ search # {} /\ Deletion("detaching", search)
           \/ Deletion("none", {})
        /\ UNCHANGED <<env, esVars, docVars, job, swaps, faults>>
    BY <1>3, Singles DEF DeleteListsIndices, UsedInv
  <2>2. CASE Deletion("none", {})
    BY <1>1, <2>1, <2>2, DeletionInv
  <2>3. CASE search # {} /\ Deletion("detaching", search)
    BY <1>1, <2>1, <2>3, DeletionInv
  <2> QED
    BY <2>1, <2>2, <2>3
<1>4. CASE DeleteCommit
  <2>1. detached # {} /\ env # "none"
    BY <1>4 DEF DeleteCommit, DetachInv, UsedInv
  <2> QED
    BY <1>1, <1>4, <2>1, DeletionInv DEF DeleteCommit
<1>5. CASE DeleteFail
  <2>1. faults' \in 0..MaxFaults /\ faults' # 0
    BY <1>5, AliasAssumption DEF DeleteFail, Fault, TypeOK
  <2> QED
    BY <1>1, <1>5, <2>1, DeletionInv DEF DeleteFail
<1> QED
  BY <1>2, <1>3, <1>4, <1>5

\* Its requests leave detached indices behind.
LEMMA DeleteIndexInv ==
    ASSUME Inv, DeleteAliases \/ DeleteIndex
    PROVE  Inv'
<1> USE DEF Inv
<1>1. /\ UNCHANGED <<env, used, strayed, message, attempts, job, swaps, faults>>
      /\ env # "none" /\ detached' # {} /\ detached \subseteq detached'
  BY DEF DeleteAliases, DeleteIndex, docVars, DetachInv, UsedInv
<1>2. TypeOK'
  <2>1. CASE DeleteAliases
    <3>1. /\ search' = search \ deletion.index /\ write' = write \ deletion.index
          /\ detached' = detached \cup deletion.index
          /\ deletion'.pc = "dropping" /\ deletion'.index = deletion.index
          /\ UNCHANGED <<dropped, docs>>
      BY <2>1 DEF DeleteAliases, Deletion, docVars
    <3> QED
      BY <1>1, <3>1 DEF TypeOK
  <2>2. CASE DeleteIndex
    <3>1. /\ dropped' = dropped \cup deletion.index /\ write' = write \ deletion.index
          /\ docs' = [i \in Indices |-> IF i \in deletion.index THEN {} ELSE docs[i]]
          /\ deletion'.pc = "committing" /\ deletion'.index = {}
          /\ deletion.index \subseteq detached /\ UNCHANGED <<search, detached>>
      BY <2>2 DEF DeleteIndex, Deletion, UsedInv
    <3>2. docs' \in [Indices -> SUBSET Events]
      BY <3>1 DEF TypeOK
    <3> QED
      BY <1>1, <3>1, <3>2 DEF TypeOK
  <2> QED
    BY <2>1, <2>2
<1>3. UsedInv'
  <2>1. deletion'.pc = "dropping" => deletion'.index \subseteq detached'
    BY DEF DeleteAliases, DeleteIndex, Deletion
  <2> QED
    BY <1>1, <2>1 DEF UsedInv
<1>4. DetachInv' /\ EventInv'
  <2>1. deletion'.pc \in {"dropping", "committing"}
    BY DEF DeleteAliases, DeleteIndex, Deletion
  <2> QED
    BY <1>1, <2>1 DEF DetachInv, EventInv
<1>5. SearchInv' /\ SavedIsSearchable' /\ CalmInv'
  BY <1>1 DEF SearchInv, SavedIsSearchable, CalmInv
<1> QED
  BY <1>2, <1>3, <1>4, <1>5

-----------------------------------------------------------------------------
(* The theorems *)

LEMMA StutterInv == Inv /\ UNCHANGED vars => Inv'
  BY DEF Inv, TypeOK, UsedInv, DetachInv, EventInv, SearchInv, SavedIsSearchable, UnderSearchAlias, CalmInv,
         CalmWrite, CalmJobs, CalmSwaps, CalmEvents, Exists, Rotators, vars, esVars, docVars

LEMMA Invariance == Spec => []Inv
<1>1. Inv /\ [Next]_vars => Inv'
  <2> SUFFICES ASSUME Inv, Next
               PROVE  Inv'
    BY StutterInv
  <2>1. CASE CreateNext
    BY <2>1, CreateEnvironmentIndexInv, CreateEnvironmentRowInv DEF CreateNext
  <2>2. CASE RotatorNext
    BY <2>2, StartRotationInv, StartVerifyInv, ReadWriteAliasesInv, CheckInv, RepairInv,
       CreateIndexInv, HandlerFailInv, SwapAliasesInv, SwapFailInv DEF RotatorNext, WorkerStep
  <2>3. CASE SaverNext
    BY <2>3, SubmitInv, SaveEventInv, SaveRefusedInv, SaveFailInv, GiveUpInv DEF SaverNext
  <2>4. CASE DeletionNext
    BY <2>4, DeletionRowsInv, DeleteIndexInv DEF DeletionNext, DeletionStep
  <2> QED
    BY <2>1, <2>2, <2>3, <2>4 DEF Next
<1> QED
  BY <1>1, InitInv, PTL DEF Spec

\* Every variable has the values it is meant to have; no deleted index is under
\* an alias, and none whose aliases were removed under the search alias.
THEOREM AliasTypes == Spec => []TypeOK
<1>1. Inv => TypeOK
  BY DEF Inv
<1> QED
  BY <1>1, Invariance, PTL

\* However many rotations and repairs there are, the write alias names one index
\* as long as nothing fails, no two rotations overlap and nothing is deleted.
THEOREM OneWrite == Spec => []OneWriteIndex
<1>1. Inv => OneWriteIndex
  BY Singles DEF Inv, CalmInv, CalmWrite, OneWriteIndex
<1> QED
  BY <1>1, Invariance, PTL

\* Whatever fails or overlaps, nothing is written where searches do not look.
THEOREM WritesAreSearched == Spec => []WriteIsSearched
<1>1. Inv => WriteIsSearched
  BY DEF Inv, SearchInv, WriteIsSearched
<1> QED
  BY <1>1, Invariance, PTL

\* Whatever fails or overlaps, a saved event stays under the search alias, which
\* viewers, ad-hoc and active searches read, strayed, or went with a deletion.
\* (GraphQL, counts and exports read the write alias: GraphqlFindsSaved fails.)
THEOREM SavedIsFound == Spec => []SavedIsSearchable
<1>1. Inv => SavedIsSearchable
  BY DEF Inv
<1> QED
  BY <1>1, Invariance, PTL

\* For any number of events, none is lost to the aliases without a cause.
THEOREM NothingIsLost == Spec => []NoLossWithoutCause
<1>1. Inv => NoLossWithoutCause
  BY DEF Inv, CalmInv, CalmEvents, NoLossWithoutCause
<1> QED
  BY <1>1, Invariance, PTL

=============================================================================
