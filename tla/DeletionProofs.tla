---------------------------- MODULE DeletionProofs -----------------------------
(***************************************************************************)
(* Proofs about deletion requests, for any users, requests and faults.     *)
(***************************************************************************)
EXTENDS EnvironmentDeletion, TLAPS

\* A request that is being created is its creator's own and does not show yet.
CreatingInv ==
    \A u \in Users : creating[u].pc = "inserting" =>
        /\ creating[u].request \in Requests
        /\ age[creating[u].request] = "none"
        /\ creating[u].inserted \subseteq asked[creating[u].request]
        /\ \A v \in Users \ {u} : creating[v].request # creating[u].request

\* One that is about to be deleted was over a month old when it was read.
PurgingInv ==
    \A u \in Users :
        /\ creating[u].pc = "purging" =>
              creating[u].request \in Requests /\ age[creating[u].request] \in {"expired", "deleted"}
        /\ deleting[u].pc = "purging" =>
              deleting[u].request \in Requests /\ age[deleting[u].request] \in {"expired", "deleted"}

AsksInv ==
    \A r \in Rows : \A v : v \in asked[r] <=> \E c \in confirmations : c.request = r /\ c.user = v

Inv == TypeOK /\ CreatingInv /\ PurgingInv /\ AsksInv

USE DEF Ages, CreateSteps, DeleteSteps, Callable

LEMMA InitInv == Init => Inv
<1> SUFFICES ASSUME Init
             PROVE  Inv
  OBVIOUS
<1> USE DEF Init
<1>1. TypeOK
  <2>1. NotCreating \in [pc : CreateSteps, request : Requests \cup {NoRequest}, inserted : SUBSET Users]
    <3>1. {} \in SUBSET Users
      OBVIOUS
    <3> QED
      BY <3>1 DEF NotCreating
  <2>2. NotDeleting \in [pc : DeleteSteps, request : Requests \cup {NoRequest}]
    BY DEF NotDeleting
  <2>3. /\ creating \in [Users -> [pc : CreateSteps, request : Requests \cup {NoRequest},
                                   inserted : SUBSET Users]]
        /\ deleting \in [Users -> [pc : DeleteSteps, request : Requests \cup {NoRequest}]]
    BY <2>1, <2>2
  <2>4. asked \in [Requests -> SUBSET Users] /\ team \subseteq Users
    OBVIOUS
  <2>5. faults \in 0..MaxFaults
    BY DeletionAssumption
  <2> QED
    BY <2>3, <2>4, <2>5 DEF TypeOK
<1>2. CreatingInv /\ PurgingInv
  BY DEF CreatingInv, PurgingInv, NotCreating, NotDeleting
<1>3. AsksInv
  BY DEF AsksInv, Rows
<1> QED
  BY <1>1, <1>2, <1>3 DEF Inv

\* Records of confirmations, and what Faults count.
LEMMA Typed ==
    ASSUME TypeOK
    PROVE  /\ \A c \in confirmations :
                 c.request \in Requests /\ c.user \in Users /\ c.request \in Rows
           /\ faults \in 0..MaxFaults
           /\ Fault => faults' \in 0..MaxFaults
<1>1. ASSUME NEW c \in confirmations
      PROVE  c.request \in Requests /\ c.user \in Users /\ c.request \in Rows
  <2>1. c \in [request : Requests, user : Users, received : BOOLEAN]
    BY DEF TypeOK
  <2> QED
    BY <2>1 DEF TypeOK, Rows
<1>2. faults \in 0..MaxFaults /\ (Fault => faults' \in 0..MaxFaults)
  BY DeletionAssumption DEF TypeOK, Fault
<1> QED
  BY <1>1, <1>2

\* What CreateGoto and DeleteGoto do, for one user and the others.
LEMMA CreateGotoOne ==
    ASSUME TypeOK, NEW u \in Users, NEW step \in CreateSteps, NEW r \in Requests \cup {NoRequest},
           CreateGoto(u, step, r)
    PROVE  /\ creating' \in [Users -> [pc : CreateSteps, request : Requests \cup {NoRequest},
                                       inserted : SUBSET Users]]
           /\ creating'[u] = [pc |-> step, request |-> r, inserted |-> {}]
           /\ creating'[u].pc = step /\ creating'[u].request = r /\ creating'[u].inserted = {}
           /\ \A v \in Users \ {u} : creating'[v] = creating[v]
<1> DEFINE call == [pc |-> step, request |-> r, inserted |-> {}]
<1>1. call \in [pc : CreateSteps, request : Requests \cup {NoRequest}, inserted : SUBSET Users]
  <2>1. {} \in SUBSET Users
    OBVIOUS
  <2> QED
    BY <2>1
<1>2. creating' = [creating EXCEPT ![u] = call]
  BY DEF CreateGoto
<1>3. call.pc = step /\ call.request = r /\ call.inserted = {}
  OBVIOUS
<1> HIDE DEF call
<1>4. /\ creating' \in [Users -> [pc : CreateSteps, request : Requests \cup {NoRequest},
                                  inserted : SUBSET Users]]
      /\ creating'[u] = call
      /\ \A v \in Users \ {u} : creating'[v] = creating[v]
  BY <1>1, <1>2 DEF TypeOK
<1> QED
  BY <1>3, <1>4 DEF call

LEMMA DeleteGotoOne ==
    ASSUME TypeOK, NEW u \in Users, NEW step \in DeleteSteps, NEW r \in Requests \cup {NoRequest},
           DeleteGoto(u, step, r)
    PROVE  /\ deleting' \in [Users -> [pc : DeleteSteps, request : Requests \cup {NoRequest}]]
           /\ deleting'[u].pc = step /\ deleting'[u].request = r
           /\ \A v \in Users \ {u} : deleting'[v] = deleting[v]
  BY DEF TypeOK, DeleteGoto

-----------------------------------------------------------------------------
(* Steps that leave the rows alone *)

\* A creator who is not inserting, or gives up.
LEMMA CreateStepInv ==
    ASSUME Inv, NEW u \in Users, NEW step \in {"idle", "listing", "purging"},
           NEW r \in Requests \cup {NoRequest}, CreateGoto(u, step, r),
           step = "purging" => r \in Requests /\ age[r] = "expired",
           step # "purging" => r = NoRequest,
           faults' \in 0..MaxFaults,
           UNCHANGED <<team, environmentVars, age, asked, confirmations, deleting>>
    PROVE  Inv'
<1> USE DEF Inv
<1>0. step \in CreateSteps /\ TypeOK
  OBVIOUS
<1>1. /\ creating' \in [Users -> [pc : CreateSteps, request : Requests \cup {NoRequest},
                                  inserted : SUBSET Users]]
      /\ creating'[u].pc = step /\ creating'[u].request = r /\ creating'[u].inserted = {}
      /\ \A v \in Users \ {u} : creating'[v] = creating[v]
  <2> HIDE DEF Inv, CreateSteps
  <2> QED
    BY ONLY <1>0, CreateGoto(u, step, r), CreateGotoOne
<1>2. UNCHANGED <<team, environment, populated, age, asked, confirmations, deleting>>
  BY DEF environmentVars
<1>3. TypeOK'
  BY <1>1, <1>2 DEF TypeOK
<1>4. CreatingInv'
  <2>1. \A v \in Users \ {u} : creating[v].pc = "inserting" => creating[v].request # r
    BY DeletionAssumption DEF CreatingInv
  <2> QED
    BY <1>1, <1>2, <2>1 DEF CreatingInv
<1>5. PurgingInv'
  BY <1>1, <1>2 DEF PurgingInv
<1>6. AsksInv'
  BY <1>2 DEF AsksInv, Rows
<1> QED
  BY <1>3, <1>4, <1>5, <1>6

LEMMA CheckExtantInv ==
    ASSUME Inv, NEW u \in Users, CheckExtant(u)
    PROVE  Inv'
<1>1. CASE CreateGoto(u, "listing", NoRequest)
  BY <1>1, Typed, CreateStepInv DEF CheckExtant, Inv
<1>2. CASE \E r \in Rows : age[r] = "expired" /\ CreateGoto(u, "purging", r)
  BY <1>2, Typed, CreateStepInv DEF CheckExtant, Inv, Rows
<1> QED
  BY <1>1, <1>2 DEF CheckExtant

LEMMA CreateFailInv ==
    ASSUME Inv, NEW u \in Users, CreateFail(u)
    PROVE  Inv'
  BY Typed, CreateStepInv DEF CreateFail, Inv

LEMMA ListTeamInv ==
    ASSUME Inv, NEW u \in Users, ListTeam(u)
    PROVE  Inv'
<1> USE DEF Inv
<1>1. CASE CreateGoto(u, "idle", NoRequest) /\ UNCHANGED asked
  BY <1>1, Typed, CreateStepInv DEF ListTeam
<1>2. ASSUME NEW r \in Requests, age[r] = "none", \A v \in Users : creating[v].request # r,
             asked' = [asked EXCEPT ![r] = team \ {u}], CreateGoto(u, "inserting", r)
      PROVE  Inv'
  <2>1. /\ creating' \in [Users -> [pc : CreateSteps, request : Requests \cup {NoRequest},
                                    inserted : SUBSET Users]]
        /\ creating'[u].pc = "inserting" /\ creating'[u].request = r /\ creating'[u].inserted = {}
        /\ \A v \in Users \ {u} : creating'[v] = creating[v]
    BY <1>2, CreateGotoOne
  <2>2. UNCHANGED <<team, environment, populated, age, confirmations, deleting, faults>>
    BY DEF ListTeam, environmentVars
  <2>3. /\ asked' \in [Requests -> SUBSET Users]
        /\ \A x \in Requests \ {r} : asked'[x] = asked[x]
    BY <1>2 DEF TypeOK
  <2>4. TypeOK'
    BY <2>1, <2>2, <2>3 DEF TypeOK
  <2>5. CreatingInv'
    BY <1>2, <2>1, <2>2, <2>3 DEF CreatingInv
  <2>6. PurgingInv'
    BY <2>1, <2>2 DEF PurgingInv
  <2>7. AsksInv'
    BY <1>2, <2>2, <2>3 DEF AsksInv, Rows
  <2> QED
    BY <2>4, <2>5, <2>6, <2>7
<1> QED
  BY <1>1, <1>2 DEF ListTeam

LEMMA InsertConfirmationInv ==
    ASSUME Inv, NEW u \in Users, NEW v \in Users, InsertConfirmation(u, v)
    PROVE  Inv'
<1> USE DEF Inv
<1>1. /\ creating[u].pc = "inserting" /\ v \in asked[creating[u].request]
      /\ creating' = [creating EXCEPT ![u].inserted = @ \cup {v}]
      /\ UNCHANGED <<team, environment, populated, age, asked, confirmations, deleting, faults>>
  BY DEF InsertConfirmation, environmentVars
<1>2. /\ creating' \in [Users -> [pc : CreateSteps, request : Requests \cup {NoRequest},
                                  inserted : SUBSET Users]]
      /\ creating'[u].inserted = creating[u].inserted \cup {v}
      /\ \A x \in Users : /\ creating'[x].pc = creating[x].pc
                          /\ creating'[x].request = creating[x].request
                          /\ x # u => creating'[x] = creating[x]
  BY <1>1 DEF TypeOK
<1>3. TypeOK'
  BY <1>1, <1>2 DEF TypeOK
<1>4. CreatingInv'
  <2>1. CreatingInv
    OBVIOUS
  <2> QED
    BY <1>1, <1>2, <2>1 DEF CreatingInv
<1>5. PurgingInv'
  BY <1>1, <1>2 DEF PurgingInv
<1>6. AsksInv'
  BY <1>1 DEF AsksInv, Rows
<1> QED
  BY <1>3, <1>4, <1>5, <1>6

\* A step of a deletion that leaves the requests alone.
LEMMA DeleteStepInv ==
    ASSUME Inv, NEW u \in Users, NEW step \in DeleteSteps, NEW r \in Requests \cup {NoRequest},
           DeleteGoto(u, step, r),
           step = "purging" => r \in Requests /\ age[r] = "expired",
           environment' \in {"present", "deleted"}, populated' \in BOOLEAN,
           faults' \in 0..MaxFaults,
           UNCHANGED <<team, requestVars>>
    PROVE  Inv'
<1> USE DEF Inv
<1>1. /\ deleting' \in [Users -> [pc : DeleteSteps, request : Requests \cup {NoRequest}]]
      /\ deleting'[u].pc = step /\ deleting'[u].request = r
      /\ \A v \in Users \ {u} : deleting'[v] = deleting[v]
  BY DeleteGotoOne
<1>2. UNCHANGED <<team, age, asked, confirmations, creating>>
  BY DEF requestVars
<1>3. TypeOK'
  BY <1>1, <1>2 DEF TypeOK
<1>4. CreatingInv' /\ AsksInv'
  BY <1>2 DEF CreatingInv, AsksInv, Rows
<1>5. PurgingInv'
  BY <1>1, <1>2 DEF PurgingInv
<1> QED
  BY <1>3, <1>4, <1>5

LEMMA DeleteCallInv ==
    ASSUME Inv, NEW u \in Users, CheckEmpty(u) \/ FetchRequest(u) \/ Delete(u) \/ DeleteFail(u)
    PROVE  Inv'
<1> USE DEF Inv
<1>1. environment \in {"present", "deleted"} /\ populated \in BOOLEAN
  BY DEF TypeOK
<1>2. CASE CheckEmpty(u)
  <2>1. \E step \in {"fetching", "deleting"} : DeleteGoto(u, step, NoRequest)
    BY <1>2 DEF CheckEmpty
  <2> QED
    BY <1>1, <1>2, <2>1, Typed, DeleteStepInv DEF CheckEmpty, environmentVars
<1>3. CASE FetchRequest(u)
  <2>1. UNCHANGED <<team, environment, populated, requestVars, faults>>
    BY <1>3 DEF FetchRequest, environmentVars
  <2>2. CASE DeleteGoto(u, "unrequested", NoRequest)
    BY <1>1, <2>1, <2>2, Typed, DeleteStepInv
  <2>3. CASE \E r \in Rows :
                DeleteGoto(u, IF age[r] = "expired" THEN "purging" ELSE "backoff", r)
    <3> PICK r \in Rows : DeleteGoto(u, IF age[r] = "expired" THEN "purging" ELSE "backoff", r)
      BY <2>3
    <3>1. r \in Requests
      BY DEF Rows
    <3>2. CASE age[r] = "expired"
      BY <1>1, <2>1, <3>1, <3>2, Typed, DeleteStepInv
    <3>3. CASE age[r] # "expired"
      BY <1>1, <2>1, <3>1, <3>3, Typed, DeleteStepInv
    <3> QED
      BY <3>2, <3>3
  <2> QED
    BY <1>3, <2>2, <2>3 DEF FetchRequest
<1>4. CASE Delete(u)
  BY <1>1, <1>4, Typed, DeleteStepInv DEF Delete
<1>5. CASE DeleteFail(u)
  BY <1>1, <1>5, Typed, DeleteStepInv DEF DeleteFail, environmentVars
<1> QED
  BY <1>2, <1>3, <1>4, <1>5

\* The team and the index change.
LEMMA AroundInv ==
    ASSUME Inv, IndexEvent \/ \E u \in Users : Join(u) \/ Leave(u)
    PROVE  Inv'
<1> USE DEF Inv
<1>1. /\ team' \subseteq Users /\ environment' = environment /\ populated' \in BOOLEAN
      /\ UNCHANGED <<age, asked, confirmations, creating, deleting, faults>>
  BY DEF IndexEvent, Join, Leave, environmentVars, requestVars, TypeOK
<1>2. TypeOK'
  BY <1>1 DEF TypeOK
<1>3. CreatingInv' /\ PurgingInv' /\ AsksInv'
  BY <1>1 DEF CreatingInv, PurgingInv, AsksInv, Rows
<1> QED
  BY <1>2, <1>3

-----------------------------------------------------------------------------
(* Steps that change rows *)

\* A request that is over a month old goes, with its confirmations.
LEMMA DeleteRequestInv ==
    ASSUME Inv, NEW r \in Requests, age[r] \in {"expired", "deleted"}, DeleteRequest(r)
    PROVE  /\ age' \in [Requests -> Ages]
           /\ confirmations' \subseteq [request : Requests, user : Users, received : BOOLEAN]
           /\ \A c \in confirmations' : age'[c.request] \in {"backoff", "ripe", "expired"}
           /\ age'[r] = "deleted" /\ \A x \in Requests \ {r} : age'[x] = age[x]
           /\ UNCHANGED asked => AsksInv'
<1> USE DEF Inv
<1>1. age' = [age EXCEPT ![r] = "deleted"] /\ confirmations' = {c \in confirmations : c.request # r}
  BY DEF DeleteRequest
<1>2. /\ age' \in [Requests -> Ages]
      /\ age'[r] = "deleted" /\ \A x \in Requests \ {r} : age'[x] = age[x]
  BY <1>1 DEF TypeOK
<1>3. /\ confirmations' \subseteq [request : Requests, user : Users, received : BOOLEAN]
      /\ \A c \in confirmations' : age'[c.request] \in {"backoff", "ripe", "expired"}
  BY <1>1, <1>2, Typed DEF TypeOK
<1>4. ASSUME UNCHANGED asked
      PROVE  AsksInv'
  <2>1. \A x \in Rows' : x \in Rows /\ x # r
    BY <1>2 DEF Rows
  <2> QED
    BY <1>1, <1>4, <2>1 DEF AsksInv
<1> QED
  BY <1>2, <1>3, <1>4

LEMMA PurgeExtantInv ==
    ASSUME Inv, NEW u \in Users, PurgeExtant(u)
    PROVE  Inv'
<1> DEFINE r == creating[u].request
<1> USE DEF Inv
<1>1. /\ creating[u].pc = "purging" /\ DeleteRequest(r) /\ CreateGoto(u, "listing", NoRequest)
      /\ UNCHANGED <<team, environment, populated, asked, deleting, faults>>
  BY DEF PurgeExtant, environmentVars
<1>2. r \in Requests /\ age[r] \in {"expired", "deleted"}
  BY <1>1 DEF PurgingInv
<1> HIDE DEF r
<1>3. /\ creating' \in [Users -> [pc : CreateSteps, request : Requests \cup {NoRequest},
                                  inserted : SUBSET Users]]
      /\ creating'[u].pc = "listing" /\ creating'[u].request = NoRequest
      /\ \A v \in Users \ {u} : creating'[v] = creating[v]
  BY <1>1, CreateGotoOne
<1>4. /\ age'[r] = "deleted" /\ \A x \in Requests \ {r} : age'[x] = age[x]
  BY <1>1, <1>2, DeleteRequestInv
<1>5. TypeOK' /\ AsksInv'
  BY <1>1, <1>2, <1>3, DeleteRequestInv DEF TypeOK
<1>6. CreatingInv'
  BY <1>1, <1>2, <1>3, <1>4, DeletionAssumption DEF CreatingInv
<1>7. PurgingInv'
  BY <1>1, <1>3, <1>4 DEF PurgingInv
<1> QED
  BY <1>5, <1>6, <1>7

LEMMA PurgeExpiredInv ==
    ASSUME Inv, NEW u \in Users, PurgeExpired(u)
    PROVE  Inv'
<1> DEFINE r == deleting[u].request
<1> USE DEF Inv
<1>1. /\ deleting[u].pc = "purging" /\ DeleteRequest(r) /\ DeleteGoto(u, "expired", NoRequest)
      /\ UNCHANGED <<team, environment, populated, asked, creating, faults>>
  BY DEF PurgeExpired, environmentVars
<1>2. r \in Requests /\ age[r] \in {"expired", "deleted"}
  BY <1>1 DEF PurgingInv
<1> HIDE DEF r
<1>3. /\ deleting' \in [Users -> [pc : DeleteSteps, request : Requests \cup {NoRequest}]]
      /\ deleting'[u].pc = "expired"
      /\ \A v \in Users \ {u} : deleting'[v] = deleting[v]
  BY <1>1, DeleteGotoOne
<1>4. /\ age'[r] = "deleted" /\ \A x \in Requests \ {r} : age'[x] = age[x]
  BY <1>1, <1>2, DeleteRequestInv
<1>5. TypeOK' /\ AsksInv'
  BY <1>1, <1>2, <1>3, DeleteRequestInv DEF TypeOK
<1>6. CreatingInv'
  BY <1>1, <1>2, <1>4 DEF CreatingInv
<1>7. PurgingInv'
  BY <1>1, <1>3, <1>4 DEF PurgingInv
<1> QED
  BY <1>5, <1>6, <1>7

\* The request and its confirmations show together.
LEMMA CommitRequestInv ==
    ASSUME Inv, NEW u \in Users, CommitRequest(u)
    PROVE  Inv'
<1> DEFINE r == creating[u].request
           new == [request : {r}, user : asked[r], received : {FALSE}]
<1> USE DEF Inv
<1>1. /\ creating[u].pc = "inserting" /\ creating[u].inserted = asked[r]
      /\ age' = [age EXCEPT ![r] = "backoff"]
      /\ confirmations' = confirmations \cup new
      /\ CreateGoto(u, "idle", NoRequest)
      /\ UNCHANGED <<team, environment, populated, asked, deleting, faults>>
  BY DEF CommitRequest, environmentVars
<1>2. /\ r \in Requests /\ age[r] = "none" /\ asked[r] \subseteq Users
      /\ \A v \in Users \ {u} : creating[v].request # r
  BY <1>1 DEF CreatingInv, TypeOK
<1>3. /\ \A c \in new : c.request = r /\ c.user \in asked[r] /\ c.received = FALSE
      /\ \A v \in asked[r] : \E c \in new : c.user = v
      /\ new \subseteq [request : Requests, user : Users, received : BOOLEAN]
  <2>1. \A v \in asked[r] : [request |-> r, user |-> v, received |-> FALSE] \in new
    OBVIOUS
  <2> QED
    BY <1>2, <2>1
<1> HIDE DEF r, new
<1>4. /\ creating' \in [Users -> [pc : CreateSteps, request : Requests \cup {NoRequest},
                                  inserted : SUBSET Users]]
      /\ creating'[u].pc = "idle" /\ creating'[u].request = NoRequest
      /\ \A v \in Users \ {u} : creating'[v] = creating[v]
  BY <1>1, CreateGotoOne
<1>5. /\ age' \in [Requests -> Ages] /\ age'[r] = "backoff"
      /\ \A x \in Requests \ {r} : age'[x] = age[x]
  BY <1>1, <1>2 DEF TypeOK
<1>6. \A c \in confirmations : c.request # r
  BY <1>2, Typed DEF Rows
<1>7. TypeOK'
  <2>1. \A c \in confirmations' : age'[c.request] \in {"backoff", "ripe", "expired"}
    BY <1>1, <1>3, <1>5, <1>6, Typed DEF TypeOK
  <2> QED
    BY <1>1, <1>3, <1>4, <1>5, <2>1 DEF TypeOK
<1>8. CreatingInv'
  BY <1>1, <1>2, <1>4, <1>5, DeletionAssumption DEF CreatingInv
<1>9. PurgingInv'
  BY <1>1, <1>2, <1>4, <1>5 DEF PurgingInv
<1>10. AsksInv'
  <2> SUFFICES ASSUME NEW x \in Rows', NEW v
               PROVE  v \in asked[x] <=> \E c \in confirmations' : c.request = x /\ c.user = v
    BY <1>1 DEF AsksInv
  <2>1. CASE x = r
    BY <2>1, <1>1, <1>3, <1>6
  <2>2. CASE x # r
    <3>1. x \in Rows
      BY <2>2, <1>5 DEF Rows
    <3> QED
      BY <2>2, <3>1, <1>1, <1>3 DEF AsksInv
  <2> QED
    BY <2>1, <2>2
<1> QED
  BY <1>7, <1>8, <1>9, <1>10

\* A confirmation is received.
LEMMA ApproveInv ==
    ASSUME Inv, NEW u \in Users, NEW c \in confirmations, Approve(u, c)
    PROVE  Inv'
<1> DEFINE d == [c EXCEPT !.received = TRUE]
<1> USE DEF Inv
<1>1. /\ confirmations' = (confirmations \ {c}) \cup {d}
      /\ UNCHANGED <<team, environment, populated, age, asked, creating, deleting, faults>>
  BY DEF Approve, environmentVars
<1>2. c \in [request : Requests, user : Users, received : BOOLEAN]
  BY DEF TypeOK
<1>3. /\ d \in [request : Requests, user : Users, received : BOOLEAN]
      /\ d.request = c.request /\ d.user = c.user
  BY <1>2
<1> HIDE DEF d
<1>4. TypeOK'
  BY <1>1, <1>3 DEF TypeOK
<1>5. CreatingInv' /\ PurgingInv'
  BY <1>1 DEF CreatingInv, PurgingInv
<1>6. AsksInv'
  <2>1. \A x, v : (\E b \in confirmations' : b.request = x /\ b.user = v)
                  <=> \E b \in confirmations : b.request = x /\ b.user = v
    BY <1>1, <1>3
  <2> QED
    BY <1>1, <2>1 DEF AsksInv, Rows
<1> QED
  BY <1>4, <1>5, <1>6

LEMMA AgeInv ==
    ASSUME Inv, NEW r \in Requests, Age(r)
    PROVE  Inv'
<1> USE DEF Inv
<1>1. /\ age[r] \in {"backoff", "ripe"}
      /\ age' = [age EXCEPT ![r] = IF @ = "backoff" THEN "ripe" ELSE "expired"]
      /\ UNCHANGED <<team, environment, populated, asked, confirmations, creating, deleting,
                     faults>>
  BY DEF Age, environmentVars
<1>2. /\ age' \in [Requests -> Ages] /\ age'[r] \in {"ripe", "expired"}
      /\ \A x \in Requests \ {r} : age'[x] = age[x]
  BY <1>1 DEF TypeOK
<1>3. TypeOK'
  BY <1>1, <1>2, Typed DEF TypeOK
<1>4. CreatingInv' /\ PurgingInv'
  BY <1>1, <1>2 DEF CreatingInv, PurgingInv
<1>5. AsksInv'
  BY <1>1, <1>2 DEF AsksInv, Rows
<1> QED
  BY <1>3, <1>4, <1>5

-----------------------------------------------------------------------------
(* The theorems *)

LEMMA Step == Inv /\ [Next]_vars => Inv'
<1>1. Inv /\ UNCHANGED vars => Inv'
  BY DEF Inv, TypeOK, CreatingInv, PurgingInv, AsksInv, Rows, vars, environmentVars, requestVars
<1>2. Inv /\ Next => Inv'
  BY CheckExtantInv, PurgeExtantInv, ListTeamInv, InsertConfirmationInv, CommitRequestInv,
     CreateFailInv, DeleteCallInv, PurgeExpiredInv, AroundInv, ApproveInv, AgeInv DEF Next
<1> QED
  BY <1>1, <1>2

LEMMA Invariance == Spec => []Inv
  BY InitInv, Step, PTL DEF Spec

\* Every variable has the values it is meant to have, and a confirmation is of a
\* request that shows.
THEOREM DeletionTypes == Spec => []TypeOK
<1>1. Inv => TypeOK
  BY DEF Inv
<1> QED
  BY <1>1, Invariance, PTL

\* For any team and any number of calls at once, a request that shows has a
\* confirmation of everyone its creator was to ask, and of nobody else.
THEOREM RequestsAskTheTeam == Spec => []RequestAsksTeam
<1>1. Inv => RequestAsksTeam
  BY DEF Inv, AsksInv, RequestAsksTeam
<1> QED
  BY <1>1, Invariance, PTL

\* No step of any call deletes a request that is not over a month old.
THEOREM YoungRequestsStay == Spec => OnlyExpiredRequestsGo
<1> DEFINE Kept == \A r \in Requests : age[r] \in {"backoff", "ripe"} => age'[r] # "deleted"
<1>1. ASSUME Inv, Next
      PROVE  Kept
  <2>1. ASSUME NEW r \in Requests, age[r] \in {"expired", "deleted"}, DeleteRequest(r)
        PROVE  Kept
    BY <1>1, <2>1, DeleteRequestInv
  <2>2. ASSUME NEW u \in Users, PurgeExtant(u)
        PROVE  Kept
    BY <1>1, <2>1, <2>2 DEF Inv, PurgingInv, PurgeExtant
  <2>3. ASSUME NEW u \in Users, PurgeExpired(u)
        PROVE  Kept
    BY <1>1, <2>1, <2>3 DEF Inv, PurgingInv, PurgeExpired
  <2>4. ASSUME NEW u \in Users, CommitRequest(u)
        PROVE  Kept
    BY <1>1, <2>4 DEF Inv, TypeOK, CommitRequest
  <2>5. ASSUME NEW r \in Requests, Age(r)
        PROVE  Kept
    BY <1>1, <2>5 DEF Inv, TypeOK, Age
  <2>6. ASSUME UNCHANGED age
        PROVE  Kept
    BY <2>6
  <2> QED
    BY <1>1, <2>2, <2>3, <2>4, <2>5, <2>6
    DEF Next, CheckExtant, ListTeam, CreateFail, CheckEmpty, FetchRequest, Delete, DeleteFail,
        Join, Leave, InsertConfirmation, Approve, IndexEvent, requestVars
<1>2. UNCHANGED vars => Kept
  BY DEF vars, requestVars
<1>3. Inv /\ [Next]_vars => [Kept]_vars
  BY <1>1, <1>2
<1> QED
  BY <1>3, Invariance, PTL DEF Spec, OnlyExpiredRequestsGo

=============================================================================
