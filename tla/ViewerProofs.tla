----------------------------- MODULE ViewerProofs -----------------------------
(***************************************************************************)
(* Proofs about the sessions of the viewer, for any descriptors, calls,    *)
(* processes and clocks.                                                   *)
(***************************************************************************)
EXTENDS ViewerSessions, TLAPS

ActiveCalls == {c \in Calls : calls[c] # NoCall}

DescriptorInv ==
    \A d \in Descriptors :
        /\ drawn[d] = Unborn => d \notin revoked
        /\ d \in vouchers => drawn[d] # Unborn

\* Whatever a call is at, it began within its session.
SessionInv ==
    \A c \in ActiveCalls :
        /\ ~ calls[c].late
        /\ drawn[calls[c].desc] # Unborn
        /\ \E a, b \in Leads :
               calls[c].at - drawn[calls[c].desc].at < Lifetime + a - b

Ever == tokens \cup dropped \cup withdrawn

\* What a call has done with its token.
TokenInv ==
    \A c \in ActiveCalls : calls[c].pc # "checked" =>
        /\ calls[c].kind \in {"createToken", "updateToken"} =>
              calls[c].did /\ Own(c) \in Ever
        /\ calls[c].kind = "deleteToken" => Own(c) \notin tokens

LogInv == \A c \in logged : calls[c] # NoCall /\ calls[c].pc = "answered"

Inv ==
    /\ TypeOK /\ DescriptorInv /\ UsableUntilExpired /\ SessionInv
    /\ TokenInv /\ LogInv /\ AnsweredIsLogged /\ DeletionsLeaveATrace

USE DEF Lifetime, PruneAfter, Views, Changes, Kinds

\* Times and leads are numbers.
LEMMA Numbers ==
    ASSUME TypeOK
    PROVE  /\ now \in Int
           /\ \A p \in Processes \cup {Processor} : lead[p] \in Leads /\ lead[p] \in Int
           /\ \A d \in Descriptors : drawn[d] # Unborn =>
                 /\ drawn[d].at \in Times /\ drawn[d].at \in Int
                 /\ drawn[d].by \in Processes
                 /\ Stamp(d) \in Int
           /\ \A p \in Processes \cup {Processor} : Clock(p) \in Int
<1>1. Times \subseteq Int /\ Leads \subseteq Int
  BY ViewerAssumption
<1>2. \A p \in Processes \cup {Processor} : lead[p] \in Leads /\ lead[p] \in Int
  BY <1>1 DEF TypeOK
<1>3. now \in Int
  BY <1>1 DEF TypeOK
<1>4. ASSUME NEW d \in Descriptors, drawn[d] # Unborn
      PROVE  /\ drawn[d].at \in Times /\ drawn[d].at \in Int
             /\ drawn[d].by \in Processes
             /\ Stamp(d) \in Int
  <2>1. drawn[d] \in [at : Times, by : Processes, owner : Owners]
    BY <1>4 DEF TypeOK
  <2>2. drawn[d].at \in Times /\ drawn[d].by \in Processes
    BY <2>1
  <2>3. drawn[d].at \in Int /\ lead[drawn[d].by] \in Int
    BY <2>2, <1>1, <1>2
  <2> QED
    BY <2>2, <2>3 DEF Stamp
<1> QED
  BY <1>2, <1>3, <1>4 DEF Clock

\* NoCall is no record of a call, and of its step alone.
LEMMA NoCallDiffers ==
    /\ NoCall.pc = "idle" /\ NoCall.kind = "none"
    /\ \A r \in CallRecords : r # NoCall
  BY DEF NoCall, CallRecords

\* What is known of a call that has begun.
LEMMA Begun ==
    ASSUME TypeOK, NEW c \in Calls, calls[c].pc # "idle" \/ calls[c].kind # "none"
    PROVE  calls[c] \in CallRecords /\ c \in ActiveCalls
<1>1. calls[c] # NoCall
  BY NoCallDiffers
<1> QED
  BY <1>1 DEF TypeOK, ActiveCalls

\* Nothing but the steps of a call changes what is true of its token, and of what it
\* deleted.
LEMMA TokensStay ==
    ASSUME Inv,
           \A c \in ActiveCalls' :
               (c \in ActiveCalls /\ calls'[c] = calls[c]) \/ calls'[c].pc = "checked",
           \A c \in ActiveCalls : calls[c].kind = "deleteToken" =>
               calls'[c] = calls[c] \/ faults' > 0,
           \A d \in Descriptors : drawn[d] # Unborn => drawn'[d] = drawn[d],
           tokens' \subseteq tokens, tokens \subseteq tokens' \cup withdrawn',
           withdrawn \subseteq withdrawn', dropped' = dropped,
           logged \subseteq logged', faults > 0 => faults' > 0
    PROVE  TokenInv' /\ DeletionsLeaveATrace'
<1> USE DEF Inv
<1>1. ASSUME NEW c \in ActiveCalls, calls'[c] = calls[c]
      PROVE  Own(c)' = Own(c)
  <2>1. calls[c].desc \in Descriptors /\ drawn[calls[c].desc] # Unborn
    BY DEF TypeOK, ActiveCalls, CallRecords, SessionInv
  <2> QED
    BY <1>1, <2>1 DEF Own, GroupOf
<1>2. TokenInv'
  <2> SUFFICES ASSUME NEW c \in ActiveCalls', calls'[c].pc # "checked"
               PROVE  /\ calls'[c].kind \in {"createToken", "updateToken"} =>
                            calls'[c].did /\ Own(c)' \in Ever'
                      /\ calls'[c].kind = "deleteToken" => Own(c)' \notin tokens'
    BY DEF TokenInv
  <2>1. c \in ActiveCalls /\ calls'[c] = calls[c] /\ Own(c)' = Own(c)
    BY <1>1
  <2>2. Ever \subseteq Ever'
    BY DEF Ever
  <2> QED
    BY <2>1, <2>2 DEF TokenInv
<1>3. DeletionsLeaveATrace'
  <2> SUFFICES ASSUME NEW a \in dropped, ~ (faults' > 0)
               PROVE  \E c \in Calls :
                         /\ calls'[c].kind = "deleteToken" /\ calls'[c].pc # "checked"
                         /\ Own(c)' = a
                         /\ calls'[c].pc = "answered" => c \in logged'
    BY DEF DeletionsLeaveATrace
  <2>1. PICK c \in Calls :
            /\ calls[c].kind = "deleteToken" /\ calls[c].pc # "checked"
            /\ Own(c) = a
            /\ calls[c].pc = "answered" => c \in logged
    BY DEF DeletionsLeaveATrace
  <2>2. c \in ActiveCalls
    BY <2>1, Begun
  <2>3. calls'[c] = calls[c] /\ Own(c)' = Own(c)
    BY <2>1, <2>2, <1>1
  <2> QED
    BY <2>1, <2>3
<1> QED
  BY <1>2, <1>3

LEMMA InitInv == Init => Inv
<1> SUFFICES ASSUME Init
             PROVE  Inv
  OBVIOUS
<1>1. TypeOK
  <2>1. PICK known \in SUBSET Tokens :
            \E group \in [known -> Groups] : tokens = {<<t, group[t]>> : t \in known}
    BY DEF Init
  <2>2. tokens \subseteq Tokens \X Groups
    BY <2>1
  <2> QED
    BY <2>2, ViewerAssumption DEF Init, TypeOK
<1>2. ActiveCalls = {}
  BY DEF Init, ActiveCalls
<1>3. DescriptorInv /\ UsableUntilExpired
  BY DEF Init, DescriptorInv, UsableUntilExpired
<1>4. SessionInv /\ TokenInv
  BY <1>2 DEF SessionInv, TokenInv
<1>5. LogInv
  BY DEF Init, LogInv
<1>6. AnsweredIsLogged /\ DeletionsLeaveATrace
  BY DEF Init, AnsweredIsLogged, DeletionsLeaveATrace, NoCall
<1> QED
  BY <1>1, <1>3, <1>4, <1>5, <1>6 DEF Inv

-----------------------------------------------------------------------------
(* Time and descriptors *)

LEMMA TimeInv == Inv /\ TimePasses => Inv'
<1> SUFFICES ASSUME Inv, TimePasses
             PROVE  Inv'
  OBVIOUS
<1> USE DEF Inv
<1>1. /\ now' \in Times /\ now' > now
      /\ UNCHANGED <<lead, rows, drawn, revoked, vouchers, calls, tokens, dropped, withdrawn,
                     logged, saving, faults>>
  BY DEF TimePasses, rowVars, tokenVars
<1>2. TypeOK'
  BY <1>1 DEF TypeOK
<1>3. DescriptorInv' /\ SessionInv' /\ LogInv' /\ AnsweredIsLogged'
  BY <1>1 DEF DescriptorInv, SessionInv, LogInv, AnsweredIsLogged, ActiveCalls
<1>5. TokenInv' /\ DeletionsLeaveATrace'
  BY <1>1, TokensStay DEF ActiveCalls
<1>4. UsableUntilExpired'
  <2> SUFFICES ASSUME NEW d \in Descriptors, NEW p \in Processes, drawn[d] # Unborn,
                      d \notin revoked, Fresh(d, p)'
               PROVE  d \in rows
    BY <1>1 DEF UsableUntilExpired
  <2>1. Stamp(d)' = Stamp(d) /\ Clock(p)' = now' + lead[p]
    BY <1>1 DEF Stamp, Clock
  <2>2. Stamp(d) \in Int /\ lead[p] \in Int /\ now \in Int /\ now' \in Int
    BY Numbers, <1>1, ViewerAssumption
  <2>3. Fresh(d, p)
    <3>1. Stamp(d)' > Clock(p)' - Lifetime
      BY DEF Fresh
    <3> QED
      BY <1>1, <2>1, <2>2, <3>1 DEF Fresh, Clock
  <2> QED
    BY <2>3 DEF UsableUntilExpired
<1> QED
  BY <1>2, <1>3, <1>4, <1>5

LEMMA CreateInv ==
    ASSUME Inv, NEW d \in Descriptors, NEW p \in Processes, NEW o \in Owners,
           CreateViewerDescriptor(d, p, o)
    PROVE  Inv'
<1> USE DEF Inv
<1>1. /\ drawn[d] = Unborn
      /\ drawn' = [drawn EXCEPT ![d] = [at |-> now, by |-> p, owner |-> o]]
      /\ rows' = rows \cup {d}
      /\ UNCHANGED <<now, lead, revoked, vouchers, calls, tokens, dropped, withdrawn, logged,
                     saving, faults>>
  BY DEF CreateViewerDescriptor, tokenVars
<1>2. drawn'[d] \in [at : Times, by : Processes, owner : Owners] /\ drawn'[d] # Unborn
  BY <1>1 DEF TypeOK, Unborn
<1>3. \A e \in Descriptors \ {d} : drawn'[e] = drawn[e]
  BY <1>1 DEF TypeOK
<1>4. TypeOK'
  <2>1. drawn' \in [Descriptors -> {Unborn} \cup [at : Times, by : Processes, owner : Owners]]
    BY <1>1, <1>2 DEF TypeOK
  <2>2. rows' \subseteq {e \in Descriptors : drawn'[e] # Unborn}
    BY <1>1, <1>2, <1>3 DEF TypeOK
  <2>3. revoked' \subseteq Descriptors \ rows'
    BY <1>1 DEF TypeOK, DescriptorInv
  <2> QED
    BY <1>1, <2>1, <2>2, <2>3 DEF TypeOK
<1>5. DescriptorInv'
  BY <1>1, <1>2, <1>3 DEF DescriptorInv
<1>6. UsableUntilExpired'
  <2> SUFFICES ASSUME NEW e \in Descriptors, NEW q \in Processes, drawn'[e] # Unborn,
                      e \notin revoked, Fresh(e, q)'
               PROVE  e \in rows'
    BY <1>1 DEF UsableUntilExpired
  <2>1. CASE e = d
    BY <2>1, <1>1
  <2>2. CASE e # d
    <3>1. Fresh(e, q) /\ drawn[e] # Unborn
      BY <1>1, <1>3, <2>2 DEF Fresh, Stamp, Clock
    <3> QED
      BY <3>1, <1>1 DEF UsableUntilExpired
  <2> QED
    BY <2>1, <2>2
<1>7. SessionInv'
  <2> SUFFICES ASSUME NEW c \in ActiveCalls
               PROVE  /\ ~ calls[c].late
                      /\ drawn'[calls[c].desc] # Unborn
                      /\ \E a, b \in Leads :
                             calls[c].at - drawn'[calls[c].desc].at < Lifetime + a - b
    BY <1>1 DEF SessionInv, ActiveCalls
  <2>1. calls[c].desc \in Descriptors \ {d}
    BY <1>1 DEF TypeOK, SessionInv, ActiveCalls, CallRecords
  <2> QED
    BY <2>1, <1>3 DEF SessionInv
<1>8. LogInv' /\ AnsweredIsLogged'
  BY <1>1 DEF LogInv, AnsweredIsLogged
<1>9. TokenInv' /\ DeletionsLeaveATrace'
  BY <1>1, <1>3, TokensStay DEF ActiveCalls
<1> QED
  BY <1>4, <1>5, <1>6, <1>7, <1>8, <1>9

\* Rows are deleted: of what is fresh, only what is revoked.
LEMMA DeleteRowsInv ==
    ASSUME Inv, rows' \subseteq rows, revoked' \subseteq revoked \cup (rows \ rows'),
           revoked \subseteq revoked',
           \A d \in rows \ rows' : d \in revoked' \/ \A p \in Processes : ~ Fresh(d, p),
           UNCHANGED <<now, lead, drawn, vouchers, calls, tokenVars, logged, saving, faults>>
    PROVE  Inv'
<1> USE DEF Inv
<1>1. TypeOK'
  BY DEF TypeOK, tokenVars
<1>2. DescriptorInv'
  BY DEF DescriptorInv, TypeOK
<1>3. UsableUntilExpired'
  <2> SUFFICES ASSUME NEW d \in Descriptors, NEW p \in Processes, drawn[d] # Unborn,
                      d \notin revoked', Fresh(d, p)
               PROVE  d \in rows'
    BY DEF UsableUntilExpired, Fresh, Stamp, Clock
  <2>1. d \in rows
    BY DEF UsableUntilExpired
  <2> QED
    BY <2>1
<1>4. SessionInv' /\ LogInv' /\ AnsweredIsLogged'
  BY DEF SessionInv, LogInv, AnsweredIsLogged, ActiveCalls
<1>5. TokenInv' /\ DeletionsLeaveATrace'
  BY TokensStay DEF ActiveCalls, tokenVars
<1> QED
  BY <1>1, <1>2, <1>3, <1>4, <1>5

LEMMA RevokeInv ==
    ASSUME Inv, NEW o \in Owners, RevokeViewerSessions(o)
    PROVE  Inv'
<1> DEFINE found == {d \in rows : drawn[d].owner = o}
<1>1. /\ rows' = rows \ found /\ revoked' = revoked \cup found /\ found \subseteq rows
      /\ UNCHANGED <<now, lead, drawn, vouchers, calls, tokenVars, logged, saving, faults>>
  BY DEF RevokeViewerSessions
<1> HIDE DEF found
<1>2. rows \ rows' = found
  BY <1>1
<1> QED
  BY <1>1, <1>2, DeleteRowsInv

\* A day is more than five minutes and the difference of two clocks.
LEMMA PruneInv == Inv /\ PruneViewerDescriptors => Inv'
<1> SUFFICES ASSUME Inv, PruneViewerDescriptors
             PROVE  Inv'
  OBVIOUS
<1>1. /\ rows' = {d \in rows : Stamp(d) >= Clock(Processor) - 1440}
      /\ UNCHANGED <<now, lead, drawn, revoked, vouchers, calls, tokenVars, logged, saving,
                     faults>>
  BY DEF PruneViewerDescriptors
<1>2. ASSUME NEW d \in rows \ rows', NEW p \in Processes
      PROVE  ~ Fresh(d, p)
  <2>1. ~ (Stamp(d) >= Clock(Processor) - 1440)
    BY <1>1
  <2>2. d \in Descriptors /\ drawn[d] # Unborn
    BY DEF Inv, TypeOK
  <2>3. Stamp(d) \in Int /\ lead[p] \in Int /\ lead[Processor] \in Int /\ now \in Int
    BY <2>2, Numbers DEF Inv
  <2>4. lead[Processor] - lead[p] < 1435
    BY ViewerAssumption, Numbers DEF Inv
  <2> QED
    BY <2>1, <2>3, <2>4 DEF Fresh, Clock
<1> QED
  BY <1>1, <1>2, DeleteRowsInv

-----------------------------------------------------------------------------
(* Calls *)

\* A call's descriptor was fresh when it was checked.
LEMMA CheckInv ==
    ASSUME Inv, NEW c \in Calls, NEW k \in Kinds, NEW d \in Descriptors, NEW p \in Processes,
           NEW t \in Tokens, CheckViewerAccess(c, k, d, p, t)
    PROVE  Inv'
<1> DEFINE r == [kind |-> k, by |-> p, desc |-> d, token |-> t, skip |-> FALSE, at |-> now,
                 late |-> d \in revoked, did |-> FALSE, pc |-> "checked"]
<1> USE DEF Inv
<1>1. /\ calls[c] = NoCall /\ drawn[d] # Unborn /\ d \in rows /\ Fresh(d, p)
      /\ calls' = [calls EXCEPT ![c] = r]
      /\ UNCHANGED <<now, lead, rows, drawn, revoked, vouchers, tokens, dropped, withdrawn,
                     logged, saving, faults>>
  BY DEF CheckViewerAccess, GetViewerToken, rowVars, tokenVars
<1>2. /\ r \in CallRecords /\ r # NoCall
      /\ r.kind = k /\ r.desc = d /\ r.at = now /\ r.token = t /\ r.pc = "checked"
      /\ r.late = (d \in revoked)
  <2>1. r \in CallRecords
    BY DEF TypeOK, CallRecords
  <2> QED
    BY <2>1, NoCallDiffers
<1> HIDE DEF r
<1>3. calls'[c] = r /\ \A e \in Calls \ {c} : calls'[e] = calls[e]
  BY <1>1 DEF TypeOK
<1>4. calls[c].pc = "idle"
  BY <1>1, NoCallDiffers
<1>5. c \notin saving /\ c \notin logged
  BY <1>1, <1>4 DEF TypeOK, LogInv
<1>6. TypeOK'
  <2>1. calls' \in [Calls -> {NoCall} \cup CallRecords]
    BY <1>1, <1>2 DEF TypeOK
  <2>2. saving' \subseteq {e \in Calls : calls'[e].pc = "answered"} \ logged'
    BY <1>1, <1>3, <1>5 DEF TypeOK
  <2> QED
    BY <2>1, <2>2, <1>1 DEF TypeOK
<1>7. DescriptorInv' /\ UsableUntilExpired'
  BY <1>1 DEF DescriptorInv, UsableUntilExpired, Fresh, Stamp, Clock
<1>8. ASSUME NEW e \in ActiveCalls', e # c
      PROVE  e \in ActiveCalls /\ calls'[e] = calls[e]
  BY <1>3, <1>8 DEF ActiveCalls
<1>9. SessionInv'
  <2>1. ~ r.late
    BY <1>1, <1>2 DEF TypeOK
  <2>2. \E a, b \in Leads : r.at - drawn[d].at < Lifetime + a - b
    <3>1. /\ drawn[d].by \in Processes /\ drawn[d].at \in Int /\ now \in Int
      BY <1>1, Numbers
    <3>2. /\ lead[drawn[d].by] \in Leads /\ lead[drawn[d].by] \in Int
          /\ lead[p] \in Leads /\ lead[p] \in Int
      BY <3>1, Numbers
    <3>3. now - drawn[d].at < Lifetime + lead[drawn[d].by] - lead[p]
      BY <1>1, <3>1, <3>2 DEF Fresh, Stamp, Clock
    <3> QED
      BY <1>2, <3>2, <3>3
  <2>3. ASSUME NEW e \in ActiveCalls'
        PROVE  /\ ~ calls'[e].late /\ drawn[calls'[e].desc] # Unborn
               /\ \E a, b \in Leads :
                      calls'[e].at - drawn[calls'[e].desc].at < Lifetime + a - b
    <3>1. CASE e = c
      BY <3>1, <1>1, <1>2, <1>3, <2>1, <2>2
    <3>2. CASE e # c
      BY <3>2, <1>8 DEF SessionInv
    <3> QED
      BY <3>1, <3>2
  <2> QED
    BY <1>1, <2>3 DEF SessionInv
<1>10. TokenInv' /\ DeletionsLeaveATrace'
  <2>1. \A e \in ActiveCalls : calls'[e] = calls[e]
    BY <1>1, <1>3 DEF ActiveCalls
  <2>2. \A e \in ActiveCalls' :
            (e \in ActiveCalls /\ calls'[e] = calls[e]) \/ calls'[e].pc = "checked"
    BY <1>2, <1>3, <1>8
  <2> QED
    BY <1>1, <2>1, <2>2, TokensStay
<1>11. LogInv' /\ AnsweredIsLogged'
  BY <1>1, <1>2, <1>3, <1>5 DEF LogInv, AnsweredIsLogged, TypeOK
<1> QED
  BY <1>6, <1>7, <1>9, <1>10, <1>11

\* A call takes a step: what it says of its token is so, and tokens are only dropped.
LEMMA StepInv ==
    ASSUME Inv, NEW c \in Calls, NEW r \in CallRecords,
           calls[c] # NoCall, calls[c].pc # "answered", calls' = [calls EXCEPT ![c] = r],
           r.kind = calls[c].kind, r.desc = calls[c].desc, r.at = calls[c].at,
           r.late = calls[c].late, r.token = calls[c].token,
           tokens' \subseteq Tokens \X Groups, withdrawn' = withdrawn,
           dropped' \subseteq (Tokens \X Groups) \ tokens', withdrawn \cap tokens' = {},
           dropped \subseteq dropped', tokens \subseteq tokens' \cup dropped',
           \A a \in tokens' \ tokens : \A d \in Naming : a[1] # calls[d].token,
           \A a \in dropped' \ dropped : r.kind = "deleteToken" /\ a = Own(c),
           r.pc # "checked",
           /\ r.kind \in {"createToken", "updateToken"} => r.did /\ Own(c) \in Ever'
           /\ r.kind = "deleteToken" => Own(c) \notin tokens',
           (r.kind = "deleteToken" /\ r.pc = "answered") => c \in logged',
           logged' = logged \/ (logged' = logged \cup {c} /\ r.pc = "answered"),
           saving' = saving \/ (saving' = saving \cup {c} /\ c \notin logged'
                                /\ r.pc = "answered" /\ logged' = logged),
           (r.pc = "answered" /\ r.kind \in Views \cup Changes /\ ~ r.skip) =>
               c \in logged' \/ (r.kind = "searchEvents" /\ c \in saving'),
           UNCHANGED <<now, lead, rowVars, faults>>
    PROVE  Inv'
<1> USE DEF Inv
<1>1. calls'[c] = r /\ \A e \in Calls \ {c} : calls'[e] = calls[e]
  BY DEF TypeOK
<1>2. c \notin saving /\ c \notin logged /\ c \in ActiveCalls /\ r # NoCall
  BY NoCallDiffers DEF TypeOK, LogInv, ActiveCalls
<1>3. TypeOK'
  <2>1. calls' \in [Calls -> {NoCall} \cup CallRecords] /\ logged' \subseteq Calls
    BY DEF TypeOK
  <2>2. saving' \subseteq {e \in Calls : calls'[e].pc = "answered"} \ logged'
    <3>1. saving \subseteq {e \in Calls : calls'[e].pc = "answered"} \ logged'
      BY <1>1, <1>2 DEF TypeOK
    <3> QED
      BY <3>1, <1>1
  <2>3. /\ now' \in Times /\ lead' \in [Processes \cup {Processor} -> Leads]
        /\ drawn' \in [Descriptors -> {Unborn} \cup [at : Times, by : Processes, owner : Owners]]
        /\ rows' \subseteq {d \in Descriptors : drawn'[d] # Unborn}
        /\ revoked' \subseteq Descriptors \ rows' /\ vouchers' \subseteq Descriptors
        /\ faults' \in 0..MaxFaults
    BY DEF TypeOK, rowVars
  <2> QED
    BY <2>1, <2>2, <2>3 DEF TypeOK
<1>4. DescriptorInv' /\ UsableUntilExpired'
  BY DEF DescriptorInv, UsableUntilExpired, Fresh, Stamp, Clock, rowVars
<1>5. ActiveCalls' = ActiveCalls
  BY <1>1, <1>2 DEF ActiveCalls
<1>6. SessionInv'
  <2> SUFFICES ASSUME NEW e \in ActiveCalls
               PROVE  /\ ~ calls'[e].late /\ drawn[calls'[e].desc] # Unborn
                      /\ \E a, b \in Leads :
                             calls'[e].at - drawn[calls'[e].desc].at < Lifetime + a - b
    BY <1>5 DEF SessionInv, rowVars
  <2>1. calls'[e].late = calls[e].late /\ calls'[e].desc = calls[e].desc
        /\ calls'[e].at = calls[e].at
    BY <1>1 DEF ActiveCalls
  <2> QED
    BY <2>1 DEF SessionInv
<1>10. ASSUME NEW e \in ActiveCalls
       PROVE  /\ Own(e)' = Own(e) /\ Own(e) = <<calls[e].token, GroupOf(e)>>
              /\ calls'[e].kind = calls[e].kind
  <2>1. calls'[e].token = calls[e].token /\ calls'[e].desc = calls[e].desc
        /\ calls'[e].kind = calls[e].kind
    BY <1>1 DEF ActiveCalls
  <2> QED
    BY <2>1 DEF Own, GroupOf, rowVars
<1>7. TokenInv'
  <2> SUFFICES ASSUME NEW e \in ActiveCalls, calls'[e].pc # "checked"
               PROVE  /\ calls'[e].kind \in {"createToken", "updateToken"} =>
                            calls'[e].did /\ Own(e) \in Ever'
                      /\ calls'[e].kind = "deleteToken" => Own(e) \notin tokens'
    BY <1>5, <1>10 DEF TokenInv
  <2>1. CASE e = c
    BY <2>1, <1>1
  <2>2. CASE e # c
    <3>1. calls'[e] = calls[e]
      BY <2>2, <1>1 DEF ActiveCalls
    <3>2. Ever \subseteq Ever'
      BY DEF Ever
    <3>3. ASSUME calls[e].kind = "deleteToken"
          PROVE  Own(e) \notin tokens'
      <4>1. Own(e) \notin tokens /\ e \in Naming
        BY <3>1, <3>3 DEF TokenInv, Naming, ActiveCalls
      <4>2. Own(e)[1] = calls[e].token
        BY <1>10
      <4> QED
        BY <4>1, <4>2
    <3> QED
      BY <3>1, <3>2, <3>3 DEF TokenInv
  <2> QED
    BY <2>1, <2>2
<1>11. DeletionsLeaveATrace'
  <2> SUFFICES ASSUME NEW a \in dropped', ~ (faults > 0)
               PROVE  \E e \in Calls :
                         /\ calls'[e].kind = "deleteToken" /\ calls'[e].pc # "checked"
                         /\ Own(e)' = a
                         /\ calls'[e].pc = "answered" => e \in logged'
    BY DEF DeletionsLeaveATrace
  <2>1. CASE a \notin dropped
    BY <2>1, <1>1, <1>2, <1>10
  <2>2. CASE a \in dropped
    <3>1. PICK e \in Calls :
              /\ calls[e].kind = "deleteToken" /\ calls[e].pc # "checked"
              /\ Own(e) = a
              /\ calls[e].pc = "answered" => e \in logged
      BY <2>2 DEF DeletionsLeaveATrace
    <3>2. e \in ActiveCalls
      BY <3>1, Begun
    <3>3. CASE e = c
      BY <3>1, <3>2, <3>3, <1>1, <1>10
    <3>4. CASE e # c
      BY <3>1, <3>2, <3>4, <1>1, <1>10
    <3> QED
      BY <3>3, <3>4
  <2> QED
    BY <2>1, <2>2
<1>8. LogInv'
  BY <1>1, <1>2 DEF LogInv, TypeOK
<1>9. AnsweredIsLogged'
  <2> SUFFICES ASSUME NEW e \in Calls, calls'[e].pc = "answered",
                      calls'[e].kind \in Views \cup Changes, ~ calls'[e].skip
               PROVE  e \in logged' \/ (calls'[e].kind = "searchEvents"
                                        /\ (e \in saving' \/ faults > 0))
    BY DEF AnsweredIsLogged
  <2>1. CASE e = c
    BY <2>1, <1>1
  <2>2. CASE e # c
    BY <2>2, <1>1 DEF AnsweredIsLogged
  <2> QED
    BY <2>1, <2>2
<1> QED
  BY <1>3, <1>4, <1>6, <1>7, <1>8, <1>9, <1>11

\* Calls that were not answered are forgotten; events are lost to a fault alone.
LEMMA ForgetInv ==
    ASSUME Inv, NEW gone \in SUBSET Calls,
           \A c \in gone : calls[c].pc # "answered",
           faults' > 0 \/ \A c \in gone : calls[c].kind # "deleteToken",
           calls' = [c \in Calls |-> IF c \in gone THEN NoCall ELSE calls[c]],
           \A d \in vouchers' \ vouchers : d \in Descriptors /\ drawn[d] # Unborn,
           vouchers \subseteq vouchers', saving' \subseteq saving,
           faults' \in 0..MaxFaults, faults' >= faults, saving' = saving \/ faults' > 0,
           UNCHANGED <<now, lead, rows, drawn, revoked, tokenVars, logged>>
    PROVE  Inv'
<1> USE DEF Inv
<1>1. \A c \in Calls \ gone : calls'[c] = calls[c]
  OBVIOUS
<1>2. \A c \in gone : calls'[c] = NoCall /\ c \notin saving /\ c \notin logged
  BY DEF TypeOK, LogInv
<1>3. TypeOK'
  <2>1. calls' \in [Calls -> {NoCall} \cup CallRecords] /\ vouchers' \subseteq Descriptors
    BY DEF TypeOK
  <2>2. saving' \subseteq {e \in Calls : calls'[e].pc = "answered"} \ logged'
    BY <1>1, <1>2 DEF TypeOK
  <2> QED
    BY <2>1, <2>2 DEF TypeOK, tokenVars
<1>4. DescriptorInv'
  BY DEF DescriptorInv, TypeOK
<1>5. UsableUntilExpired'
  BY DEF UsableUntilExpired, Fresh, Stamp, Clock
<1>6. \A c \in ActiveCalls' : c \in ActiveCalls /\ calls'[c] = calls[c]
  BY <1>1, <1>2 DEF ActiveCalls
<1>7. SessionInv'
  BY <1>6 DEF SessionInv
<1>10. TokenInv' /\ DeletionsLeaveATrace'
  <2>1. \A c \in ActiveCalls : calls[c].kind = "deleteToken" =>
            calls'[c] = calls[c] \/ faults' > 0
    BY <1>1 DEF ActiveCalls
  <2>2. faults > 0 => faults' > 0
    BY ViewerAssumption DEF TypeOK
  <2> QED
    BY <1>6, <2>1, <2>2, TokensStay DEF tokenVars
<1>8. LogInv'
  BY <1>1, <1>2 DEF LogInv, TypeOK
<1>9. AnsweredIsLogged'
  <2> SUFFICES ASSUME NEW e \in Calls, calls'[e].pc = "answered",
                      calls'[e].kind \in Views \cup Changes, ~ calls'[e].skip
               PROVE  e \in logged \/ (calls'[e].kind = "searchEvents"
                                       /\ (e \in saving' \/ faults' > 0))
    BY DEF AnsweredIsLogged
  <2>1. calls'[e] = calls[e]
    BY <1>1, <1>2, NoCallDiffers
  <2>2. e \in logged \/ (calls[e].kind = "searchEvents" /\ (e \in saving \/ faults > 0))
    BY <2>1 DEF AnsweredIsLogged
  <2>3. faults \in Int /\ faults' \in Int
    BY ViewerAssumption DEF TypeOK
  <2> QED
    BY <2>1, <2>2, <2>3
<1> QED
  BY <1>3, <1>4, <1>5, <1>7, <1>8, <1>9, <1>10

\* The steps of a call that is not answered by them.
LEMMA WorkInv ==
    ASSUME Inv, NEW c \in Calls,
           Read(c) \/ CreateToken(c) \/ UpdateToken(c) \/ DeleteToken(c) \/ ProduceUsage(c)
    PROVE  Inv'
<1> USE DEF Inv
<1>1. calls[c] \in CallRecords /\ c \in ActiveCalls /\ calls[c].pc \in {"checked", "worked"}
  <2>1. calls[c].pc \in {"checked", "worked"}
    BY DEF Read, CreateToken, UpdateToken, DeleteToken, ProduceUsage, Goes
  <2> QED
    BY <2>1, Begun
<1>2. calls[c] # NoCall /\ calls[c].pc # "answered"
  BY <1>1 DEF ActiveCalls
<1>3. calls \in [Calls -> {NoCall} \cup CallRecords]
  BY DEF TypeOK
<1>4. /\ tokens \subseteq Tokens \X Groups /\ dropped \subseteq (Tokens \X Groups) \ tokens
      /\ withdrawn \cap tokens = {}
  BY DEF TypeOK
<1>10. Own(c) = <<calls[c].token, GroupOf(c)>> /\ Own(c) \in Tokens \X Groups
  <2>1. calls[c].desc \in Descriptors /\ drawn[calls[c].desc] # Unborn /\ calls[c].token \in Tokens
    BY <1>1 DEF CallRecords, SessionInv
  <2>2. drawn[calls[c].desc].owner \in Owners
    BY <2>1 DEF TypeOK
  <2> QED
    BY <2>1, <2>2 DEF Own, GroupOf, Owners
<1>5. CASE Read(c) \/ ProduceUsage(c)
  <2>0. PICK to \in {"worked", "told"} :
        /\ calls' = [calls EXCEPT ![c].pc = to]
        /\ calls[c].kind \in {"searchEvents", "graphql", "session"}
        /\ UNCHANGED <<now, lead, rowVars, tokenVars, logged, saving, faults>>
    BY <1>5 DEF Read, ProduceUsage, Goes
  <2> DEFINE r == [calls[c] EXCEPT !.pc = to]
  <2>1. r \in CallRecords /\ calls' = [calls EXCEPT ![c] = r]
    BY <1>1, <2>0 DEF CallRecords
  <2>2. /\ r.kind = calls[c].kind /\ r.desc = calls[c].desc /\ r.at = calls[c].at
        /\ r.late = calls[c].late /\ r.token = calls[c].token /\ r.pc = to
    BY <1>1 DEF CallRecords
  <2> HIDE DEF r
  <2> QED
    BY <1>2, <1>4, <2>0, <2>1, <2>2, StepInv DEF tokenVars
<1>6. CASE CreateToken(c)
  <2> DEFINE r == [calls[c] EXCEPT !.pc = "worked", !.did = TRUE]
  <2>1. /\ calls[c].kind = "createToken"
        /\ \A a \in tokens \cup dropped \cup withdrawn : a[1] # calls[c].token
        /\ \A d \in Naming : calls[d].token # calls[c].token
        /\ tokens' = tokens \cup {Own(c)}
        /\ UNCHANGED <<now, lead, rowVars, dropped, withdrawn, logged, saving, faults>>
    BY <1>6 DEF CreateToken
  <2>2. r \in CallRecords /\ calls' = [calls EXCEPT ![c] = r]
    BY <1>1, <1>6 DEF CallRecords, CreateToken
  <2>3. /\ r.kind = calls[c].kind /\ r.desc = calls[c].desc /\ r.at = calls[c].at
        /\ r.late = calls[c].late /\ r.token = calls[c].token /\ r.pc = "worked" /\ r.did
    BY <1>1 DEF CallRecords
  <2>4. Own(c)[1] = calls[c].token
    BY <1>10
  <2>5. Own(c) \notin tokens \cup dropped \cup withdrawn
    BY <2>1, <2>4
  <2>6. /\ tokens' \subseteq Tokens \X Groups
        /\ dropped' \subseteq (Tokens \X Groups) \ tokens' /\ withdrawn \cap tokens' = {}
        /\ \A a \in tokens' \ tokens : \A d \in Naming : a[1] # calls[d].token
        /\ Own(c) \in Ever'
    BY <1>4, <1>10, <2>1, <2>4, <2>5 DEF Ever
  <2> HIDE DEF r
  <2> QED
    BY <1>2, <2>1, <2>2, <2>3, <2>6, StepInv
<1>7. CASE UpdateToken(c) /\ Own(c) \in tokens
  <2> DEFINE r == [calls[c] EXCEPT !.pc = "worked", !.did = TRUE]
  <2>1. /\ calls[c].kind = "updateToken"
        /\ UNCHANGED <<now, lead, rowVars, tokenVars, logged, saving, faults>>
    BY <1>7 DEF UpdateToken
  <2>2. r \in CallRecords /\ calls' = [calls EXCEPT ![c] = r]
    BY <1>1, <1>7 DEF CallRecords, UpdateToken
  <2>3. /\ r.kind = calls[c].kind /\ r.desc = calls[c].desc /\ r.at = calls[c].at
        /\ r.late = calls[c].late /\ r.token = calls[c].token /\ r.pc = "worked" /\ r.did
    BY <1>1 DEF CallRecords
  <2>4. tokens' = tokens /\ dropped' = dropped /\ withdrawn' = withdrawn /\ Own(c) \in Ever'
    BY <1>7, <2>1 DEF tokenVars, Ever
  <2> HIDE DEF r
  <2> QED
    BY <1>2, <1>4, <2>1, <2>2, <2>3, <2>4, StepInv
<1>8. CASE UpdateToken(c) /\ Own(c) \notin tokens
  <2>1. /\ calls' = [calls EXCEPT ![c] = NoCall] /\ calls[c].kind # "deleteToken"
        /\ UNCHANGED <<now, lead, rowVars, tokenVars, logged, saving, faults>>
    BY <1>8 DEF UpdateToken
  <2>2. calls' = [e \in Calls |-> IF e \in {c} THEN NoCall ELSE calls[e]]
    BY <2>1, <1>3
  <2>3. faults \in 0..MaxFaults /\ faults >= faults
    BY ViewerAssumption DEF TypeOK
  <2> QED
    BY <1>2, <2>1, <2>2, <2>3, ForgetInv DEF rowVars
<1>9. CASE DeleteToken(c)
  <2>0. PICK did \in BOOLEAN : calls' = [calls EXCEPT ![c].pc = "worked", ![c].did = did]
    <3>1. calls' = [calls EXCEPT ![c].pc = "worked",
                                 ![c].did = Own(c) \in tokens]
      BY <1>9, Zenon DEF DeleteToken
    <3>2. (Own(c) \in tokens) \in BOOLEAN
      OBVIOUS
    <3> QED
      BY <3>1, <3>2, Zenon
  <2> DEFINE r == [calls[c] EXCEPT !.pc = "worked", !.did = did]
  <2>1. /\ calls[c].kind = "deleteToken"
        /\ tokens' = tokens \ {Own(c)}
        /\ dropped' = dropped \cup (tokens \cap {Own(c)})
        /\ UNCHANGED <<now, lead, rowVars, withdrawn, logged, saving, faults>>
    BY <1>9 DEF DeleteToken
  <2>2. r \in CallRecords /\ calls' = [calls EXCEPT ![c] = r]
    BY <1>1, <2>0 DEF CallRecords
  <2>3. /\ r.kind = calls[c].kind /\ r.desc = calls[c].desc /\ r.at = calls[c].at
        /\ r.late = calls[c].late /\ r.token = calls[c].token /\ r.pc = "worked"
    BY <1>1 DEF CallRecords
  <2>4. /\ tokens' \subseteq Tokens \X Groups
        /\ dropped' \subseteq (Tokens \X Groups) \ tokens' /\ withdrawn \cap tokens' = {}
        /\ \A a \in dropped' \ dropped : a = Own(c)
        /\ tokens \subseteq tokens' \cup dropped' /\ Own(c) \notin tokens'
    BY <1>4, <2>1
  <2> HIDE DEF r
  <2> QED
    BY <1>2, <2>1, <2>2, <2>3, <2>4, StepInv
<1> QED
  BY <1>5, <1>6, <1>7, <1>8, <1>9

\* The steps that answer a call, with its event saved, being saved or skipped.
LEMMA AnswerInv ==
    ASSUME Inv, NEW c \in Calls, AnswerSearch(c) \/ SaveAndAnswer(c)
    PROVE  Inv'
<1> USE DEF Inv
<1>1. PICK skip \in BOOLEAN :
        /\ calls[c].pc \in {"worked", "told"}
        /\ calls[c].kind \in Kinds /\ (skip => calls[c].kind \in Views)
        /\ calls' = [calls EXCEPT ![c].pc = "answered", ![c].skip = skip]
        /\ \/ /\ calls[c].kind = "searchEvents" /\ logged' = logged
              /\ saving' = IF skip THEN saving ELSE saving \cup {c}
           \/ /\ saving' = saving
              /\ logged' = IF skip THEN logged ELSE logged \cup {c}
        /\ UNCHANGED <<now, lead, rowVars, tokenVars, faults>>
  BY DEF AnswerSearch, SaveAndAnswer, Answers
<1>2. calls[c] \in CallRecords /\ c \in ActiveCalls
  BY <1>1, Begun
<1> DEFINE r == [calls[c] EXCEPT !.pc = "answered", !.skip = skip]
<1>3. r \in CallRecords /\ calls' = [calls EXCEPT ![c] = r]
  BY <1>1, <1>2 DEF CallRecords
<1>4. /\ r.kind = calls[c].kind /\ r.desc = calls[c].desc /\ r.at = calls[c].at
      /\ r.late = calls[c].late /\ r.token = calls[c].token /\ r.pc = "answered"
      /\ r.skip = skip /\ r.did = calls[c].did
  BY <1>2 DEF CallRecords
<1>5. /\ r.kind \in {"createToken", "updateToken"} => r.did /\ Own(c) \in Ever'
      /\ r.kind = "deleteToken" => Own(c) \notin tokens'
  BY <1>1, <1>2, <1>4 DEF TokenInv, tokenVars, Ever
<1>6. c \notin logged /\ calls[c] # NoCall /\ calls[c].pc # "answered"
  BY <1>1, <1>2 DEF LogInv, ActiveCalls
<1>7. /\ tokens' \subseteq Tokens \X Groups /\ dropped' \subseteq (Tokens \X Groups) \ tokens'
      /\ withdrawn \cap tokens' = {} /\ dropped' = dropped /\ withdrawn' = withdrawn
      /\ tokens' = tokens
  BY <1>1 DEF TypeOK, tokenVars
<1> HIDE DEF r
<1>8. /\ logged' = logged \/ (logged' = logged \cup {c} /\ r.pc = "answered")
      /\ saving' = saving \/ (saving' = saving \cup {c} /\ c \notin logged'
                              /\ r.pc = "answered" /\ logged' = logged)
      /\ (r.pc = "answered" /\ r.kind \in Views \cup Changes /\ ~ r.skip) =>
             c \in logged' \/ (r.kind = "searchEvents" /\ c \in saving')
      /\ (r.kind = "deleteToken" /\ r.pc = "answered") => c \in logged'
  BY <1>1, <1>4, <1>6
<1> QED
  BY <1>1, <1>3, <1>4, <1>5, <1>6, <1>7, <1>8, StepInv

\* A session's voucher is of a descriptor that was read.
LEMMA SessionStepInv ==
    ASSUME Inv, NEW c \in Calls, CreateViewerSession(c)
    PROVE  Inv'
<1> USE DEF Inv
<1>1. /\ calls[c].kind = "session" /\ calls[c].pc = "told" /\ vouchers' = vouchers \cup {calls[c].desc}
      /\ calls' = [calls EXCEPT ![c] = NoCall]
      /\ UNCHANGED <<now, lead, rows, drawn, revoked, tokenVars, logged, saving, faults>>
  BY DEF CreateViewerSession
<1>2. calls[c] \in CallRecords /\ c \in ActiveCalls
  BY <1>1, Begun
<1>3. calls[c].desc \in Descriptors /\ drawn[calls[c].desc] # Unborn
  BY <1>2 DEF CallRecords, SessionInv
<1>4. calls' = [e \in Calls |-> IF e \in {c} THEN NoCall ELSE calls[e]]
  BY <1>1 DEF TypeOK
<1>5. faults \in 0..MaxFaults /\ faults >= faults
  BY ViewerAssumption DEF TypeOK
<1> QED
  BY <1>1, <1>3, <1>4, <1>5, ForgetInv

LEMMA BackgroundInv ==
    ASSUME Inv, NEW c \in Calls, SaveInBackground(c)
    PROVE  Inv'
<1> USE DEF Inv
<1>1. /\ c \in saving /\ saving' = saving \ {c} /\ logged' = logged \cup {c}
      /\ UNCHANGED <<now, lead, rows, drawn, revoked, vouchers, calls, tokens, dropped,
                     withdrawn, faults>>
  BY DEF SaveInBackground, rowVars, tokenVars
<1>2. calls[c].pc = "answered" /\ calls[c] # NoCall
  BY <1>1, NoCallDiffers DEF TypeOK
<1>3. TypeOK' /\ LogInv'
  BY <1>1, <1>2 DEF TypeOK, LogInv
<1>4. DescriptorInv' /\ UsableUntilExpired' /\ SessionInv'
  BY <1>1 DEF DescriptorInv, UsableUntilExpired, SessionInv, ActiveCalls, Fresh, Stamp, Clock
<1>5. AnsweredIsLogged'
  BY <1>1 DEF AnsweredIsLogged
<1>6. TokenInv' /\ DeletionsLeaveATrace'
  BY <1>1, TokensStay DEF ActiveCalls
<1> QED
  BY <1>3, <1>4, <1>5, <1>6

\* The publisher deletes a token.
LEMMA EnterpriseInv ==
    ASSUME Inv, NEW a \in tokens, DeleteEnterpriseToken(a)
    PROVE  Inv'
<1> USE DEF Inv
<1>1. /\ tokens' = tokens \ {a} /\ withdrawn' = withdrawn \cup {a}
      /\ UNCHANGED <<now, lead, rows, drawn, revoked, vouchers, calls, dropped, logged, saving,
                     faults>>
  BY DEF DeleteEnterpriseToken, rowVars
<1>2. TypeOK'
  BY <1>1 DEF TypeOK
<1>3. TokenInv' /\ DeletionsLeaveATrace'
  BY <1>1, TokensStay DEF ActiveCalls
<1>4. DescriptorInv' /\ UsableUntilExpired' /\ SessionInv' /\ LogInv' /\ AnsweredIsLogged'
  BY <1>1 DEF DescriptorInv, UsableUntilExpired, SessionInv, LogInv, AnsweredIsLogged,
              ActiveCalls, Fresh, Stamp, Clock
<1> QED
  BY <1>2, <1>3, <1>4

-----------------------------------------------------------------------------
(* Faults *)

\* A fault is counted.
LEMMA FaultCounts ==
    ASSUME TypeOK, Fault
    PROVE  faults' \in 0..MaxFaults /\ faults' >= faults /\ faults' > 0
  BY ViewerAssumption DEF TypeOK, Fault

LEMMA CallFailInv ==
    ASSUME Inv, NEW c \in Calls, CallFail(c)
    PROVE  Inv'
<1>1. /\ calls[c].pc # "answered" /\ calls' = [calls EXCEPT ![c] = NoCall]
      /\ UNCHANGED <<now, lead, rowVars, tokenVars, logged, saving>>
  BY DEF CallFail
<1>2. calls' = [e \in Calls |-> IF e \in {c} THEN NoCall ELSE calls[e]]
  BY <1>1 DEF Inv, TypeOK
<1>3. faults' \in 0..MaxFaults /\ faults' >= faults /\ faults' > 0
  BY FaultCounts DEF CallFail, Inv
<1> QED
  BY <1>1, <1>2, <1>3, ForgetInv DEF rowVars

\* What a process was doing ends with it; what it had answered stays so.
LEMMA ProcessDiesInv ==
    ASSUME Inv, NEW p \in Processes, ProcessDies(p)
    PROVE  Inv'
<1> DEFINE dying == {c \in Calls : /\ calls[c].pc \in {"checked", "worked", "told"}
                                   /\ calls[c].by = p}
<1>1. /\ calls' = [c \in Calls |-> IF c \in dying THEN NoCall ELSE calls[c]]
      /\ saving' \subseteq saving
      /\ UNCHANGED <<now, lead, rowVars, tokenVars, logged>>
  BY DEF ProcessDies
<1>2. dying \in SUBSET Calls /\ \A c \in dying : calls[c].pc # "answered"
  OBVIOUS
<1>3. faults' \in 0..MaxFaults /\ faults' >= faults /\ faults' > 0
  BY FaultCounts DEF ProcessDies, Inv
<1> HIDE DEF dying
<1> QED
  BY <1>1, <1>2, <1>3, ForgetInv DEF rowVars

-----------------------------------------------------------------------------
(* The theorems *)

LEMMA StutterInv == Inv /\ UNCHANGED vars => Inv'
<1> SUFFICES ASSUME Inv, UNCHANGED vars
             PROVE  Inv'
  OBVIOUS
<1>1. UNCHANGED <<now, lead, rows, drawn, revoked, vouchers, calls, tokens, dropped, withdrawn,
                  logged, saving, faults>>
  BY DEF vars, rowVars, tokenVars
<1>2. TokenInv' /\ DeletionsLeaveATrace'
  BY <1>1, TokensStay DEF ActiveCalls
<1> QED
  BY <1>1, <1>2 DEF Inv, TypeOK, DescriptorInv, UsableUntilExpired, SessionInv, LogInv,
                    AnsweredIsLogged, ActiveCalls, Fresh, Stamp, Clock

\* The conjuncts of Inv hold together in every state.
LEMMA Invariance == Spec => []Inv
<1>1. Inv /\ [Next]_vars => Inv'
  <2> SUFFICES ASSUME Inv, Next
               PROVE  Inv'
    BY StutterInv
  <2> QED
    BY TimeInv, PruneInv, RevokeInv, CreateInv, CheckInv, WorkInv, AnswerInv, SessionStepInv,
       BackgroundInv, EnterpriseInv, CallFailInv, ProcessDiesInv DEF Next
<1> QED
  BY <1>1, InitInv, PTL DEF Spec

\* Every variable has the values it is meant to have; an event is being saved
\* only for a call that is answered, and once.
THEOREM TypesAreCorrect == Spec => []TypeOK
<1>1. Inv => TypeOK
  BY DEF Inv
<1> QED
  BY <1>1, Invariance, PTL

\* However far the clocks of the API's processes are apart, no call that began
\* after a revocation, or too long after its descriptor was created, is answered.
THEOREM SessionsEnd == Spec => []VouchersEndWithTheirSession
<1>1. ASSUME Inv
      PROVE  VouchersEndWithTheirSession
  <2> SUFFICES ASSUME NEW c \in Calls, calls[c].pc = "answered"
               PROVE  /\ ~ calls[c].late
                      /\ \E a, b \in Leads :
                             calls[c].at - drawn[calls[c].desc].at < Lifetime + a - b
    BY DEF VouchersEndWithTheirSession
  <2>1. c \in ActiveCalls
    BY <1>1, Begun DEF Inv
  <2> QED
    BY <1>1, <2>1 DEF Inv, SessionInv
<1> QED
  BY <1>1, Invariance, PTL

\* As long as no clock is 1435 minutes ahead of another, pruning takes no
\* descriptor an API process would accept.
THEOREM PruningIsLate == Spec => []UsableUntilExpired
<1>1. Inv => UsableUntilExpired
  BY DEF Inv
<1> QED
  BY <1>1, Invariance, PTL

\* An answered call is in the audit log, is a search whose event is being saved,
\* or is a search and something failed.
THEOREM AnswersLeaveATrace == Spec => []AnsweredIsLogged
<1>1. Inv => AnsweredIsLogged
  BY DEF Inv
<1> QED
  BY <1>1, Invariance, PTL

\* What the audit log says of a token is so, whoever else changes the tokens: what was
\* created or updated was there, in the viewer's group, and what was deleted is not.
THEOREM TracesAreTrue == Spec => []LogIsTrue
<1>1. ASSUME Inv
      PROVE  LogIsTrue
  <2>1. \A c \in logged : c \in ActiveCalls /\ calls[c].pc = "answered"
    BY <1>1 DEF Inv, LogInv, TypeOK, ActiveCalls
  <2> QED
    BY <1>1, <2>1 DEF Inv, TokenInv, LogIsTrue, Ever
<1> QED
  BY <1>1, Invariance, PTL

\* No viewer deletes a token of another group, and unless something failed the one
\* who deleted it is, when answered, in the audit log.
THEOREM DeletionsAreTraced == Spec => []DeletionsLeaveATrace
<1>1. Inv => DeletionsLeaveATrace
  BY DEF Inv
<1> QED
  BY <1>1, Invariance, PTL

=============================================================================
