----------------------------- MODULE ReportProofs ------------------------------
(***************************************************************************)
(* Proofs about daily reports, for any subscribers, offsets, events and     *)
(* faults.  Types are shown to be kept first; then come the invariants of  *)
(* subscriptions, mails, stopped actions and counts, each on its own, the   *)
(* mails and the missing days of each user, and what is counted in them.    *)
(***************************************************************************)
EXTENDS DailyReports, FiniteSetTheorems, TLAPS

JobRecords ==
    [pc : {"free", "waiting", "counted", "ready", "mailing"},
     offset : Offsets \cup {0}, day : Days, to : SUBSET Users,
     count : [Events -> Nat], stopped : BOOLEAN]

\* An event is saved once it is normalized, and once for each attempt at most.
EventsKept ==
    \A e \in Events :
        /\ time[e] = -1 => rows[e] = 0 /\ saves[e] = MaxSaves
        /\ saves[e] < MaxSaves => rows[e] <= saves[e]

\* What is due is of a day that is over.
Types ==
    /\ TypeOK
    /\ EventsKept
    /\ offAt \in [Users -> Int]
    /\ \A r \in due : Day <= Now + 3 + r.offset
    /\ \A s \in Slots : jobs[s].pc = "free" => jobs[s] = NoJob

-----------------------------------------------------------------------------
(* Hours and days *)

\* Where reports are made, it is between six and seven by this clock, at seven to the
\* hour, which is some minutes behind.
OnTime(o) == (Now + 3 + o) % 96 \in 24..27

LEMMA DayIs ==
    ASSUME NEW h \in Nat, h <= LastHour, NEW o \in -48..56, 96 <= 4 * h + 3 + o
    PROVE  (4 * h + 3 + o) \div 96 - 1 \in 0..(LastHour \div 24 + 1)
  BY ReportsAssumption

LEMMA ReportTime ==
    ASSUME NEW h \in Nat, NEW k \in Int, NEW o \in Int,
           k = 7 - ((h + 1) % 24) \/ k = 31 - ((h + 1) % 24), o <= 4 * k, o > 4 * k - 4
    PROVE  (4 * h + 3 + o) % 96 \in 24..27
  OBVIOUS

LEMMA ReportIsOnTime ==
    ASSUME Types, NEW u \in Users, DailyReport(u)
    PROVE  offset[u] \in Offsets /\ OnTime(offset[u]) /\ Day <= Now + 3 + offset[u]
<1>1. /\ hour \in Nat /\ FirstHour <= hour /\ offset[u] \in Offsets \cup {NoZone}
      /\ Offsets \subseteq -48..56 /\ NoZone \in Nat \ 0..56 /\ FirstHour \in Nat \ 0..23
  BY ReportsAssumption DEF Types, TypeOK
<1>2. PICK k \in ReportHours : offset[u] <= 4 * k /\ offset[u] > 4 * k - 4
  BY DEF DailyReport
<1>3. (hour + 1) % 24 \in 0..23
  BY <1>1
<1>4. k = 7 - ((hour + 1) % 24) \/ (k = 31 - ((hour + 1) % 24) /\ k <= 14)
  <2>1. LET back == 7 - ((hour + 1) % 24)
            forward == back + 24 IN
        k \in {back, forward} /\ (k = forward => forward <= 14)
    BY <1>2 DEF ReportHours, OffsetsWithLocalTimeDuringUTCHour
  <2> QED
    BY <1>3, <2>1
<1>5. k \in Int /\ k <= 14
  BY <1>3, <1>4
<1>6. offset[u] \in Offsets /\ offset[u] \in -48..56
  <2>1. 4 * k <= 56
    BY <1>5
  <2>2. offset[u] # NoZone
    BY <1>1, <1>2, <1>5, <2>1
  <2> QED
    BY <1>1, <2>2
<1>7. (4 * hour + 3 + offset[u]) % 96 \in 24..27
  <2>1. hour \in Nat /\ offset[u] \in Int /\ k \in Int
    BY <1>1, <1>5, <1>6
  <2>2. k = 7 - ((hour + 1) % 24) \/ k = 31 - ((hour + 1) % 24)
    BY <1>4
  <2> QED
    BY <1>2, <2>1, <2>2, ReportTime
<1>8. 96 <= 4 * hour + 3 + offset[u]
  <2>1. 4 * hour + 3 + offset[u] >= 51 /\ 4 * hour + 3 + offset[u] \in Int
    BY <1>1, <1>6
  <2> QED
    BY <1>7, <2>1
<1> QED
  BY <1>6, <1>7, <1>8 DEF OnTime, Now, Day

-----------------------------------------------------------------------------
(* Types *)

LEMMA NoJobIs ==
    /\ NoJob \in JobRecords /\ NoJob.pc = "free" /\ NoJob.to = {} /\ NoJob.count = NoCount
    /\ NoJob.stopped = FALSE /\ NoJob.day = 0 /\ NoJob.offset = 0
<1>1. 0 \in Days
  BY ReportsAssumption DEF Days
<1> QED
  BY <1>1 DEF NoJob, JobRecords, NoCount

LEMMA Parts ==
    ASSUME Types
    PROVE  /\ TypeOK /\ jobs \in [Slots -> JobRecords] /\ offAt \in [Users -> Int]
           /\ hour \in Nat /\ hour <= LastHour /\ LastHour \in Nat
           /\ FirstHour \in Nat /\ FirstHour >= 24 /\ FirstHour <= hour
           /\ Now = 4 * hour /\ Now \in Nat
           /\ \A o \in Offsets : o \in -48..56 /\ o \in Int
           /\ \A s \in Slots : jobs[s].pc = "free" => jobs[s] = NoJob
           /\ \A r \in due : /\ r \in [offset : Offsets, to : SUBSET Users]
                             /\ Day <= Now + 3 + r.offset
           /\ time \in [Events -> Int] /\ at \in [Events -> Int]
           /\ rows \in [Events -> 0..MaxSaves]
           /\ saves \in [Events -> 0..MaxSaves] /\ lastActive \in Nat
  BY ReportsAssumption DEF Types, TypeOK, JobRecords, Now

\* The job at s becomes k.
LEMMA OneJob ==
    ASSUME Types, NEW s \in Slots, NEW k \in JobRecords, jobs' = [jobs EXCEPT ![s] = k],
           k.pc = "free" => k = NoJob
    PROVE  /\ jobs' \in [Slots -> JobRecords] /\ jobs'[s] = k
           /\ \A t \in Slots \ {s} : jobs'[t] = jobs[t]
           /\ \A t \in Slots : jobs'[t].pc = "free" => jobs'[t] = NoJob
  BY Parts

LEMMA InRangeType == \A j, t : InRange(j, t) \in BOOLEAN
  BY DEF InRange

\* The steps of a job.
LEMMA ProduceDayIs ==
    ASSUME Types, NEW r \in due, NEW s \in Slots, ProduceDay(r, s)
    PROVE  \E k \in JobRecords :
              /\ jobs' = [jobs EXCEPT ![s] = k]
              /\ k.pc = "waiting" /\ k.offset = r.offset /\ k.day = Yesterday(r.offset)
              /\ k.to = r.to /\ k.count = NoCount /\ k.stopped = FALSE
<1> DEFINE k == [NoJob EXCEPT !.pc = "waiting", !.offset = r.offset,
                              !.day = Yesterday(r.offset), !.to = r.to]
<1>1. jobs' = [jobs EXCEPT ![s] = k]
  BY DEF ProduceDay
<1>2. r.offset \in Offsets /\ r.to \in SUBSET Users /\ r.offset \in -48..56
  BY Parts
<1>3. Yesterday(r.offset) \in Days
  BY <1>2, Parts, DayIs DEF Yesterday, Days, Day
<1>4. /\ k \in JobRecords
      /\ k.pc = "waiting" /\ k.offset = r.offset /\ k.day = Yesterday(r.offset)
      /\ k.to = r.to /\ k.count = NoCount /\ k.stopped = FALSE
  BY <1>2, <1>3, NoJobIs DEF JobRecords
<1> QED
  BY <1>1, <1>4

LEMMA CountActionsIs ==
    ASSUME Types, NEW s \in Slots, CountActions(s)
    PROVE  \E k \in JobRecords :
              /\ jobs' = [jobs EXCEPT ![s] = k]
              /\ k.pc = "counted" /\ k.offset = jobs[s].offset /\ k.day = jobs[s].day
              /\ k.to = jobs[s].to /\ k.stopped = jobs[s].stopped
              /\ k.count = [e \in Events |-> IF InRange(jobs[s], time[e]) THEN rows[e] ELSE 0]
<1> DEFINE C == [e \in Events |-> IF InRange(jobs[s], time[e]) THEN rows[e] ELSE 0]
           k == [jobs[s] EXCEPT !.pc = "counted", !.count = C]
<1>1. jobs' = [jobs EXCEPT ![s] = k]
  BY DEF CountActions
<1>2. C \in [Events -> Nat]
  BY Parts DEF MaxSaves
<1> HIDE DEF C
<1>3. /\ k \in JobRecords
      /\ k.pc = "counted" /\ k.offset = jobs[s].offset /\ k.day = jobs[s].day
      /\ k.to = jobs[s].to /\ k.stopped = jobs[s].stopped /\ k.count = C
  BY <1>2, Parts DEF JobRecords
<1> QED
  BY <1>1, <1>3 DEF C

LEMMA SelectStoppedIs ==
    ASSUME Types, NEW s \in Slots, SelectStopped(s)
    PROVE  \E k \in JobRecords :
              /\ jobs' = [jobs EXCEPT ![s] = k]
              /\ k.pc = "ready" /\ k.offset = jobs[s].offset /\ k.day = jobs[s].day
              /\ k.to = jobs[s].to /\ k.count = jobs[s].count
              /\ k.stopped = InRange([jobs[s] EXCEPT !.day = @ - 1], lastActive)
<1> DEFINE b == InRange([jobs[s] EXCEPT !.day = @ - 1], lastActive)
           k == [jobs[s] EXCEPT !.pc = "ready", !.stopped = b]
<1>1. jobs' = [jobs EXCEPT ![s] = k]
  BY DEF SelectStopped
<1>2. b \in BOOLEAN
  BY InRangeType
<1> HIDE DEF b
<1>3. /\ k \in JobRecords
      /\ k.pc = "ready" /\ k.offset = jobs[s].offset /\ k.day = jobs[s].day
      /\ k.to = jobs[s].to /\ k.count = jobs[s].count /\ k.stopped = b
  BY <1>2, Parts DEF JobRecords
<1> QED
  BY <1>1, <1>3 DEF b

LEMMA SendMailIs ==
    ASSUME Types, NEW s \in Slots, SendMail(s)
    PROVE  \E k \in JobRecords :
              /\ jobs' = [jobs EXCEPT ![s] = k]
              /\ k.pc = "mailing" /\ k.offset = jobs[s].offset /\ k.day = jobs[s].day
              /\ k.to = jobs[s].to /\ k.count = jobs[s].count
              /\ k.stopped = jobs[s].stopped
<1> DEFINE k == [jobs[s] EXCEPT !.pc = "mailing"]
<1>1. jobs' = [jobs EXCEPT ![s] = k]
  BY DEF SendMail
<1>2. /\ k \in JobRecords
      /\ k.pc = "mailing" /\ k.offset = jobs[s].offset /\ k.day = jobs[s].day
      /\ k.to = jobs[s].to /\ k.count = jobs[s].count /\ k.stopped = jobs[s].stopped
  BY Parts DEF JobRecords
<1> QED
  BY <1>1, <1>2

\* A step of a job, with nothing of another type.
LEMMA JobTypes ==
    ASSUME Types, NEW s \in Slots, NEW k \in JobRecords, jobs' = [jobs EXCEPT ![s] = k],
           k.pc # "free", due' \subseteq due,
           UNCHANGED <<hour, ticks, userVars, eventVars, mailVars, faults>>
    PROVE  Types'
<1>1. /\ jobs' \in [Slots -> JobRecords]
      /\ \A t \in Slots : jobs'[t].pc = "free" => jobs'[t] = NoJob
  BY OneJob
<1>2. UNCHANGED <<offset, was, turn, daily, anomaly, tx, cancels, bounced, away, offAt,
                  overlapped, time, at,
                  saves, rows, lastActive, mailed, counted>>
  BY DEF userVars, clocks, eventVars, mailVars
<1> QED
  BY <1>1, <1>2 DEF Types, TypeOK, EventsKept, JobRecords, Now

\* A step of users alone.
LEMMA UserTypes ==
    ASSUME Types, UNCHANGED <<hour, ticks, due, jobs, eventVars, mailVars, faults>>,
           offset' \in [Users -> Offsets \cup {NoZone}],
           was' \in [Users -> Offsets], turn' \in [Users -> Int],
           daily' \in [Users -> BOOLEAN], anomaly' \in [Users -> BOOLEAN],
           tx' \in [Users -> BOOLEAN],
           cancels' \in [Users \X Reports -> {"none", "otherOn", "otherOff", "done"}],
           bounced' \subseteq Users, away' \subseteq Users, overlapped' \subseteq Users,
           offAt' \in [Users -> Int]
    PROVE  Types'
<1>1. UNCHANGED <<time, at, saves, rows, lastActive, mailed, counted>>
  BY DEF eventVars, mailVars
<1> QED
  BY <1>1 DEF Types, TypeOK, EventsKept, Now

LEMMA UsersAre ==
    ASSUME Types
    PROVE  /\ offset \in [Users -> Offsets \cup {NoZone}]
           /\ was \in [Users -> Offsets] /\ turn \in [Users -> Int]
           /\ daily \in [Users -> BOOLEAN] /\ anomaly \in [Users -> BOOLEAN]
           /\ tx \in [Users -> BOOLEAN]
           /\ cancels \in [Users \X Reports -> {"none", "otherOn", "otherOff", "done"}]
           /\ bounced \subseteq Users /\ away \subseteq Users /\ overlapped \subseteq Users
           /\ offAt \in [Users -> Int]
  BY DEF Types, TypeOK

\* A step of events alone, but for a fault.
LEMMA EventTypes ==
    ASSUME Types, UNCHANGED <<hour, ticks, due, jobs, userVars, mailVars>>,
           faults' \in 0..MaxFaults,
           time' \in [Events -> Int], at' \in [Events -> Int], rows' \in [Events -> 0..MaxSaves],
           saves' \in [Events -> 0..MaxSaves], lastActive' \in Nat, EventsKept'
    PROVE  Types'
<1>1. UNCHANGED <<offset, was, turn, daily, anomaly, tx, cancels, bounced, away, offAt,
                  overlapped, mailed, counted>>
  BY DEF userVars, clocks, mailVars
<1> QED
  BY <1>1 DEF Types, TypeOK, Now

LEMMA FaultType == Types /\ Fault => faults' \in 0..MaxFaults
  BY ReportsAssumption DEF Types, TypeOK, Fault

LEMMA ReportTypes ==
    ASSUME Types, HourPasses \/ ScheduleReports \/ ScheduleFail \/ ProcessorDies
    PROVE  Types'
<1>1. CASE HourPasses
  <2>1. /\ hour' = hour + 1 /\ hour' \in FirstHour..LastHour /\ ticks' \in Nat
        /\ faults' \in 0..MaxFaults
    BY <1>1, FaultType, Parts DEF HourPasses, Types, TypeOK
  <2>2. UNCHANGED <<due, jobs, offset, was, turn, daily, anomaly, tx, cancels, bounced, away,
                    offAt, overlapped, time, at, saves, rows, lastActive, mailed, counted>>
    BY <1>1 DEF HourPasses, userVars, clocks, eventVars, mailVars
  <2>3. \A r \in due' : Day <= Now' + 3 + r.offset
    <3>1. Now' = Now + 4 /\ Now \in Nat
      BY <2>1, Parts DEF Now
    <3>2. \A r \in due : Day <= Now + 3 + r.offset /\ r.offset \in Int
      BY Parts
    <3> QED
      BY <2>2, <3>1, <3>2 DEF Day
  <2> QED
    BY <2>1, <2>2, <2>3 DEF Types, TypeOK, EventsKept
<1>2. CASE ScheduleReports
  <2>1. UNCHANGED <<hour, jobs, offset, was, turn, daily, anomaly, tx, cancels, bounced, away,
                    offAt, overlapped, time, at, saves, rows, lastActive, mailed, counted,
                    faults>>
    BY <1>2 DEF ScheduleReports, userVars, clocks, eventVars, mailVars
  <2>2. ticks' \in Nat
    BY <1>2 DEF ScheduleReports, Types, TypeOK
  <2>3. \A r \in due' : /\ r \in [offset : Offsets, to : SUBSET Users]
                        /\ Day <= Now + 3 + r.offset
    <3>1. ASSUME NEW r \in due'
          PROVE  /\ r \in [offset : Offsets, to : SUBSET Users]
                 /\ Day <= Now + 3 + r.offset
      <4>1. PICK u \in Users :
                /\ DailyReport(u)
                /\ r = [offset |-> offset[u],
                        to |-> {v \in {w \in Users : DailyReport(w)} : offset[v] = offset[u]}]
        BY <1>2, <3>1 DEF ScheduleReports
      <4>2. offset[u] \in Offsets /\ Day <= Now + 3 + offset[u]
        BY <4>1, ReportIsOnTime
      <4> QED
        BY <4>1, <4>2
    <3> QED
      BY <3>1
  <2> QED
    BY <2>1, <2>2, <2>3 DEF Types, TypeOK, EventsKept, Now
<1>3. CASE ScheduleFail
  <2>1. faults' \in 0..MaxFaults
    BY <1>3, FaultType DEF ScheduleFail
  <2>2. UNCHANGED <<hour, ticks, jobs, offset, was, turn, daily, anomaly, tx, cancels, bounced,
                    away, offAt, overlapped, time, at, saves, rows, lastActive, mailed, counted>>
        /\ due' = {}
    BY <1>3 DEF ScheduleFail, userVars, clocks, eventVars, mailVars
  <2> QED
    BY <2>1, <2>2 DEF Types, TypeOK, EventsKept
<1>4. CASE ProcessorDies
  <2>1. faults' \in 0..MaxFaults
    BY <1>4, FaultType DEF ProcessorDies
  <2>2. UNCHANGED <<hour, ticks, offset, was, turn, daily, anomaly, tx, cancels, away,
                    offAt, overlapped, time, at, saves, rows, lastActive, mailed, counted>>
        /\ due' = {} /\ bounced' = {}
        /\ jobs' = [s \in Slots |-> IF jobs[s].pc = "waiting" THEN jobs[s] ELSE NoJob]
    BY <1>4 DEF ProcessorDies, clocks, eventVars, mailVars
  <2>3. jobs' \in [Slots -> JobRecords] /\ \A s \in Slots : jobs'[s].pc = "free" => jobs'[s] = NoJob
    BY <2>2, NoJobIs, Parts
  <2> QED
    BY <2>1, <2>2, <2>3 DEF Types, TypeOK, EventsKept, JobRecords
<1> QED
  BY <1>1, <1>2, <1>3, <1>4

LEMMA SlotTypes ==
    ASSUME Types, NEW s \in Slots,
           \/ \E r \in due : ProduceDay(r, s)
           \/ CountActions(s) \/ SelectStopped(s) \/ SendMail(s)
           \/ \E rejected \in SUBSET Users : Delivered(s, rejected)
    PROVE  Types'
<1>1. ASSUME NEW r \in due, ProduceDay(r, s)
      PROVE  Types'
  <2>1. due' \subseteq due
        /\ UNCHANGED <<hour, ticks, userVars, eventVars, mailVars, faults>>
    BY <1>1 DEF ProduceDay
  <2> QED
    BY <1>1, <2>1, ProduceDayIs, JobTypes
<1>2. CASE CountActions(s) \/ SelectStopped(s) \/ SendMail(s)
  <2>1. due' \subseteq due
        /\ UNCHANGED <<hour, ticks, userVars, eventVars, mailVars, faults>>
    BY <1>2 DEF CountActions, SelectStopped, SendMail
  <2>2. \E k \in JobRecords : jobs' = [jobs EXCEPT ![s] = k] /\ k.pc # "free"
    BY <1>2, CountActionsIs, SelectStoppedIs, SendMailIs
  <2> QED
    BY <2>1, <2>2, JobTypes
<1>3. ASSUME NEW rejected \in SUBSET Users, Delivered(s, rejected)
      PROVE  Types'
  <2>1. /\ jobs' = [jobs EXCEPT ![s] = NoJob]
        /\ bounced' = bounced \cup rejected /\ away' = away \cup rejected
        /\ UNCHANGED <<hour, ticks, due, offset, was, turn, daily, anomaly, tx, cancels, offAt,
                       overlapped, time, at, saves, rows, lastActive, faults>>
    BY <1>3 DEF Delivered, clocks, eventVars
  <2>2. /\ jobs' \in [Slots -> JobRecords]
        /\ \A t \in Slots : jobs'[t].pc = "free" => jobs'[t] = NoJob
    BY <2>1, NoJobIs, OneJob
  <2>3. mailed' \in [Users -> [Days -> Nat]]
    <3>1. mailed \in [Users -> [Days -> Nat]]
      BY DEF Types, TypeOK
    <3>2. \A u \in Users, d \in Days :
              mailed[u][d] + (IF u \in jobs[s].to /\ d = jobs[s].day THEN 1 ELSE 0) \in Nat
      BY <3>1
    <3> QED
      BY <1>3, <3>2 DEF Delivered
  <2>4. counted' \in [Users -> [Events -> Nat]]
    <3>1. counted \in [Users -> [Events -> Nat]] /\ jobs[s].count \in [Events -> Nat]
      BY Parts DEF Types, TypeOK, EventsKept, JobRecords
    <3>2. \A u \in Users, e \in Events :
              counted[u][e] + (IF u \in jobs[s].to THEN jobs[s].count[e] ELSE 0) \in Nat
      BY <3>1
    <3> QED
      BY <1>3, <3>2 DEF Delivered
  <2> QED
    BY <2>1, <2>2, <2>3, <2>4 DEF Types, TypeOK, EventsKept, JobRecords, Now
<1> QED
  BY <1>1, <1>2, <1>3

LEMMA EventsAre ==
    ASSUME Types, NEW e \in Events
    PROVE  /\ time[e] \in Int /\ rows[e] \in 0..3 /\ saves[e] \in 0..3
           /\ time[e] = -1 => rows[e] = 0 /\ saves[e] = 3
           /\ saves[e] < 3 => rows[e] <= saves[e]
           /\ at[e] \in Int
  BY Parts DEF Types, EventsKept, MaxSaves

LEMMA NormalizeIs ==
    ASSUME Types, NEW e \in Events, NEW delay \in Delays, NormalizeEvent(e, delay)
    PROVE  /\ time[e] = -1 /\ time' = [time EXCEPT ![e] = Now - delay]
           /\ at' = [at EXCEPT ![e] = Now]
           /\ Now - delay \in Nat /\ rows[e] = 0 /\ saves[e] = 3
           /\ saves' = [saves EXCEPT ![e] = 0] /\ lastActive' = Now
           /\ UNCHANGED <<hour, ticks, due, jobs, userVars, rows, mailVars, faults>>
<1>1. delay \in Int /\ delay <= 4 * FirstHour
  BY ReportsAssumption
<1>2. Now - delay \in Nat
  BY <1>1, Parts
<1> QED
  BY <1>1, <1>2, EventsAre DEF NormalizeEvent, UpsertAction

LEMMA EventStepTypes ==
    ASSUME Types, NEW e \in Events,
           (\E delay \in Delays : NormalizeEvent(e, delay)) \/ SaveActiveActor(e) \/ SaveFail(e)
    PROVE  Types'
<1>1. ASSUME NEW delay \in Delays, NormalizeEvent(e, delay)
      PROVE  Types'
  <2>1. /\ time' \in [Events -> Int] /\ at' \in [Events -> Int]
        /\ saves' \in [Events -> 0..MaxSaves] /\ lastActive' \in Nat
    BY <1>1, NormalizeIs, Parts DEF MaxSaves
  <2>2. EventsKept'
    <3>1. ASSUME NEW x \in Events
          PROVE  /\ time'[x] = -1 => rows'[x] = 0 /\ saves'[x] = 3
                 /\ saves'[x] < 3 => rows'[x] <= saves'[x]
      <4>1. CASE x = e
        BY <1>1, <4>1, NormalizeIs, Parts
      <4>2. CASE x # e
        BY <1>1, <4>2, NormalizeIs, Parts, EventsAre
      <4> QED
        BY <4>1, <4>2
    <3> QED
      BY <3>1 DEF EventsKept, MaxSaves
  <2>3. rows' \in [Events -> 0..MaxSaves] /\ faults' \in 0..MaxFaults
    BY <1>1, NormalizeIs DEF Types, TypeOK
  <2> QED
    BY <1>1, <2>1, <2>2, <2>3, NormalizeIs, EventTypes
<1>2. CASE SaveActiveActor(e) \/ SaveFail(e)
  <2>1. /\ saves[e] < 3 /\ (rows' = rows \/ rows' = [rows EXCEPT ![e] = @ + 1])
        /\ \/ saves' = [saves EXCEPT ![e] = 3]
           \/ saves' = [saves EXCEPT ![e] = @ + 1]
        /\ UNCHANGED faults \/ Fault
        /\ UNCHANGED <<hour, ticks, due, jobs, userVars, time, at, lastActive, mailVars>>
    BY <1>2 DEF SaveActiveActor, SaveFail, MaxSaves
  <2>2. faults' \in 0..MaxFaults
    BY <2>1, FaultType DEF Types, TypeOK
  <2>3. rows[e] <= saves[e] /\ rows[e] \in 0..3 /\ saves[e] \in 0..2 /\ time[e] # -1
    BY <2>1, EventsAre
  <2>4. saves' \in [Events -> 0..3] /\ rows' \in [Events -> 0..3]
    BY <2>1, <2>3, Parts DEF MaxSaves
  <2>5. EventsKept'
    <3>1. ASSUME NEW x \in Events
          PROVE  /\ time'[x] = -1 => rows'[x] = 0 /\ saves'[x] = 3
                 /\ saves'[x] < 3 => rows'[x] <= saves'[x]
      <4>1. CASE x = e
        <5>1. saves'[e] = 3 \/ saves'[e] = saves[e] + 1
          BY <2>1, Parts
        <5>2. rows'[e] \in {rows[e], rows[e] + 1}
          BY <2>1, Parts
        <5> QED
          BY <2>1, <2>3, <4>1, <5>1, <5>2
      <4>2. CASE x # e
        BY <2>1, <4>2, Parts, EventsAre
      <4> QED
        BY <4>1, <4>2
    <3> QED
      BY <3>1 DEF EventsKept, MaxSaves
  <2> QED
    BY <2>1, <2>2, <2>4, <2>5, Parts, EventTypes DEF MaxSaves
<1> QED
  BY <1>1, <1>2

LEMMA SubscriberTypes ==
    ASSUME Types, NEW u \in Users,
           \/ TurnOff(u) \/ TurnOffFail(u)
           \/ \E o \in Offsets \cup {NoZone} : UpdateUser(u, o)
           \/ \E r \in Reports : GetEnvUser(u, r) \/ UpdateEnvUser(u, r)
    PROVE  Types'
<1>1. /\ hour \in Int /\ {} \subseteq Users /\ {u} \subseteq Users
      /\ \A X, Y : (X \subseteq Users /\ Y \subseteq Users) => (X \cup Y) \subseteq Users
  BY Parts
<1>2. CASE TurnOff(u)
  <2>1. offAt' \in [Users -> Int] /\ tx' \in [Users -> BOOLEAN] /\ bounced' \subseteq Users
    BY <1>1, <1>2, UsersAre DEF TurnOff
  <2> QED
    BY <1>2, <2>1, UsersAre, UserTypes DEF TurnOff, clocks
<1>3. CASE TurnOffFail(u)
  <2>1. bounced' \subseteq Users
    BY <1>3, UsersAre DEF TurnOffFail
  <2> QED
    BY <1>3, <2>1, UsersAre, UserTypes DEF TurnOffFail, clocks
<1>4. ASSUME NEW o \in Offsets \cup {NoZone}, UpdateUser(u, o)
      PROVE  Types'
  <2>1. offset' \in [Users -> Offsets \cup {NoZone}] /\ away' \subseteq Users
    BY <1>1, <1>4, UsersAre DEF UpdateUser
  <2> QED
    BY <1>4, <2>1, UsersAre, UserTypes DEF UpdateUser, clocks
<1>5. ASSUME NEW r \in Reports, GetEnvUser(u, r)
      PROVE  Types'
  <2>1. cancels' \in [Users \X Reports -> {"none", "otherOn", "otherOff", "done"}]
    BY <1>5, UsersAre DEF GetEnvUser
  <2>2. overlapped' \subseteq Users
    BY <1>1, <1>5, UsersAre DEF GetEnvUser
  <2> QED
    BY <1>5, <2>1, <2>2, UsersAre, UserTypes DEF GetEnvUser, clocks
<1>6. ASSUME NEW r \in Reports, UpdateEnvUser(u, r)
      PROVE  Types'
  <2>1. cancels' \in [Users \X Reports -> {"none", "otherOn", "otherOff", "done"}]
    BY <1>6, UsersAre DEF UpdateEnvUser
  <2>2. daily' \in [Users -> BOOLEAN] /\ anomaly' \in [Users -> BOOLEAN]
    <3>1. /\ (r = "anomaly" /\ cancels[<<u, r>>] = "otherOn") \in BOOLEAN
          /\ (r = "daily" /\ cancels[<<u, r>>] = "otherOn") \in BOOLEAN
      OBVIOUS
    <3> QED
      BY <1>6, <3>1, UsersAre, Zenon DEF UpdateEnvUser
  <2>3. offAt' \in [Users -> Int] /\ away' \subseteq Users
    <3>1. \A x \in Int : [offAt EXCEPT ![u] = x] \in [Users -> Int]
      BY UsersAre
    <3>2. \E x \in Int : offAt' = [offAt EXCEPT ![u] = x]
      <4>1. offAt' = [offAt EXCEPT ![u] = IF daily'[u] THEN IF tx[u] THEN -1 ELSE offAt[u]
                                          ELSE hour]
        BY <1>6 DEF UpdateEnvUser
      <4>2. offAt[u] \in Int
        BY UsersAre
      <4>3. (IF daily'[u] THEN IF tx[u] THEN -1 ELSE offAt[u] ELSE hour) \in Int
        BY <1>1, <4>2
      <4> QED
        BY <4>1, <4>3
    <3>3. away' \subseteq Users
      BY <1>1, <1>6, UsersAre DEF UpdateEnvUser
    <3> QED
      BY <3>1, <3>2, <3>3
  <2> QED
    BY <1>6, <2>1, <2>2, <2>3, UsersAre, UserTypes DEF UpdateEnvUser, clocks
<1> QED
  BY <1>2, <1>3, <1>4, <1>5, <1>6

\* Clocks change between the reports of two days, and so of no report on its way.
LEMMA ClocksAre ==
    ASSUME Types, NEW u \in Users, NEW o \in Offsets, ClocksChange(u, o)
    PROVE  /\ faults = 0 /\ ticks = 0 /\ due = {}
           /\ \A s \in Slots : jobs[s].pc = "free" /\ jobs[s].to = {}
           /\ u \notin away /\ was[u] = offset[u]
           /\ offset' = [offset EXCEPT ![u] = o] /\ offset'[u] = o
           /\ \A v \in Users \ {u} : offset'[v] = offset[v] /\ turn'[v] = turn[v]
           /\ turn' \in [Users -> Int]
           /\ \E D \in Int : /\ turn'[u] = D - 1
                              /\ Now + offset[u] \in (96 * D - 8)..(96 * D + 15)
                              /\ o - offset[u] \in -4..4
           /\ UNCHANGED <<hour, ticks, due, jobs, was, daily, anomaly, tx, cancels, bounced,
                          away, offAt, overlapped, eventVars, mailVars, faults>>
<1> DEFINE D == (Now + offset[u] + 8) \div 96
<1>1. Now \in Int /\ offset[u] \in Int /\ offset \in [Users -> Offsets \cup {NoZone}]
      /\ turn \in [Users -> Int]
  <2>1. Offsets \cup {NoZone} \subseteq Int
    BY ReportsAssumption
  <2> QED
    BY <2>1, Parts, UsersAre
<1>2. /\ offset' = [offset EXCEPT ![u] = o] /\ turn' = [turn EXCEPT ![u] = D - 1]
      /\ (Now + offset[u] + 8) % 96 < 24 /\ o - offset[u] \in -4..4
      /\ Idle /\ faults = 0 /\ u \notin away /\ was[u] = offset[u]
  BY Zenon DEF ClocksChange, Day
<1>3. UNCHANGED <<hour, ticks, due, jobs, was, daily, anomaly, tx, cancels, bounced,
                  away, offAt, overlapped, eventVars, mailVars, faults>>
  BY Zenon DEF ClocksChange
<1>4. /\ ticks = 0 /\ due = {} /\ \A s \in Slots : jobs[s].pc = "free" /\ jobs[s].to = {}
  BY <1>2, NoJobIs, Parts DEF Idle
<1>5. D \in Int /\ Now + offset[u] \in (96 * D - 8)..(96 * D + 15)
  BY <1>1, <1>2
<1> HIDE DEF D
<1>6. /\ offset'[u] = o /\ turn'[u] = D - 1 /\ turn' \in [Users -> Int]
      /\ \A v \in Users \ {u} : offset'[v] = offset[v] /\ turn'[v] = turn[v]
  BY <1>1, <1>2, <1>5
<1> QED
  BY <1>2, <1>4, <1>5, <1>6, <1>3

LEMMA ClocksTypes ==
    ASSUME Types, NEW u \in Users, NEW o \in Offsets, ClocksChange(u, o)
    PROVE  Types'
<1>1. offset' \in [Users -> Offsets \cup {NoZone}] /\ turn' \in [Users -> Int]
  BY ClocksAre, UsersAre
<1>2. UNCHANGED <<hour, ticks, due, jobs, was, daily, anomaly, tx, cancels, bounced,
                  away, offAt, overlapped, eventVars, mailVars, faults>>
  BY ClocksAre
<1> QED
  BY <1>1, <1>2, UsersAre, UserTypes

LEMMA TypesInit == Init => Types
<1> SUFFICES ASSUME Init
             PROVE  Types
  OBVIOUS
<1>1. /\ FirstHour \in Nat /\ FirstHour >= 24 /\ LastHour \in Nat /\ MaxFaults \in Nat
  BY ReportsAssumption
<1>2. FirstHour <= LastHour
  BY ReportsAssumption
<1> QED
  BY <1>1, <1>2, NoJobIs DEF Init, Types, TypeOK, EventsKept, JobRecords, NoCount, Now, MaxSaves

LEMMA TypesStep == Types /\ [Next]_vars => Types'
<1> SUFFICES ASSUME Types, [Next]_vars
             PROVE  Types'
  OBVIOUS
<1>1. CASE UNCHANGED vars
  BY <1>1 DEF vars, userVars, clocks, eventVars, mailVars, Types, TypeOK, EventsKept, Now
<1>2. CASE HourPasses \/ ScheduleReports \/ ScheduleFail \/ ProcessorDies
  BY <1>2, ReportTypes
<1>3. ASSUME NEW s \in Slots,
             \/ \E r \in due : ProduceDay(r, s)
             \/ CountActions(s) \/ SelectStopped(s) \/ SendMail(s)
             \/ \E rejected \in SUBSET Users : Delivered(s, rejected)
      PROVE  Types'
  BY <1>3, SlotTypes
<1>4. ASSUME NEW e \in Events,
             (\E delay \in Delays : NormalizeEvent(e, delay)) \/ SaveActiveActor(e) \/ SaveFail(e)
      PROVE  Types'
  BY <1>4, EventStepTypes
<1>5. ASSUME NEW u \in Users,
             \/ TurnOff(u) \/ TurnOffFail(u)
             \/ \E o \in Offsets \cup {NoZone} : UpdateUser(u, o)
             \/ \E r \in Reports : GetEnvUser(u, r) \/ UpdateEnvUser(u, r)
      PROVE  Types'
  BY <1>5, SubscriberTypes
<1>6. ASSUME NEW u \in Users, NEW o \in Offsets, ClocksChange(u, o)
      PROVE  Types'
  BY <1>6, ClocksTypes
<1> QED
  BY <1>1, <1>2, <1>3, <1>4, <1>5, <1>6 DEF Next

LEMMA TypesAlways == Spec => []Types
  BY TypesInit, TypesStep, PTL DEF Spec

\* Types are kept, and nothing is due, or asked about, for a day that is not over.
THEOREM DailyTypes == Spec => []TypeOK
<1>1. Types => TypeOK
  BY DEF Types
<1> QED
  BY <1>1, TypesAlways, PTL

-----------------------------------------------------------------------------
(* Subscriptions *)

\* A cancelled report is off, and a cancellation that read the other report as on
\* is alone with it.
Cancels ==
    \A u \in Users \ overlapped : \A r \in Reports :
        /\ cancels[<<u, r>>] = "done" => ~ Flag(r)[u]
        /\ cancels[<<u, r>>] = "otherOn" => cancels[<<u, Other(r)>>] = "none"

\* What is due, and on its way, to those who are off was made within the hour.
Late ==
    /\ \A u \in Users : offAt[u] # -1 => ~ daily[u] \/ ~ tx[u]
    /\ faults = 0 =>
        /\ \A r \in due : \A u \in r.to : offAt[u] # -1 => offAt[u] >= hour
        /\ \A s \in Slots : \A u \in jobs[s].to : offAt[u] # -1 => offAt[u] >= hour

LEMMA OthersAre ==
    /\ \A r \in Reports : r \in {"daily", "anomaly"} /\ Other(r) \in Reports /\ Other(r) # r
    /\ Other("daily") = "anomaly" /\ Other("anomaly") = "daily"
    /\ Flag("daily") = daily /\ Flag("anomaly") = anomaly
  BY DEF Other, Flag, Reports

LEMMA CancelsFrame ==
    Cancels /\ UNCHANGED <<daily, anomaly, cancels, overlapped>> => Cancels'
<1> SUFFICES ASSUME Cancels, UNCHANGED <<daily, anomaly, cancels, overlapped>>
             PROVE  Cancels'
  OBVIOUS
<1>1. \A r \in Reports : Flag(r)' = Flag(r)
  BY DEF Flag
<1>2. ASSUME NEW u \in Users \ overlapped', NEW r \in Reports
      PROVE  /\ cancels'[<<u, r>>] = "done" => ~ Flag(r)'[u]
             /\ cancels'[<<u, r>>] = "otherOn" => cancels'[<<u, Other(r)>>] = "none"
  BY <1>1 DEF Cancels
<1> QED
  BY <1>2 DEF Cancels

LEMMA GetCancels ==
    ASSUME Types, Cancels, NEW u \in Users, NEW r \in Reports, GetEnvUser(u, r)
    PROVE  Cancels'
<1>1. /\ cancels[<<u, r>>] = "none"
      /\ cancels' = [cancels EXCEPT ![<<u, r>>] = IF Flag(Other(r))[u] THEN "otherOn"
                                                  ELSE "otherOff"]
      /\ overlapped \subseteq overlapped'
      /\ cancels[<<u, Other(r)>>] \in {"otherOn", "otherOff"} => u \in overlapped'
      /\ UNCHANGED <<daily, anomaly>>
  BY DEF GetEnvUser
<1>2. cancels \in [Users \X Reports -> {"none", "otherOn", "otherOff", "done"}]
  BY UsersAre
<1>3. cancels'[<<u, r>>] = IF Flag(Other(r))[u] THEN "otherOn" ELSE "otherOff"
  BY <1>1, <1>2
<1>4. \A v \in Users, q \in Reports :
          <<v, q>> # <<u, r>> => cancels'[<<v, q>>] = cancels[<<v, q>>]
  BY <1>1, <1>2
<1>5. \A q \in Reports : Flag(q)' = Flag(q)
  BY <1>1 DEF Flag
<1>6. ASSUME NEW v \in Users \ overlapped', NEW q \in Reports
      PROVE  /\ cancels'[<<v, q>>] = "done" => ~ Flag(q)'[v]
             /\ cancels'[<<v, q>>] = "otherOn" => cancels'[<<v, Other(q)>>] = "none"
  <2>1. v \in Users \ overlapped
    BY <1>1, <1>6
  <2>2. CASE v = u /\ q = r
    <3>1. cancels'[<<v, Other(q)>>] = cancels[<<v, Other(q)>>] /\ Other(q) \in Reports
      BY <1>4, <2>2, OthersAre
    <3>2. ASSUME cancels'[<<v, q>>] = "otherOn"
          PROVE  cancels[<<v, Other(q)>>] = "none"
      <4>1. Flag(Other(q))[v]
        BY <1>3, <2>2, <3>2
      <4>2. cancels[<<v, Other(q)>>] # "done"
        BY <2>1, <3>1, <4>1 DEF Cancels
      <4>3. cancels[<<v, Other(q)>>] \notin {"otherOn", "otherOff"}
        BY <1>1, <1>6, <2>2
      <4> QED
        BY <1>2, <3>1, <4>2, <4>3
    <3>3. cancels'[<<v, q>>] # "done"
      BY <1>3, <2>2
    <3> QED
      BY <3>1, <3>2, <3>3
  <2>3. CASE v = u /\ q # r
    <3>1. q = Other(r) /\ r = Other(q)
      BY <2>3, OthersAre
    <3>2. cancels'[<<v, q>>] = cancels[<<v, q>>]
      BY <1>4, <2>3
    <3>3. cancels[<<v, q>>] # "otherOn"
      BY <1>1, <1>6, <2>3, <3>1
    <3>4. cancels[<<v, q>>] = "done" => ~ Flag(q)[v]
      BY <2>1 DEF Cancels
    <3> QED
      BY <1>5, <3>2, <3>3, <3>4
  <2>4. CASE v # u
    <3>1. /\ cancels'[<<v, q>>] = cancels[<<v, q>>]
          /\ cancels'[<<v, Other(q)>>] = cancels[<<v, Other(q)>>]
      BY <1>4, <2>4, OthersAre
    <3>2. /\ cancels[<<v, q>>] = "done" => ~ Flag(q)[v]
          /\ cancels[<<v, q>>] = "otherOn" => cancels[<<v, Other(q)>>] = "none"
      BY <2>1 DEF Cancels
    <3> QED
      BY <1>5, <3>1, <3>2
  <2> QED
    BY <2>2, <2>3, <2>4
<1> QED
  BY <1>6 DEF Cancels

LEMMA UpdateCancels ==
    ASSUME Types, Cancels, NEW u \in Users, NEW r \in Reports, UpdateEnvUser(u, r)
    PROVE  Cancels'
<1>1. /\ cancels[<<u, r>>] \in {"otherOn", "otherOff"}
      /\ daily' = [daily EXCEPT ![u] = (r = "anomaly" /\ cancels[<<u, r>>] = "otherOn")]
      /\ anomaly' = [anomaly EXCEPT ![u] = (r = "daily" /\ cancels[<<u, r>>] = "otherOn")]
      /\ cancels' = [cancels EXCEPT ![<<u, r>>] = "done"]
      /\ overlapped' = overlapped
  BY DEF UpdateEnvUser
<1>2. /\ cancels \in [Users \X Reports -> {"none", "otherOn", "otherOff", "done"}]
      /\ DOMAIN daily = Users /\ DOMAIN anomaly = Users
  BY UsersAre
<1>3. cancels'[<<u, r>>] = "done"
  BY <1>1, <1>2
<1>4. \A v \in Users, q \in Reports :
          <<v, q>> # <<u, r>> => cancels'[<<v, q>>] = cancels[<<v, q>>]
  BY <1>1, <1>2
<1>5. \A v \in Users \ {u} : daily'[v] = daily[v] /\ anomaly'[v] = anomaly[v]
  BY <1>1, <1>2, Zenon
<1>6. /\ daily'[u] = (r = "anomaly" /\ cancels[<<u, r>>] = "otherOn")
      /\ anomaly'[u] = (r = "daily" /\ cancels[<<u, r>>] = "otherOn")
  BY <1>1, <1>2, Zenon
<1>7. /\ ~ Flag(r)'[u]
      /\ Flag(Other(r))'[u] = (cancels[<<u, r>>] = "otherOn")
  <2>1. CASE r = "daily"
    <3>1. Flag(r)' = daily' /\ Flag(Other(r))' = anomaly'
      BY <2>1 DEF Flag, Other
    <3> QED
      BY <1>6, <2>1, <3>1
  <2>2. CASE r = "anomaly"
    <3>1. Flag(r)' = anomaly' /\ Flag(Other(r))' = daily'
      BY <2>2 DEF Flag, Other
    <3> QED
      BY <1>6, <2>2, <3>1
  <2> QED
    BY <2>1, <2>2, OthersAre
<1>8. \A q \in Reports, v \in Users \ {u} : Flag(q)'[v] = Flag(q)[v]
  BY <1>5 DEF Flag
<1>9. ASSUME NEW v \in Users \ overlapped', NEW q \in Reports
      PROVE  /\ cancels'[<<v, q>>] = "done" => ~ Flag(q)'[v]
             /\ cancels'[<<v, q>>] = "otherOn" => cancels'[<<v, Other(q)>>] = "none"
  <2>1. v \in Users \ overlapped
    BY <1>1, <1>9
  <2>2. CASE v = u /\ q = r
    BY <1>3, <1>7, <2>2
  <2>3. CASE v = u /\ q # r
    <3>1. q = Other(r) /\ r = Other(q)
      BY <2>3, OthersAre
    <3>2. cancels'[<<v, q>>] = cancels[<<v, q>>]
      BY <1>4, <2>3
    <3>3. cancels[<<v, q>>] # "otherOn"
      BY <1>1, <2>1, <2>3, <3>1 DEF Cancels
    <3>4. ASSUME cancels[<<v, q>>] = "done"
          PROVE  cancels[<<u, r>>] # "otherOn"
      BY <2>1, <2>3, <3>1, <3>4 DEF Cancels
    <3>5. cancels[<<v, q>>] = "done" => ~ Flag(q)'[v]
      BY <1>7, <2>3, <3>1, <3>4
    <3> QED
      BY <3>2, <3>3, <3>5
  <2>4. CASE v # u
    <3>1. /\ cancels'[<<v, q>>] = cancels[<<v, q>>]
          /\ cancels'[<<v, Other(q)>>] = cancels[<<v, Other(q)>>]
      BY <1>4, <2>4, OthersAre
    <3>2. /\ cancels[<<v, q>>] = "done" => ~ Flag(q)[v]
          /\ cancels[<<v, q>>] = "otherOn" => cancels[<<v, Other(q)>>] = "none"
      BY <2>1 DEF Cancels
    <3> QED
      BY <1>8, <2>4, <3>1, <3>2
  <2> QED
    BY <2>2, <2>3, <2>4
<1> QED
  BY <1>9 DEF Cancels

LEMMA CancelsStep == Types /\ Cancels /\ [Next]_vars => Cancels'
<1> SUFFICES ASSUME Types, Cancels, [Next]_vars
             PROVE  Cancels'
  OBVIOUS
<1>1. CASE UNCHANGED vars
  BY <1>1, CancelsFrame DEF vars, userVars, clocks
<1>2. CASE HourPasses \/ ScheduleReports \/ ScheduleFail \/ ProcessorDies
  BY <1>2, CancelsFrame DEF HourPasses, ScheduleReports, ScheduleFail, ProcessorDies, userVars, clocks
<1>3. ASSUME NEW s \in Slots,
             \/ \E r \in due : ProduceDay(r, s)
             \/ CountActions(s) \/ SelectStopped(s) \/ SendMail(s)
             \/ \E rejected \in SUBSET Users : Delivered(s, rejected)
      PROVE  Cancels'
  BY <1>3, CancelsFrame
     DEF ProduceDay, CountActions, SelectStopped, SendMail, Delivered, userVars, clocks
<1>4. ASSUME NEW e \in Events,
             (\E delay \in Delays : NormalizeEvent(e, delay)) \/ SaveActiveActor(e) \/ SaveFail(e)
      PROVE  Cancels'
  BY <1>4, CancelsFrame DEF NormalizeEvent, SaveActiveActor, SaveFail, userVars, clocks
<1>5. ASSUME NEW u \in Users,
             \/ TurnOff(u) \/ TurnOffFail(u)
             \/ \E o \in Offsets \cup {NoZone} : UpdateUser(u, o)
             \/ \E r \in Reports : GetEnvUser(u, r) \/ UpdateEnvUser(u, r)
      PROVE  Cancels'
  BY <1>5, CancelsFrame, GetCancels, UpdateCancels DEF TurnOff, TurnOffFail, UpdateUser
<1>6. ASSUME NEW u \in Users, NEW o \in Offsets, ClocksChange(u, o)
      PROVE  Cancels'
  BY <1>6, ClocksAre, CancelsFrame
<1> QED
  BY <1>1, <1>2, <1>3, <1>4, <1>5, <1>6 DEF Next

\* A report that somebody cancelled stays off, unless their two cancellations overlap.
THEOREM CancelledStays == Spec => []CancelledForGood
<1>1. Init => Cancels
  BY OthersAre DEF Init, Cancels
<1>2. Cancels => CancelledForGood
  BY DEF Cancels, CancelledForGood
<1> QED
  BY <1>1, <1>2, CancelsStep, TypesAlways, PTL DEF Spec

-----------------------------------------------------------------------------
(* Mails *)

\* Who is off is seen as off, and whatever is made stays with whom it was made for.
LEMMA LateFrame ==
    ASSUME Late, UNCHANGED <<daily, tx, offAt, hour>>, due' \subseteq due,
           faults' = 0 => faults = 0,
           \A s \in Slots : \/ jobs'[s].to \subseteq jobs[s].to
                            \/ \E r \in due : jobs'[s].to \subseteq r.to
    PROVE  Late'
<1>1. \A u \in Users : offAt'[u] # -1 => ~ daily'[u] \/ ~ tx'[u]
  BY DEF Late
<1>2. ASSUME faults' = 0
      PROVE  /\ \A r \in due' : \A u \in r.to : offAt'[u] # -1 => offAt'[u] >= hour'
             /\ \A s \in Slots : \A u \in jobs'[s].to : offAt'[u] # -1 => offAt'[u] >= hour'
  <2>1. /\ \A r \in due : \A u \in r.to : offAt[u] # -1 => offAt[u] >= hour
        /\ \A s \in Slots : \A u \in jobs[s].to : offAt[u] # -1 => offAt[u] >= hour
    BY <1>2 DEF Late
  <2> QED
    BY <2>1
<1> QED
  BY <1>1, <1>2 DEF Late

\* One user is off from now on, or as before, or on.
LEMMA LateUser ==
    ASSUME Types, Late, NEW u \in Users, UNCHANGED <<hour, due, jobs, faults>>,
           \A v \in Users \ {u} :
              daily'[v] = daily[v] /\ tx'[v] = tx[v] /\ offAt'[v] = offAt[v],
           offAt'[u] \in {-1, hour, offAt[u]},
           offAt'[u] # -1 => ~ daily'[u] \/ ~ tx'[u]
    PROVE  Late'
<1>1. hour >= hour /\ \A r \in due : r.to \subseteq Users
  BY Parts
<1>2. \A s \in Slots : jobs[s].to \subseteq Users
  BY Parts DEF JobRecords
<1>3. \A v \in Users : offAt'[v] # -1 => ~ daily'[v] \/ ~ tx'[v]
  BY DEF Late
<1>4. ASSUME faults' = 0
      PROVE  /\ \A r \in due' : \A v \in r.to : offAt'[v] # -1 => offAt'[v] >= hour'
             /\ \A s \in Slots : \A v \in jobs'[s].to : offAt'[v] # -1 => offAt'[v] >= hour'
  <2>1. /\ \A r \in due : \A v \in r.to : offAt[v] # -1 => offAt[v] >= hour
        /\ \A s \in Slots : \A v \in jobs[s].to : offAt[v] # -1 => offAt[v] >= hour
    BY <1>4 DEF Late
  <2>2. ASSUME NEW v \in Users, offAt[v] # -1 => offAt[v] >= hour
        PROVE  offAt'[v] # -1 => offAt'[v] >= hour'
    BY <1>1, <2>2
  <2> QED
    BY <1>1, <1>2, <2>1, <2>2
<1> QED
  BY <1>3, <1>4 DEF Late

LEMMA LateReports ==
    ASSUME Types, Late, HourPasses \/ ScheduleReports \/ ScheduleFail \/ ProcessorDies
    PROVE  Late'
<1>1. faults \in Nat
  BY ReportsAssumption DEF Types, TypeOK
<1>2. CASE UNCHANGED <<daily, tx, offAt>> /\ Fault
  <2>1. faults' # 0
    BY <1>1, <1>2 DEF Fault
  <2>2. \A u \in Users : offAt'[u] # -1 => ~ daily'[u] \/ ~ tx'[u]
    BY <1>2 DEF Late
  <2> QED
    BY <2>1, <2>2 DEF Late
<1>3. CASE HourPasses /\ ~ Fault
  <2>1. /\ due' = {} /\ \A s \in Slots : jobs'[s].pc = "free"
        /\ UNCHANGED <<daily, tx, offAt, jobs>>
    BY <1>3 DEF HourPasses, Idle, userVars, clocks
  <2>2. \A s \in Slots : jobs'[s].to = {}
    BY <2>1, NoJobIs, Parts
  <2>3. \A u \in Users : offAt'[u] # -1 => ~ daily'[u] \/ ~ tx'[u]
    BY <2>1 DEF Late
  <2> QED
    BY <2>1, <2>2, <2>3 DEF Late
<1>4. CASE ScheduleReports
  <2>1. UNCHANGED <<daily, tx, offAt, hour, jobs, faults>>
    BY <1>4 DEF ScheduleReports, userVars, clocks
  <2>2. ASSUME NEW r \in due', NEW v \in r.to
        PROVE  offAt[v] = -1
    <3>1. \A w \in Users : DailyReport(w) => daily[w] /\ tx[w]
      BY DEF DailyReport
    <3>2. v \in Users /\ DailyReport(v)
      BY <1>4, <2>2 DEF ScheduleReports
    <3> QED
      BY <3>1, <3>2 DEF Late
  <2>3. \A u \in Users : offAt'[u] # -1 => ~ daily'[u] \/ ~ tx'[u]
    BY <2>1 DEF Late
  <2> QED
    BY <2>1, <2>2, <2>3 DEF Late
<1>5. CASE ScheduleFail
  BY <1>2, <1>5 DEF ScheduleFail, userVars, clocks
<1>6. CASE ProcessorDies
  BY <1>2, <1>6 DEF ProcessorDies
<1>7. CASE HourPasses /\ Fault
  BY <1>2, <1>7 DEF HourPasses, userVars, clocks
<1> QED
  BY <1>3, <1>4, <1>5, <1>6, <1>7

LEMMA LateSlots ==
    ASSUME Types, Late, NEW s \in Slots,
           \/ \E r \in due : ProduceDay(r, s)
           \/ CountActions(s) \/ SelectStopped(s) \/ SendMail(s)
           \/ \E rejected \in SUBSET Users : Delivered(s, rejected)
    PROVE  Late'
<1>1. ASSUME NEW r \in due, ProduceDay(r, s)
      PROVE  Late'
  <2>1. due' \subseteq due /\ UNCHANGED <<daily, tx, offAt, hour, faults>>
    BY <1>1 DEF ProduceDay, userVars, clocks
  <2>2. PICK k \in JobRecords : /\ jobs' = [jobs EXCEPT ![s] = k]
                                /\ k.pc = "waiting" /\ k.to = r.to
    BY <1>1, ProduceDayIs
  <2>3. jobs'[s].to = r.to /\ \A t \in Slots \ {s} : jobs'[t] = jobs[t]
    BY <2>2, OneJob
  <2> QED
    BY <2>1, <2>3, LateFrame
<1>2. CASE CountActions(s) \/ SelectStopped(s) \/ SendMail(s)
  <2>1. due' \subseteq due /\ UNCHANGED <<daily, tx, offAt, hour, faults>>
    BY <1>2 DEF CountActions, SelectStopped, SendMail, userVars, clocks
  <2>2. PICK k \in JobRecords : /\ jobs' = [jobs EXCEPT ![s] = k]
                                /\ k.pc # "free" /\ k.to = jobs[s].to
    BY <1>2, CountActionsIs, SelectStoppedIs, SendMailIs
  <2>3. jobs'[s].to = jobs[s].to /\ \A t \in Slots \ {s} : jobs'[t] = jobs[t]
    BY <2>2, OneJob
  <2> QED
    BY <2>1, <2>3, LateFrame
<1>3. ASSUME NEW rejected \in SUBSET Users, Delivered(s, rejected)
      PROVE  Late'
  <2>1. /\ due' \subseteq due /\ UNCHANGED <<daily, tx, offAt, hour, faults>>
        /\ jobs' = [jobs EXCEPT ![s] = NoJob]
    BY <1>3 DEF Delivered
  <2>2. jobs'[s].to = {} /\ \A t \in Slots \ {s} : jobs'[t] = jobs[t]
    BY <2>1, NoJobIs, OneJob
  <2> QED
    BY <2>1, <2>2, LateFrame
<1> QED
  BY <1>1, <1>2, <1>3

LEMMA LateUsers ==
    ASSUME Types, Late, NEW u \in Users,
           \/ TurnOff(u) \/ TurnOffFail(u)
           \/ \E o \in Offsets \cup {NoZone} : UpdateUser(u, o)
           \/ \E r \in Reports : GetEnvUser(u, r) \/ UpdateEnvUser(u, r)
    PROVE  Late'
<1>1. /\ DOMAIN daily = Users /\ DOMAIN tx = Users /\ DOMAIN offAt = Users
  BY UsersAre
<1>2. CASE TurnOff(u)
  <2>1. /\ tx' = [tx EXCEPT ![u] = FALSE]
        /\ offAt' = [offAt EXCEPT ![u] = IF offAt[u] = -1 THEN hour ELSE offAt[u]]
        /\ UNCHANGED <<daily, hour, due, jobs, faults>>
    BY <1>2 DEF TurnOff
  <2>2. /\ tx'[u] = FALSE /\ \A v \in Users \ {u} : tx'[v] = tx[v]
        /\ offAt'[u] \in {hour, offAt[u]} /\ \A v \in Users \ {u} : offAt'[v] = offAt[v]
    BY <1>1, <2>1, Zenon
  <2> QED
    BY <2>1, <2>2, LateUser
<1>3. CASE UNCHANGED <<daily, tx, offAt, hour, due, jobs, faults>>
  BY <1>3, LateFrame
<1>4. ASSUME NEW r \in Reports, UpdateEnvUser(u, r)
      PROVE  Late'
  <2>1. /\ daily' = [daily EXCEPT ![u] = (r = "anomaly" /\ cancels[<<u, r>>] = "otherOn")]
        /\ offAt' = [offAt EXCEPT ![u] = IF daily'[u] THEN IF tx[u] THEN -1 ELSE offAt[u]
                                         ELSE hour]
        /\ UNCHANGED <<tx, hour, due, jobs, faults>>
    BY <1>4 DEF UpdateEnvUser
  <2>2. /\ \A v \in Users \ {u} : daily'[v] = daily[v] /\ offAt'[v] = offAt[v]
        /\ offAt'[u] = IF daily'[u] THEN IF tx[u] THEN -1 ELSE offAt[u] ELSE hour
    BY <1>1, <2>1, Zenon
  <2> QED
    BY <2>1, <2>2, LateUser
<1>5. CASE TurnOffFail(u)
  BY <1>3, <1>5 DEF TurnOffFail, eventVars
<1>6. ASSUME NEW o \in Offsets \cup {NoZone}, UpdateUser(u, o)
      PROVE  Late'
  BY <1>3, <1>6 DEF UpdateUser
<1>7. ASSUME NEW r \in Reports, GetEnvUser(u, r)
      PROVE  Late'
  BY <1>3, <1>7 DEF GetEnvUser
<1> QED
  BY <1>2, <1>4, <1>5, <1>6, <1>7

LEMMA LateStep == Types /\ Late /\ [Next]_vars => Late'
<1> SUFFICES ASSUME Types, Late, [Next]_vars
             PROVE  Late'
  OBVIOUS
<1>1. CASE UNCHANGED vars
  BY <1>1, LateFrame DEF vars, userVars, clocks
<1>2. CASE HourPasses \/ ScheduleReports \/ ScheduleFail \/ ProcessorDies
  BY <1>2, LateReports
<1>3. ASSUME NEW s \in Slots,
             \/ \E r \in due : ProduceDay(r, s)
             \/ CountActions(s) \/ SelectStopped(s) \/ SendMail(s)
             \/ \E rejected \in SUBSET Users : Delivered(s, rejected)
      PROVE  Late'
  BY <1>3, LateSlots
<1>4. ASSUME NEW e \in Events,
             (\E delay \in Delays : NormalizeEvent(e, delay)) \/ SaveActiveActor(e) \/ SaveFail(e)
      PROVE  Late'
  <2>1. UNCHANGED <<daily, tx, offAt, hour, due, jobs>>
    BY <1>4 DEF NormalizeEvent, SaveActiveActor, SaveFail, userVars, clocks
  <2>2. UNCHANGED faults \/ Fault
    BY <1>4 DEF NormalizeEvent, SaveActiveActor, SaveFail
  <2>3. faults' = 0 => faults = 0
    BY <2>2, ReportsAssumption DEF Fault, Types, TypeOK
  <2> QED
    BY <2>1, <2>3, LateFrame
<1>5. ASSUME NEW u \in Users,
             \/ TurnOff(u) \/ TurnOffFail(u)
             \/ \E o \in Offsets \cup {NoZone} : UpdateUser(u, o)
             \/ \E r \in Reports : GetEnvUser(u, r) \/ UpdateEnvUser(u, r)
      PROVE  Late'
  BY <1>5, LateUsers
<1>6. ASSUME NEW u \in Users, NEW o \in Offsets, ClocksChange(u, o)
      PROVE  Late'
  BY <1>6, ClocksAre, LateFrame
<1> QED
  BY <1>1, <1>2, <1>3, <1>4, <1>5, <1>6 DEF Next

\* Without a fault, a mail that reaches someone who is off was scheduled before they
\* turned it off, in the same hour.
THEOREM LateIsWithinTheHour == Spec => []NoLateMail
<1>1. Init => Late
  BY NoJobIs DEF Init, Late
<1>2. Types /\ Late => NoLateMail
  BY DEF Late, NoLateMail
<1> QED
  BY <1>1, <1>2, LateStep, TypesAlways, PTL DEF Spec

-----------------------------------------------------------------------------
(* Stopped actions *)

\* The action was active when each of its events was normalized, and so since the
\* beginning of the range if one that is counted was of a time that had come; it is
\* asked about once they are counted.
Stops ==
    /\ lastActive <= Now /\ \A e \in Events : at[e] <= lastActive
    /\ \A s \in Slots :
        /\ jobs[s].pc \in {"waiting", "counted"} => ~ jobs[s].stopped
        /\ \A e \in Events :
              /\ jobs[s].stopped => jobs[s].count[e] = 0 \/ time[e] > at[e]
              /\ jobs[s].count[e] # 0 =>
                    /\ rows[e] # 0
                    /\ time[e] <= at[e] => jobs[s].day * 96 + jobs[s].offset <= lastActive

LEMMA JobIs ==
    ASSUME Types, NEW s \in Slots
    PROVE  /\ jobs[s] \in JobRecords /\ jobs[s].day \in Nat /\ jobs[s].offset \in Int
           /\ jobs[s].count \in [Events -> Nat] /\ jobs[s].stopped \in BOOLEAN
           /\ jobs[s].to \subseteq Users
<1>1. jobs[s] \in JobRecords /\ Offsets \cup {0} \subseteq Int
  BY Parts
<1>2. Days \subseteq Nat
  BY Parts DEF Days
<1> QED
  BY <1>1, <1>2 DEF JobRecords

\* What has to be said of the job that a step changes.
StopsAt(j) ==
    /\ j.pc \in {"waiting", "counted"} => ~ j.stopped
    /\ \A e \in Events :
          /\ j.stopped => j.count[e] = 0 \/ time[e] > at[e]
          /\ j.count[e] # 0 =>
                rows[e] # 0 /\ (time[e] <= at[e] => j.day * 96 + j.offset <= lastActive)

LEMMA StopsJob ==
    ASSUME Types, Stops, NEW s \in Slots, NEW k \in JobRecords, jobs' = [jobs EXCEPT ![s] = k],
           StopsAt(k), UNCHANGED <<hour, time, at, rows, lastActive>>
    PROVE  Stops'
<1>1. jobs'[s] = k /\ \A t \in Slots \ {s} : jobs'[t] = jobs[t]
  BY Parts
<1>2. \A t \in Slots : StopsAt(jobs'[t])
  BY <1>1 DEF Stops, StopsAt
<1>3. Now' = Now
  BY DEF Now
<1> QED
  BY <1>2, <1>3 DEF Stops, StopsAt

LEMMA StopsSlots ==
    ASSUME Types, Stops, NEW s \in Slots,
           \/ \E r \in due : ProduceDay(r, s)
           \/ CountActions(s) \/ SelectStopped(s) \/ SendMail(s)
           \/ \E rejected \in SUBSET Users : Delivered(s, rejected)
    PROVE  Stops'
<1>1. UNCHANGED <<hour, time, at, rows, lastActive>>
  BY DEF ProduceDay, CountActions, SelectStopped, SendMail, Delivered, eventVars
<1>2. StopsAt(jobs[s])
  BY DEF Stops, StopsAt
<1>3. ASSUME NEW r \in due, ProduceDay(r, s)
      PROVE  Stops'
  <2>1. PICK k \in JobRecords : /\ jobs' = [jobs EXCEPT ![s] = k]
                                /\ k.count = NoCount /\ k.stopped = FALSE
    BY <1>3, ProduceDayIs
  <2>2. StopsAt(k)
    BY <2>1 DEF StopsAt, NoCount
  <2> QED
    BY <1>1, <2>1, <2>2, StopsJob
<1>4. CASE CountActions(s)
  <2>1. PICK k \in JobRecords :
            /\ jobs' = [jobs EXCEPT ![s] = k]
            /\ k.offset = jobs[s].offset /\ k.day = jobs[s].day
            /\ k.stopped = jobs[s].stopped
            /\ k.count = [e \in Events |-> IF InRange(jobs[s], time[e]) THEN rows[e] ELSE 0]
    BY <1>4, CountActionsIs
  <2>2. ~ k.stopped
    BY <1>2, <1>4, <2>1 DEF CountActions, Step, StopsAt
  <2>3. ASSUME NEW e \in Events, k.count[e] # 0
        PROVE  rows[e] # 0 /\ (time[e] <= at[e] => k.day * 96 + k.offset <= lastActive)
    <3>1. InRange(jobs[s], time[e]) /\ rows[e] # 0
      BY <2>1, <2>3
    <3>2. time[e] >= jobs[s].day * 96 + jobs[s].offset
      BY <3>1 DEF InRange, Day
    <3>3. /\ at[e] <= lastActive
          /\ time[e] \in Int /\ at[e] \in Int /\ lastActive \in Int
      BY Parts DEF Stops
    <3> QED
      BY <2>1, <3>1, <3>2, <3>3, JobIs
  <2>4. StopsAt(k)
    BY <2>2, <2>3 DEF StopsAt
  <2> QED
    BY <1>1, <2>1, <2>4, StopsJob
<1>5. CASE SelectStopped(s)
  <2>1. PICK k \in JobRecords :
            /\ jobs' = [jobs EXCEPT ![s] = k] /\ k.pc = "ready"
            /\ k.offset = jobs[s].offset /\ k.day = jobs[s].day
            /\ k.count = jobs[s].count
            /\ k.stopped = InRange([jobs[s] EXCEPT !.day = @ - 1], lastActive)
    BY <1>5, SelectStoppedIs
  <2>2. ASSUME NEW e \in Events, k.stopped
        PROVE  k.count[e] = 0 \/ time[e] > at[e]
    <3>1. lastActive < (jobs[s].day - 1) * 96 + jobs[s].offset + 96
      <4>1. /\ [jobs[s] EXCEPT !.day = @ - 1].day = jobs[s].day - 1
            /\ [jobs[s] EXCEPT !.day = @ - 1].offset = jobs[s].offset
        BY JobIs DEF JobRecords
      <4> QED
        BY <2>1, <2>2, <4>1 DEF InRange, Day
    <3>2. ~ (jobs[s].day * 96 + jobs[s].offset <= lastActive)
      BY <3>1, JobIs, Parts
    <3>3. jobs[s].count[e] = 0 \/ ~ (time[e] <= at[e])
      BY <1>2, <3>2 DEF StopsAt
    <3> QED
      BY <2>1, <3>3, Parts
  <2>3. StopsAt(k)
    BY <1>2, <2>1, <2>2 DEF StopsAt
  <2> QED
    BY <1>1, <2>1, <2>3, StopsJob
<1>6. CASE SendMail(s)
  <2>1. PICK k \in JobRecords :
            /\ jobs' = [jobs EXCEPT ![s] = k] /\ k.pc = "mailing"
            /\ k.offset = jobs[s].offset /\ k.day = jobs[s].day
            /\ k.count = jobs[s].count /\ k.stopped = jobs[s].stopped
    BY <1>6, SendMailIs
  <2>2. StopsAt(k)
    BY <1>2, <2>1 DEF StopsAt
  <2> QED
    BY <1>1, <2>1, <2>2, StopsJob
<1>7. ASSUME NEW rejected \in SUBSET Users, Delivered(s, rejected)
      PROVE  Stops'
  <2>1. jobs' = [jobs EXCEPT ![s] = NoJob]
    BY <1>7 DEF Delivered
  <2>2. StopsAt(NoJob)
    BY NoJobIs DEF StopsAt, NoCount
  <2> QED
    BY <1>1, <2>1, <2>2, NoJobIs, StopsJob
<1> QED
  BY <1>3, <1>4, <1>5, <1>6, <1>7

\* The action was active later, and what is saved stays.
LEMMA StopsLater ==
    ASSUME Types, Stops, Types', UNCHANGED jobs, lastActive' >= lastActive,
           lastActive' <= Now', \A e \in Events : at'[e] <= lastActive',
           \A e \in Events :
              rows[e] # 0 => rows'[e] # 0 /\ time'[e] = time[e] /\ at'[e] = at[e]
    PROVE  Stops'
<1>1. PICK now \in Int : now = lastActive'
  BY DEF Types, TypeOK
<1>2. ASSUME NEW s \in Slots, NEW e \in Events
      PROVE  /\ jobs[s].pc \in {"waiting", "counted"} => ~ jobs[s].stopped
             /\ jobs[s].stopped => jobs[s].count[e] = 0 \/ time'[e] > at'[e]
             /\ jobs[s].count[e] # 0 =>
                   /\ rows'[e] # 0
                   /\ time'[e] <= at'[e] => jobs[s].day * 96 + jobs[s].offset <= now
  <2>1. jobs[s].day * 96 + jobs[s].offset \in Int /\ lastActive \in Int
    BY JobIs, Parts
  <2>2. jobs[s].count[e] # 0 => rows[e] # 0
    BY DEF Stops
  <2> QED
    BY <1>1, <2>1, <2>2 DEF Stops
<1>3. \A s \in Slots : jobs[s].pc \in {"waiting", "counted"} => ~ jobs[s].stopped
  BY DEF Stops
<1> QED
  BY <1>1, <1>2, <1>3 DEF Stops

LEMMA StopsStep == Types /\ Stops /\ [Next]_vars => Stops'
<1> SUFFICES ASSUME Types, Stops, [Next]_vars
             PROVE  Stops'
  OBVIOUS
<1>0. /\ Types' /\ lastActive \in Int /\ Now \in Int /\ lastActive <= Now
      /\ \A e \in Events : at[e] <= lastActive
  BY Parts, TypesStep DEF Stops
<1>1. CASE UNCHANGED <<jobs, time, at, rows, lastActive>> /\ hour' \in {hour, hour + 1}
  <2>1. Now' \in {Now, Now + 4}
    BY <1>1, Parts DEF Now
  <2> QED
    BY <1>0, <1>1, <2>1, StopsLater
<1>2. CASE ProcessorDies
  <2>1. /\ UNCHANGED <<hour, time, at, rows, lastActive>>
        /\ jobs' = [s \in Slots |-> IF jobs[s].pc = "waiting" THEN jobs[s] ELSE NoJob]
    BY <1>2 DEF ProcessorDies, eventVars
  <2>2. \A s \in Slots : StopsAt(jobs'[s])
    BY <2>1, NoJobIs DEF Stops, StopsAt, NoCount
  <2> QED
    BY <1>0, <2>1, <2>2 DEF Stops, StopsAt, Now
<1>3. ASSUME NEW s \in Slots,
             \/ \E r \in due : ProduceDay(r, s)
             \/ CountActions(s) \/ SelectStopped(s) \/ SendMail(s)
             \/ \E rejected \in SUBSET Users : Delivered(s, rejected)
      PROVE  Stops'
  BY <1>3, StopsSlots
<1>4. ASSUME NEW e \in Events, NEW delay \in Delays, NormalizeEvent(e, delay)
      PROVE  Stops'
  <2>1. /\ time' = [time EXCEPT ![e] = Now - delay] /\ at' = [at EXCEPT ![e] = Now]
        /\ lastActive' = Now /\ rows[e] = 0
        /\ UNCHANGED <<hour, jobs, rows>>
    BY <1>4, NormalizeIs
  <2>2. \A x \in Events : at'[x] <= Now
    <3>1. ASSUME NEW x \in Events
          PROVE  at'[x] <= Now
      <4>1. at'[x] = IF x = e THEN Now ELSE at[x]
        BY <2>1, Parts
      <4>2. at[x] \in Int /\ at[x] <= lastActive
        BY <1>0, Parts
      <4> QED
        BY <1>0, <4>1, <4>2
    <3> QED
      BY <3>1
  <2>3. \A x \in Events :
            rows[x] # 0 => rows'[x] # 0 /\ time'[x] = time[x] /\ at'[x] = at[x]
    BY <2>1, Parts
  <2>4. Now' = Now
    BY <2>1 DEF Now
  <2> QED
    BY <1>0, <2>1, <2>2, <2>3, <2>4, StopsLater
<1>5. ASSUME NEW e \in Events, SaveActiveActor(e) \/ SaveFail(e)
      PROVE  Stops'
  <2>1. /\ rows' = rows \/ rows' = [rows EXCEPT ![e] = @ + 1]
        /\ UNCHANGED <<hour, jobs, time, at, lastActive>>
    BY <1>5 DEF SaveActiveActor, SaveFail
  <2>2. \A x \in Events : rows[x] # 0 => rows'[x] # 0
    <3>1. ASSUME NEW x \in Events, rows[x] # 0
          PROVE  rows'[x] # 0
      <4>1. rows[x] \in 0..3 /\ rows'[x] \in {rows[x], rows[x] + 1}
        BY <2>1, EventsAre, Parts
      <4> QED
        BY <3>1, <4>1
    <3> QED
      BY <3>1
  <2>3. Now' = Now
    BY <2>1 DEF Now
  <2> QED
    BY <1>0, <2>1, <2>2, <2>3, StopsLater
<1>6. CASE HourPasses \/ ScheduleReports \/ ScheduleFail
  BY <1>1, <1>6 DEF HourPasses, ScheduleReports, ScheduleFail, eventVars
<1>7. ASSUME NEW u \in Users,
             \/ TurnOff(u) \/ TurnOffFail(u)
             \/ \E o \in Offsets \cup {NoZone} : UpdateUser(u, o)
             \/ \E r \in Reports : GetEnvUser(u, r) \/ UpdateEnvUser(u, r)
      PROVE  Stops'
  BY <1>1, <1>7 DEF TurnOff, TurnOffFail, UpdateUser, GetEnvUser, UpdateEnvUser, eventVars
<1>8. ASSUME NEW u \in Users, NEW o \in Offsets, ClocksChange(u, o)
      PROVE  Stops'
  BY <1>1, <1>8, ClocksAre DEF eventVars
<1>9. CASE UNCHANGED vars
  BY <1>1, <1>9 DEF vars, eventVars
<1> QED
  BY <1>2, <1>3, <1>4, <1>5, <1>6, <1>7, <1>8, <1>9 DEF Next

LEMMA StopsAlways == Spec => []Stops
<1>1. Init => Stops
  <2>1. -1 <= 4 * FirstHour /\ 4 * FirstHour <= 4 * FirstHour
    BY ReportsAssumption
  <2> QED
    BY <2>1, NoJobIs DEF Init, Stops, NoCount, Now
<1> QED
  BY <1>1, StopsStep, TypesAlways, PTL DEF Spec

\* No action is reported as stopped together with events of the day, but those that were
\* normalized before the time they are of.
THEOREM StoppedIsStopped == Spec => []StoppedMeansNone
<1>1. Stops => StoppedMeansNone
  BY DEF Stops, StoppedMeansNone
<1> QED
  BY <1>1, StopsAlways, PTL

-----------------------------------------------------------------------------
(* Clocks *)

LEMMA AllInts ==
    ASSUME Types
    PROVE  /\ Now \in Int /\ hour \in Int /\ ticks \in Int
           /\ \A u \in Users : offset[u] \in Int /\ was[u] \in Int /\ turn[u] \in Int
           /\ \A e \in Events : time[e] \in Int /\ at[e] \in Int /\ rows[e] \in Nat
           /\ \A u \in Users, e \in Events : counted[u][e] \in Nat
<1>1. Offsets \cup {NoZone} \subseteq Int
  BY ReportsAssumption
<1>2. \A u \in Users, e \in Events : counted[u][e] \in Nat
  BY DEF Types, TypeOK
<1>3. ticks \in Int /\ \A e \in Events : rows[e] \in Nat
  BY Parts DEF Types, TypeOK, MaxSaves
<1> QED
  BY <1>1, <1>2, <1>3, Parts, UsersAre

\* Clocks change by an hour at most, and before the first report by the new ones.
Clocks ==
    \A u \in Users \ away :
        /\ offset[u] - was[u] \in -4..4
        /\ was[u] # offset[u] => 96 * (turn[u] + 1) - 9 <= Now + 3 + offset[u]

LEMMA ClocksKept ==
    ASSUME Types, Clocks, UNCHANGED clocks, hour' \in {hour, hour + 1}, away \subseteq away',
           \A u \in Users \ away' : offset'[u] = offset[u]
    PROVE  Clocks'
<1>1. PICK now \in Int : now = Now' /\ Now <= now
  BY AllInts DEF Now
<1>2. ASSUME NEW u \in Users \ away'
      PROVE  /\ offset[u] - was[u] \in -4..4
             /\ was[u] # offset[u] => 96 * (turn[u] + 1) - 9 <= now + 3 + offset[u]
  BY <1>1, AllInts DEF Clocks
<1> QED
  BY <1>1, <1>2 DEF Clocks, clocks

LEMMA ClocksChanged ==
    ASSUME Types, Clocks, NEW u \in Users, NEW o \in Offsets, ClocksChange(u, o)
    PROVE  Clocks'
<1>1. PICK D \in Int : /\ turn'[u] = D - 1
                       /\ Now + offset[u] \in (96 * D - 8)..(96 * D + 15)
                       /\ o - offset[u] \in -4..4
  BY ClocksAre
<1>2. /\ was[u] = offset[u] /\ offset'[u] = o /\ UNCHANGED <<hour, was, away>> /\ Now' = Now
      /\ \A v \in Users \ {u} : offset'[v] = offset[v] /\ turn'[v] = turn[v]
  BY ClocksAre DEF Now
<1>3. o \in Int /\ Now \in Int /\ offset[u] \in Int
  BY AllInts, Parts
<1>4. 96 * (D - 1 + 1) - 9 <= Now + 3 + o /\ o - was[u] \in -4..4
  BY <1>1, <1>2, <1>3
<1>5. ASSUME NEW v \in Users \ away
      PROVE  /\ offset'[v] - was[v] \in -4..4
             /\ was[v] # offset'[v] => 96 * (turn'[v] + 1) - 9 <= Now + 3 + offset'[v]
  <2>1. CASE v = u
    BY <1>1, <1>2, <1>4, <2>1
  <2>2. CASE v # u
    BY <1>2, <2>2 DEF Clocks
  <2> QED
    BY <2>1, <2>2
<1> QED
  BY <1>2, <1>5 DEF Clocks

\* Every other step leaves the clocks of who stays alone.
LEMMA ClocksStay ==
    ASSUME Types, [Next]_vars
    PROVE  \/ \E u \in Users, o \in Offsets : ClocksChange(u, o)
           \/ /\ UNCHANGED clocks /\ hour' \in {hour, hour + 1} /\ away \subseteq away'
              /\ \A u \in Users \ away' : offset'[u] = offset[u]
<1> DEFINE Same == /\ UNCHANGED clocks /\ hour' \in {hour, hour + 1} /\ away \subseteq away'
                   /\ \A u \in Users \ away' : offset'[u] = offset[u]
<1>1. CASE UNCHANGED vars
  BY <1>1 DEF vars, userVars
<1>2. CASE HourPasses \/ ScheduleReports \/ ScheduleFail \/ ProcessorDies
  BY <1>2 DEF HourPasses, ScheduleReports, ScheduleFail, ProcessorDies, userVars
<1>3. CASE \E s \in Slots :
              \/ \E r \in due : ProduceDay(r, s)
              \/ CountActions(s) \/ SelectStopped(s) \/ SendMail(s)
              \/ \E rejected \in SUBSET Users : Delivered(s, rejected)
  BY <1>3 DEF ProduceDay, CountActions, SelectStopped, SendMail, Delivered, userVars
<1>4. CASE \E e \in Events :
              \/ \E delay \in Delays : NormalizeEvent(e, delay)
              \/ SaveActiveActor(e) \/ SaveFail(e)
  BY <1>4 DEF NormalizeEvent, SaveActiveActor, SaveFail, userVars
<1>5. ASSUME NEW u \in Users, NEW o \in Offsets \cup {NoZone}, UpdateUser(u, o)
      PROVE  Same
  <2>1. /\ offset' = [offset EXCEPT ![u] = o] /\ away' = away \cup {u}
        /\ UNCHANGED <<hour, clocks>>
    BY <1>5 DEF UpdateUser
  <2>2. \A v \in Users \ away' : offset'[v] = offset[v]
    BY <2>1, UsersAre
  <2> QED
    BY <2>1, <2>2
<1>6. ASSUME NEW u \in Users,
             \/ TurnOff(u) \/ TurnOffFail(u)
             \/ \E r \in Reports : GetEnvUser(u, r) \/ UpdateEnvUser(u, r)
      PROVE  Same
  BY <1>6 DEF TurnOff, TurnOffFail, GetEnvUser, UpdateEnvUser
<1> QED
  BY <1>1, <1>2, <1>3, <1>4, <1>5, <1>6 DEF Next

LEMMA ClocksAlways == Spec => []Clocks
<1>1. Init => Clocks
  <2> SUFFICES ASSUME Init, NEW u \in Users
               PROVE  offset[u] - was[u] \in -4..4 /\ was[u] = offset[u]
    BY DEF Clocks
  <2>1. was[u] = offset[u] /\ offset[u] \in Int
    BY TypesInit, AllInts DEF Init
  <2> QED
    BY <2>1
<1>2. Types /\ Clocks /\ [Next]_vars => Clocks'
  BY ClocksStay, ClocksKept, ClocksChanged
<1> QED
  BY <1>1, <1>2, TypesAlways, PTL DEF Spec

\* By the first report after they changed, their day has come.
LEMMA TurnHasCome ==
    ASSUME Types, Clocks, NEW u \in Users \ away, OnTime(offset[u])
    PROVE  was[u] # offset[u] => turn[u] <= Yesterday(offset[u])
<1> DEFINE n == Now + 3 + offset[u]
<1>1. n \in Int /\ turn[u] \in Int /\ n % 96 \in 24..27
      /\ Yesterday(offset[u]) = n \div 96 - 1
  BY AllInts DEF OnTime, Yesterday, Day
<1>2. was[u] # offset[u] => 96 * (turn[u] + 1) - 9 <= n
  BY DEF Clocks
<1> HIDE DEF n
<1>3. ASSUME NEW m \in Int, NEW T \in Int, m % 96 \in 24..27, 96 * (T + 1) - 9 <= m
      PROVE  T <= m \div 96 - 1
  BY <1>3
<1> QED
  BY <1>1, <1>2, <1>3

-----------------------------------------------------------------------------
(* Counts *)

\* Reports are made after one tick at a time,
OneTick ==
    /\ ticks \in 0..1
    /\ ticks = 1 => due = {} /\ \A s \in Slots : jobs[s].pc = "free"

\* each for users of its own,
Apart ==
    /\ \A r1, r2 \in due : \A u \in Users : u \in r1.to /\ u \in r2.to => r1 = r2
    /\ \A r \in due, s \in Slots : \A u \in Users : u \in r.to => u \notin jobs[s].to
    /\ \A s, t \in Slots : \A u \in Users : u \in jobs[s].to /\ u \in jobs[t].to => s = t

\* of their offset, and of the day that is over there.
Prepared ==
    \A u \in Users \ away :
        /\ \A r \in due : u \in r.to => r.offset = offset[u] /\ OnTime(offset[u])
        /\ \A s \in Slots : u \in jobs[s].to =>
              /\ jobs[s].offset = offset[u] /\ OnTime(offset[u])
              /\ jobs[s].day = Yesterday(offset[u])

\* What a report counts was saved, and is of its day.
Counts ==
    \A s \in Slots : \A e \in Events :
        jobs[s].count[e] > 0 => InRange(jobs[s], time[e]) /\ jobs[s].count[e] <= rows[e]

Pending(u) == (\E r \in due : u \in r.to) \/ (\E s \in Slots : u \in jobs[s].to)

\* The last day whose report was made so many quarters of an hour into a day, ...
Last(u, back) == (Now + 3 + offset[u] - back) \div 96 - 1

\* ... and what a report of it told a user whose clocks changed from w to o before the
\* report of day T: of nothing after its range, and of nothing twice, but of what they
\* were put back over.
ToldAt(count, saved, t, w, o, T, d) ==
    /\ count <= 2 * saved
    /\ (t - T * 96 >= o /\ t - T * 96 < w /\ T <= d) \/ count <= saved
    /\ t < 96 * (d + 1) + (IF d < T THEN w ELSE o)

Told(u, e, d) ==
    ToldAt(counted[u][e], rows[e], time[e], was[u], offset[u], turn[u], d)

\* What was counted for a user is before the end of the last report's range, which is
\* the beginning of the one that is being made.
Bounded ==
    \A u \in Users \ away : \A e \in Events : counted[u][e] > 0 =>
        /\ Told(u, e, Last(u, 24))
        /\ ticks > 0 \/ Pending(u) => Told(u, e, Last(u, 28))

Separate == OneTick /\ Apart /\ Prepared /\ Counts /\ Bounded

Once == faults = 0 => Separate

LEMMA FaultIs == Types /\ Fault => faults' # 0
  BY ReportsAssumption DEF Types, TypeOK, Fault

LEMMA Quotients ==
    ASSUME NEW n \in Int
    PROVE  /\ (n - 28) \div 96 <= (n - 24) \div 96
           /\ n % 96 \in 24..27 =>
                 (n - 24) \div 96 = n \div 96 /\ (n - 28) \div 96 = n \div 96 - 1
  OBVIOUS

LEMMA LastIs ==
    ASSUME Types, NEW u \in Users
    PROVE  /\ Last(u, 24) \in Int /\ Last(u, 28) \in Int /\ Last(u, 28) <= Last(u, 24)
           /\ OnTime(offset[u]) =>
                 /\ Last(u, 24) = Yesterday(offset[u])
                 /\ Last(u, 28) = Yesterday(offset[u]) - 1
<1> DEFINE n == Now + 3 + offset[u]
           x == (n - 24) \div 96
           y == (n - 28) \div 96
<1>1. n \in Int /\ n \div 96 \in Int /\ x \in Int /\ y \in Int
  BY AllInts
<1>2. y <= x /\ (n % 96 \in 24..27 => x = n \div 96 /\ y = n \div 96 - 1)
  BY <1>1, Quotients
<1>3. Last(u, 24) = x - 1 /\ Last(u, 28) = y - 1
  BY AllInts DEF Last
<1>4. Yesterday(offset[u]) = n \div 96 - 1 /\ (OnTime(offset[u]) <=> n % 96 \in 24..27)
  BY AllInts DEF Yesterday, OnTime, Day
<1> HIDE DEF n, x, y
<1> QED
  BY <1>1, <1>2, <1>3, <1>4

\* A report of a later day tells as much, ...
LEMMA LaterAt ==
    ASSUME NEW c \in Nat, NEW r \in Nat, NEW t \in Int, NEW w \in Int, NEW o \in Int,
           NEW T \in Int, NEW d \in Int, NEW d2 \in Int, ToldAt(c, r, t, w, o, T, d),
           d <= d2, o - w \in -4..4
    PROVE  ToldAt(c, r, t, w, o, T, d2)
  BY DEF ToldAt

\* ... and so it is when more is saved.
LEMMA SavedAt ==
    ASSUME NEW c \in Nat, NEW r \in Nat, NEW r2 \in Nat, NEW t \in Int, NEW w \in Int,
           NEW o \in Int, NEW T \in Int, NEW d \in Int, ToldAt(c, r, t, w, o, T, d),
           r <= r2
    PROVE  ToldAt(c, r2, t, w, o, T, d)
  BY DEF ToldAt

\* The report of a day adds what is of its range, which is after that of the day before,
\* unless the clocks have been put back.
LEMMA ReportedAt ==
    ASSUME NEW c \in Nat, NEW k \in Nat, NEW r \in Nat, NEW t \in Int, NEW w \in Int,
           NEW o \in Int, NEW T \in Int, NEW y \in Int, NEW x \in Int, x = y - 1,
           c > 0 => ToldAt(c, r, t, w, o, T, x),
           k <= r, t >= y * 96 + o, t < y * 96 + o + 96, w # o => T <= y
    PROVE  ToldAt(c + k, r, t, w, o, T, y)
<1>1. t < 96 * (y + 1) + (IF y < T THEN w ELSE o)
  OBVIOUS
<1>2. CASE c = 0
  BY <1>1, <1>2 DEF ToldAt
<1>3. CASE c > 0
  <2>1. t < 96 * y + (IF x < T THEN w ELSE o)
    BY <1>3 DEF ToldAt
  <2>2. x < T /\ w # o
    BY <2>1
  <2>3. T = y /\ t - T * 96 >= o /\ t - T * 96 < w
    BY <2>1, <2>2
  <2>4. c <= r
    BY <1>3, <2>2 DEF ToldAt
  <2> QED
    BY <1>1, <2>3, <2>4 DEF ToldAt
<1> QED
  BY <1>2, <1>3

\* Clocks change after the report of the day before yesterday, or of the day before that
\* when it is not midnight yet.
LEMMA ChangedAt ==
    ASSUME NEW c \in Nat, NEW r \in Nat, NEW t \in Int, NEW w \in Int, NEW o \in Int,
           NEW T \in Int, NEW D \in Int, ToldAt(c, r, t, w, w, T, D - 2)
    PROVE  ToldAt(c, r, t, w, o, D - 1, D - 2)
  BY DEF ToldAt

LEMMA BeforeReport ==
    ASSUME NEW now \in Int, NEW o \in Int, NEW D \in Int, now + o \in (96 * D - 12)..(96 * D + 19)
    PROVE  (now + 3 + o - 24) \div 96 - 1 = D - 2
  OBVIOUS

\* A step at which nothing of this changes, but for those who are away.
LEMMA SeparateFrame ==
    ASSUME Separate, UNCHANGED <<hour, ticks, due, jobs, clocks, time, rows, counted>>,
           away \subseteq away', \A u \in Users \ away' : offset'[u] = offset[u]
    PROVE  Separate'
<1>1. /\ Now' = Now /\ \A o : OnTime(o)' = OnTime(o) /\ Yesterday(o)' = Yesterday(o)
      /\ UNCHANGED <<was, turn>>
  BY DEF Now, OnTime, Yesterday, clocks
<1>2. OneTick' /\ Apart' /\ Counts'
  BY DEF Separate, OneTick, Apart, Counts, InRange
<1>3. Prepared'
  BY <1>1 DEF Separate, Prepared, OnTime, Yesterday
<1>4. Bounded'
  <2>1. ASSUME NEW u \in Users \ away', NEW e \in Events, counted'[u][e] > 0
        PROVE  /\ Told(u, e, Last(u, 24))'
               /\ ticks' > 0 \/ Pending(u)' => Told(u, e, Last(u, 28))'
    <3>1. Last(u, 24)' = Last(u, 24) /\ Last(u, 28)' = Last(u, 28)
      BY <1>1, <2>1 DEF Last
    <3>2. Pending(u)' = Pending(u)
      BY DEF Pending
    <3> QED
      BY <1>1, <2>1, <3>1, <3>2 DEF Separate, Bounded, Told
  <2> QED
    BY <2>1 DEF Bounded
<1> QED
  BY <1>2, <1>3, <1>4 DEF Separate

\* Whose report becomes a job, and what a job counts, is as it was.
LEMMA SeparateJob ==
    ASSUME Types, Separate, NEW s \in Slots, NEW k \in JobRecords,
           jobs' = [jobs EXCEPT ![s] = k], k.pc # "free", jobs[s].pc # "free",
           k.to = jobs[s].to, k.offset = jobs[s].offset, k.day = jobs[s].day,
           \A e \in Events : k.count[e] > 0 =>
              InRange(jobs[s], time[e]) /\ k.count[e] <= rows[e],
           UNCHANGED <<hour, ticks, due, userVars, eventVars, mailVars>>
    PROVE  Separate'
<1>1. /\ jobs'[s] = k /\ \A t \in Slots \ {s} : jobs'[t] = jobs[t]
      /\ \A t \in Slots : /\ jobs'[t].to = jobs[t].to
                          /\ jobs'[t].offset = jobs[t].offset /\ jobs'[t].day = jobs[t].day
                          /\ (jobs'[t].pc = "free" <=> jobs[t].pc = "free")
  BY Parts
<1>2. UNCHANGED <<time, rows, counted, offset, was, turn, away>> /\ Now' = Now
  BY DEF userVars, clocks, eventVars, mailVars, Now
<1>3. OneTick' /\ Apart'
  BY <1>1 DEF Separate, OneTick, Apart
<1>4. Prepared'
  BY <1>1, <1>2 DEF Separate, Prepared, OnTime, Yesterday
<1>5. Counts'
  BY <1>1, <1>2 DEF Separate, Counts, InRange
<1>6. Bounded'
  <2>1. ASSUME NEW u \in Users \ away', NEW e \in Events, counted'[u][e] > 0
        PROVE  /\ Told(u, e, Last(u, 24))'
               /\ ticks' > 0 \/ Pending(u)' => Told(u, e, Last(u, 28))'
    <3>1. Last(u, 24)' = Last(u, 24) /\ Last(u, 28)' = Last(u, 28)
      BY <1>2 DEF Last
    <3>2. Pending(u)' <=> Pending(u)
      BY <1>1 DEF Pending
    <3> QED
      BY <1>2, <2>1, <3>1, <3>2 DEF Separate, Bounded, Told
  <2> QED
    BY <2>1 DEF Bounded
<1> QED
  BY <1>3, <1>4, <1>5, <1>6 DEF Separate

LEMMA SeparateProduce ==
    ASSUME Types, Separate, NEW s \in Slots, NEW r \in due, ProduceDay(r, s)
    PROVE  Separate'
<1>1. PICK k \in JobRecords :
          /\ jobs' = [jobs EXCEPT ![s] = k]
          /\ k.pc = "waiting" /\ k.offset = r.offset /\ k.day = Yesterday(r.offset)
          /\ k.to = r.to /\ k.count = NoCount
  BY ProduceDayIs
<1>2. /\ due' = due \ {r} /\ jobs[s].pc = "free"
      /\ UNCHANGED <<hour, ticks, offset, was, turn, away, time, rows, counted>> /\ Now' = Now
  BY DEF ProduceDay, userVars, clocks, eventVars, mailVars, Now
<1>3. /\ jobs'[s] = k /\ \A t \in Slots \ {s} : jobs'[t] = jobs[t]
  BY <1>1, Parts
<1>4. ticks # 1 /\ OneTick'
  BY <1>2 DEF Separate, OneTick
<1>5. Apart'
  <2>1. \A r1, r2 \in due' : \A u \in Users : u \in r1.to /\ u \in r2.to => r1 = r2
    BY <1>2 DEF Separate, Apart
  <2>2. ASSUME NEW q \in due', NEW t \in Slots, NEW u \in Users, u \in q.to
        PROVE  u \notin jobs'[t].to
    <3>1. CASE t = s
      BY <1>1, <1>2, <1>3, <2>2, <3>1 DEF Separate, Apart
    <3>2. CASE t # s
      BY <1>2, <1>3, <2>2, <3>2 DEF Separate, Apart
    <3> QED
      BY <3>1, <3>2
  <2>3. ASSUME NEW p \in Slots, NEW t \in Slots, NEW u \in Users,
               u \in jobs'[p].to, u \in jobs'[t].to
        PROVE  p = t
    <3>1. \A q \in Slots \ {s} : u \in r.to => u \notin jobs'[q].to
      BY <1>3 DEF Separate, Apart
    <3>2. CASE p # s /\ t # s
      BY <1>3, <2>3, <3>2 DEF Separate, Apart
    <3> QED
      BY <1>1, <1>3, <2>3, <3>1, <3>2
  <2> QED
    BY <2>1, <2>2, <2>3 DEF Apart
<1>6. Prepared'
  <2>1. ASSUME NEW u \in Users \ away, NEW t \in Slots, u \in jobs'[t].to
        PROVE  /\ jobs'[t].offset = offset[u] /\ OnTime(offset[u])
               /\ jobs'[t].day = Yesterday(offset[u])
    <3>1. CASE t = s
      BY <1>1, <1>3, <2>1, <3>1 DEF Separate, Prepared
    <3>2. CASE t # s
      BY <1>3, <2>1, <3>2 DEF Separate, Prepared
    <3> QED
      BY <3>1, <3>2
  <2>2. \A o : OnTime(o)' = OnTime(o) /\ Yesterday(o)' = Yesterday(o)
    BY <1>2 DEF OnTime, Yesterday
  <2>3. ASSUME NEW u \in Users \ away, NEW q \in due', u \in q.to
        PROVE  q.offset = offset[u] /\ OnTime(offset[u])
    BY <1>2, <2>3 DEF Separate, Prepared
  <2> QED
    BY <1>2, <2>1, <2>2, <2>3 DEF Prepared
<1>7. Counts'
  <2>1. ASSUME NEW t \in Slots, NEW e \in Events, jobs'[t].count[e] > 0
        PROVE  InRange(jobs'[t], time[e]) /\ jobs'[t].count[e] <= rows[e]
    <3>1. t # s
      BY <1>1, <1>3, <2>1 DEF NoCount
    <3> QED
      BY <1>3, <2>1, <3>1 DEF Separate, Counts
  <2> QED
    BY <1>2, <2>1 DEF Counts, InRange
<1>8. Bounded'
  <2>1. ASSUME NEW u \in Users \ away', NEW e \in Events, counted'[u][e] > 0
        PROVE  /\ Told(u, e, Last(u, 24))'
               /\ ticks' > 0 \/ Pending(u)' => Told(u, e, Last(u, 28))'
    <3>1. Last(u, 24)' = Last(u, 24) /\ Last(u, 28)' = Last(u, 28)
      BY <1>2 DEF Last
    <3>2. Pending(u)' => Pending(u)
      BY <1>1, <1>2, <1>3 DEF Pending
    <3> QED
      BY <1>2, <2>1, <3>1, <3>2 DEF Separate, Bounded, Told
  <2> QED
    BY <2>1 DEF Bounded
<1> QED
  BY <1>4, <1>5, <1>6, <1>7, <1>8 DEF Separate

\* What the mail counts is after everything that was counted before.
LEMMA SeparateDelivered ==
    ASSUME Types, Clocks, Separate, NEW s \in Slots, NEW rejected \in SUBSET Users,
           Delivered(s, rejected)
    PROVE  Separate'
<1>1. /\ jobs' = [jobs EXCEPT ![s] = NoJob] /\ jobs[s].pc = "mailing"
      /\ counted' = [u \in Users |-> [e \in Events |->
                       counted[u][e] + IF u \in jobs[s].to THEN jobs[s].count[e] ELSE 0]]
      /\ away' = away \cup rejected
      /\ UNCHANGED <<hour, ticks, due, offset, was, turn, time, rows>> /\ Now' = Now
  BY DEF Delivered, Step, clocks, eventVars, Now
<1>2. /\ jobs'[s] = NoJob /\ \A t \in Slots \ {s} : jobs'[t] = jobs[t]
  BY <1>1, Parts
<1>3. ticks = 0
  BY <1>1 DEF Separate, OneTick
<1>4. OneTick'
  BY <1>1, <1>3 DEF OneTick
<1>5. \A t \in Slots, u \in Users : u \in jobs'[t].to => t # s /\ u \in jobs[t].to
  BY <1>2, NoJobIs
<1>6. Apart'
  BY <1>1, <1>5 DEF Separate, Apart
<1>7. Prepared'
  <2>1. \A o : OnTime(o)' = OnTime(o) /\ Yesterday(o)' = Yesterday(o)
    BY <1>1 DEF OnTime, Yesterday
  <2>2. ASSUME NEW u \in Users \ away', NEW t \in Slots, u \in jobs'[t].to
        PROVE  /\ jobs'[t].offset = offset[u] /\ OnTime(offset[u])
               /\ jobs'[t].day = Yesterday(offset[u])
    BY <1>1, <1>2, <1>5, <2>2 DEF Separate, Prepared
  <2>3. \A u \in Users \ away', r \in due' :
            u \in r.to => r.offset = offset[u] /\ OnTime(offset[u])
    BY <1>1 DEF Separate, Prepared
  <2> QED
    BY <1>1, <2>1, <2>2, <2>3 DEF Prepared
<1>8. Counts'
  <2>1. ASSUME NEW t \in Slots, NEW e \in Events, jobs'[t].count[e] > 0
        PROVE  InRange(jobs'[t], time[e]) /\ jobs'[t].count[e] <= rows[e]
    <3>1. t # s
      BY <1>2, <2>1, NoJobIs DEF NoCount
    <3> QED
      BY <1>2, <2>1, <3>1 DEF Separate, Counts
  <2> QED
    BY <1>1, <2>1 DEF Counts, InRange
<1>9. Bounded'
  <2>1. ASSUME NEW u \in Users \ away', NEW e \in Events, counted'[u][e] > 0
        PROVE  /\ ToldAt(counted'[u][e], rows[e], time[e], was[u], offset[u], turn[u],
                         Last(u, 24))
               /\ Pending(u)' => ToldAt(counted'[u][e], rows[e], time[e], was[u], offset[u],
                                        turn[u], Last(u, 28))
    <3>1. u \in Users \ away
      BY <1>1, <2>1
    <3>2. counted'[u][e] = counted[u][e] + (IF u \in jobs[s].to THEN jobs[s].count[e] ELSE 0)
      BY <1>1, <3>1
    <3>3. counted[u][e] \in Nat /\ jobs[s].count[e] \in Nat
      BY <3>1, AllInts, JobIs
    <3>4. CASE u \notin jobs[s].to \/ jobs[s].count[e] = 0
      <4>1. counted'[u][e] = counted[u][e] /\ counted[u][e] > 0
        BY <2>1, <3>2, <3>3, <3>4
      <4>2. Pending(u)' => Pending(u)
        BY <1>1, <1>5, <3>1 DEF Pending
      <4> QED
        BY <3>1, <4>1, <4>2 DEF Separate, Bounded, Told
    <3>5. CASE u \in jobs[s].to /\ jobs[s].count[e] > 0
      <4>1. /\ InRange(jobs[s], time[e]) /\ jobs[s].count[e] <= rows[e]
            /\ jobs[s].offset = offset[u] /\ OnTime(offset[u])
            /\ jobs[s].day = Yesterday(offset[u])
        BY <3>1, <3>5 DEF Separate, Counts, Prepared
      <4>2. /\ time[e] >= Yesterday(offset[u]) * 96 + offset[u]
            /\ time[e] < Yesterday(offset[u]) * 96 + offset[u] + 96
        BY <4>1 DEF InRange, Day
      <4>3. /\ Yesterday(offset[u]) \in Int /\ offset[u] \in Int /\ was[u] \in Int
            /\ turn[u] \in Int /\ time[e] \in Int /\ rows[e] \in Nat
        <5>1. jobs[s].day \in Int
          BY JobIs
        <5> QED
          BY <3>1, <4>1, <5>1, AllInts
      <4>4. /\ Last(u, 24) = Yesterday(offset[u]) /\ Last(u, 28) = Yesterday(offset[u]) - 1
            /\ Last(u, 28) \in Int
        BY <3>1, <4>1, LastIs
      <4>5. was[u] # offset[u] => turn[u] <= Yesterday(offset[u])
        BY <3>1, <4>1, TurnHasCome
      <4>6. Pending(u)
        BY <3>5 DEF Pending
      <4>7. counted[u][e] > 0 => ToldAt(counted[u][e], rows[e], time[e], was[u], offset[u],
                                        turn[u], Last(u, 28))
        BY <3>1, <4>6 DEF Separate, Bounded, Told
      <4>8. ToldAt(counted[u][e] + jobs[s].count[e], rows[e], time[e], was[u], offset[u],
                   turn[u], Yesterday(offset[u]))
        BY <3>3, <4>1, <4>2, <4>3, <4>4, <4>5, <4>7, ReportedAt
      <4>9. ~ Pending(u)'
        BY <1>1, <1>5, <3>1, <3>5 DEF Separate, Apart, Pending
      <4> QED
        BY <3>2, <3>5, <4>4, <4>8, <4>9
    <3> QED
      BY <3>3, <3>4, <3>5
  <2>2. \A u : Last(u, 24)' = Last(u, 24) /\ Last(u, 28)' = Last(u, 28)
    BY <1>1 DEF Last
  <2>3. ~ (ticks' > 0)
    BY <1>1, <1>3
  <2> QED
    BY <1>1, <2>1, <2>2, <2>3 DEF Bounded, Told
<1> QED
  BY <1>4, <1>6, <1>7, <1>8, <1>9 DEF Separate

LEMMA SeparateSchedule ==
    ASSUME Types, Separate, ScheduleReports
    PROVE  Separate'
<1> DEFINE to == {u \in Users : DailyReport(u)}
           R(u) == [offset |-> offset[u], to |-> {v \in to : offset[v] = offset[u]}]
<1>1. /\ ticks > 0 /\ ticks' = ticks - 1 /\ due' = {R(u) : u \in to}
      /\ UNCHANGED <<hour, jobs, offset, was, turn, away, time, rows, counted>> /\ Now' = Now
  BY DEF ScheduleReports, userVars, clocks, eventVars, mailVars, Now
<1>2. ticks = 1 /\ \A s \in Slots : jobs[s].pc = "free"
  BY <1>1 DEF Separate, OneTick
<1>3. ticks' = 0 /\ \A s \in Slots : jobs'[s] = NoJob
  BY <1>1, <1>2, Parts
<1>4. ASSUME NEW r \in due', NEW u \in r.to
      PROVE  u \in Users /\ DailyReport(u) /\ r = R(u)
  <2>1. PICK v \in to : r = R(v)
    BY <1>1, <1>4
  <2>2. u \in to /\ offset[u] = offset[v]
    BY <1>4, <2>1
  <2> QED
    BY <2>1, <2>2
<1>5. OneTick'
  BY <1>3 DEF OneTick
<1>6. Apart'
  <2>1. \A r1, r2 \in due' : \A u \in Users : u \in r1.to /\ u \in r2.to => r1 = r2
    BY <1>4
  <2>2. \A s \in Slots : jobs'[s].to = {}
    BY <1>3, NoJobIs
  <2> QED
    BY <2>1, <2>2 DEF Apart
<1>7. Prepared'
  <2>1. ASSUME NEW u \in Users, NEW r \in due', u \in r.to
        PROVE  r.offset = offset[u] /\ OnTime(offset[u])
    <3>1. DailyReport(u) /\ r = R(u)
      BY <1>4, <2>1
    <3>2. OnTime(offset[u])
      BY <3>1, ReportIsOnTime
    <3> QED
      BY <3>1, <3>2
  <2>2. \A o : OnTime(o)' = OnTime(o)
    BY <1>1 DEF OnTime
  <2>3. \A s \in Slots : jobs'[s].to = {}
    BY <1>3, NoJobIs
  <2> QED
    BY <1>1, <2>1, <2>2, <2>3 DEF Prepared
<1>8. Counts'
  BY <1>3, NoJobIs DEF Counts, NoCount
<1>9. Bounded'
  <2>1. \A u : Last(u, 24)' = Last(u, 24) /\ Last(u, 28)' = Last(u, 28)
    BY <1>1 DEF Last
  <2>2. ASSUME NEW u \in Users \ away, NEW e \in Events, counted[u][e] > 0
        PROVE  Told(u, e, Last(u, 24)) /\ Told(u, e, Last(u, 28))
    BY <1>1, <2>2 DEF Separate, Bounded
  <2> QED
    BY <1>1, <2>1, <2>2 DEF Bounded, Told
<1> QED
  BY <1>5, <1>6, <1>7, <1>8, <1>9 DEF Separate

\* An hour later, nothing being made, the range that ended begins.
LEMMA SeparateHour ==
    ASSUME Types, Clocks, Separate, HourPasses, Idle
    PROVE  Separate'
<1>1. /\ hour' = hour + 1 /\ ticks = 0 /\ ticks' = 1 /\ due = {} /\ due' = {}
      /\ \A s \in Slots : jobs[s].pc = "free"
      /\ UNCHANGED <<jobs, offset, was, turn, away, time, rows, counted>>
  BY Parts DEF HourPasses, Idle, userVars, clocks, eventVars, mailVars, Types, TypeOK
<1>2. \A s \in Slots : jobs'[s] = NoJob
  BY <1>1, Parts
<1>3. OneTick' /\ Apart' /\ Prepared' /\ Counts'
  BY <1>1, <1>2, NoJobIs DEF OneTick, Apart, Prepared, Counts, NoCount
<1>4. ASSUME NEW u \in Users
      PROVE  /\ Last(u, 28)' = Last(u, 24) /\ Last(u, 24)' \in Int
             /\ Last(u, 24) <= Last(u, 24)' /\ Last(u, 24) \in Int
  <2>1. PICK n \in Int : n = Now + 7 + offset[u]
    BY AllInts
  <2>2. Now' = Now + 4 /\ offset'[u] = offset[u] /\ Now \in Int /\ offset[u] \in Int
    BY <1>1, AllInts DEF Now
  <2>3. /\ Now' + 3 + offset'[u] - 24 = n - 24 /\ Now' + 3 + offset'[u] - 28 = n - 28
        /\ Now + 3 + offset[u] - 24 = n - 28
    BY <2>1, <2>2
  <2>4. /\ (n - 28) \div 96 <= (n - 24) \div 96
        /\ (n - 28) \div 96 \in Int /\ (n - 24) \div 96 \in Int
    BY Quotients
  <2> QED
    BY <2>3, <2>4 DEF Last
<1>5. ASSUME NEW u \in Users \ away, NEW e \in Events, counted[u][e] > 0
      PROVE  /\ Told(u, e, Last(u, 24))
             /\ ToldAt(counted[u][e], rows[e], time[e], was[u], offset[u], turn[u],
                       Last(u, 24)')
  <2>1. Told(u, e, Last(u, 24))
    BY <1>5 DEF Separate, Bounded
  <2>2. /\ counted[u][e] \in Nat /\ rows[e] \in Nat /\ time[e] \in Int /\ was[u] \in Int
        /\ offset[u] \in Int /\ turn[u] \in Int /\ offset[u] - was[u] \in -4..4
    BY AllInts DEF Clocks
  <2> QED
    BY <1>4, <2>1, <2>2, LaterAt DEF Told
<1>6. Bounded'
  BY <1>1, <1>4, <1>5 DEF Bounded, Told
<1> QED
  BY <1>3, <1>6 DEF Separate

\* The time of an event of which there are rows stays, and rows are added.
LEMMA SeparateEvents ==
    ASSUME Types, Separate, UNCHANGED <<hour, ticks, due, jobs, userVars, mailVars>>,
           \A e \in Events : /\ rows[e] # 0 => time'[e] = time[e]
                             /\ rows'[e] >= rows[e] /\ rows'[e] \in Nat
    PROVE  Separate'
<1>1. UNCHANGED <<offset, was, turn, away, counted>> /\ Now' = Now
  BY DEF userVars, clocks, mailVars, Now
<1>2. OneTick' /\ Apart'
  BY DEF Separate, OneTick, Apart
<1>3. Prepared'
  BY <1>1 DEF Separate, Prepared, OnTime, Yesterday
<1>4. Counts'
  <2>1. ASSUME NEW s \in Slots, NEW e \in Events, jobs[s].count[e] > 0
        PROVE  InRange(jobs[s], time'[e]) /\ jobs[s].count[e] <= rows'[e]
    <3>1. InRange(jobs[s], time[e]) /\ jobs[s].count[e] <= rows[e]
      BY <2>1 DEF Separate, Counts
    <3>2. jobs[s].count[e] \in Nat /\ rows[e] \in Int
      BY JobIs, AllInts
    <3>3. rows[e] # 0 /\ jobs[s].count[e] <= rows'[e]
      BY <2>1, <3>1, <3>2
    <3> QED
      BY <3>1, <3>3
  <2> QED
    BY <2>1 DEF Counts, InRange
<1>5. \A u : /\ Last(u, 24)' = Last(u, 24) /\ Last(u, 28)' = Last(u, 28)
             /\ Pending(u)' = Pending(u)
  BY <1>1 DEF Last, Pending
<1>6. ASSUME NEW u \in Users \ away, NEW e \in Events, NEW d \in Int, counted[u][e] > 0,
             Told(u, e, d)
      PROVE  ToldAt(counted[u][e], rows'[e], time'[e], was[u], offset[u], turn[u], d)
  <2>1. /\ counted[u][e] \in Nat /\ rows[e] \in Nat /\ time[e] \in Int /\ was[u] \in Int
        /\ offset[u] \in Int /\ turn[u] \in Int
    BY AllInts
  <2>2. rows[e] # 0
    BY <1>6, <2>1 DEF Told, ToldAt
  <2>3. PICK r \in Nat : r = rows'[e] /\ rows[e] <= r
    BY <2>1
  <2>4. ToldAt(counted[u][e], r, time[e], was[u], offset[u], turn[u], d)
    BY <1>6, <2>1, <2>3, SavedAt DEF Told
  <2> QED
    BY <2>2, <2>3, <2>4
<1>7. ASSUME NEW u \in Users \ away, NEW e \in Events, counted[u][e] > 0
      PROVE  /\ ToldAt(counted[u][e], rows'[e], time'[e], was[u], offset[u], turn[u],
                       Last(u, 24))
             /\ ticks > 0 \/ Pending(u) => ToldAt(counted[u][e], rows'[e], time'[e], was[u],
                                                 offset[u], turn[u], Last(u, 28))
  BY <1>6, <1>7, LastIs DEF Separate, Bounded
<1>8. Bounded'
  BY <1>1, <1>5, <1>7 DEF Bounded, Told
<1> QED
  BY <1>2, <1>3, <1>4, <1>8 DEF Separate

\* Clocks change while nothing is made: after the report of the day before the one that
\* is ending, or has ended, ended.
LEMMA SeparateClocks ==
    ASSUME Types, Separate, NEW u \in Users, NEW o \in Offsets, ClocksChange(u, o)
    PROVE  Separate'
<1>1. PICK D \in Int : /\ turn'[u] = D - 1
                       /\ Now + offset[u] \in (96 * D - 8)..(96 * D + 15)
                       /\ o - offset[u] \in -4..4
  BY ClocksAre
<1>2. /\ ticks = 0 /\ due = {} /\ \A s \in Slots : jobs[s].pc = "free" /\ jobs[s].to = {}
      /\ was[u] = offset[u] /\ offset'[u] = o
      /\ \A v \in Users \ {u} : offset'[v] = offset[v] /\ turn'[v] = turn[v]
      /\ UNCHANGED <<hour, ticks, due, jobs, was, away, time, rows, counted>> /\ Now' = Now
  BY ClocksAre DEF eventVars, mailVars, Now
<1>3. OneTick' /\ Apart' /\ Prepared' /\ Counts'
  BY <1>2 DEF Separate, OneTick, Apart, Prepared, Counts, InRange
<1>4. Now \in Int /\ offset[u] \in Int /\ o \in Int
  BY AllInts, Parts
<1>5. Last(u, 24) = D - 2 /\ Last(u, 24)' = D - 2
  <2>1. /\ Now + offset[u] \in (96 * D - 12)..(96 * D + 19)
        /\ Now + o \in (96 * D - 12)..(96 * D + 19)
    BY <1>1, <1>4
  <2>2. /\ (Now + 3 + offset[u] - 24) \div 96 - 1 = D - 2
        /\ (Now + 3 + o - 24) \div 96 - 1 = D - 2
    BY <1>4, <2>1, BeforeReport
  <2> QED
    BY <1>2, <2>2 DEF Last
<1>6. ASSUME NEW v \in Users \ away, NEW e \in Events, counted[v][e] > 0
      PROVE  ToldAt(counted[v][e], rows[e], time[e], was[v], offset'[v], turn'[v],
                    Last(v, 24)')
  <2>1. Told(v, e, Last(v, 24))
    BY <1>6 DEF Separate, Bounded
  <2>2. CASE v = u
    <3>1. ToldAt(counted[u][e], rows[e], time[e], was[u], was[u], turn[u], D - 2)
      BY <1>2, <1>5, <2>1, <2>2 DEF Told
    <3>2. /\ counted[u][e] \in Nat /\ rows[e] \in Nat /\ time[e] \in Int /\ was[u] \in Int
          /\ turn[u] \in Int
      BY AllInts
    <3>3. ToldAt(counted[u][e], rows[e], time[e], was[u], o, D - 1, D - 2)
      BY <1>4, <3>1, <3>2, ChangedAt
    <3> QED
      BY <1>1, <1>2, <1>5, <2>2, <3>3
  <2>3. CASE v # u
    <3>1. Last(v, 24)' = Last(v, 24)
      BY <1>2, <2>3 DEF Last
    <3> QED
      BY <1>2, <2>1, <2>3, <3>1 DEF Told
  <2> QED
    BY <2>2, <2>3
<1>7. ~ (ticks' > 0) /\ \A v : ~ Pending(v)'
  BY <1>2 DEF Pending
<1>8. Bounded'
  BY <1>2, <1>6, <1>7 DEF Bounded, Told
<1> QED
  BY <1>3, <1>8 DEF Separate

LEMMA OnceSlots ==
    ASSUME Types, Clocks, Separate, NEW s \in Slots,
           \/ \E r \in due : ProduceDay(r, s)
           \/ CountActions(s) \/ SelectStopped(s) \/ SendMail(s)
           \/ \E rejected \in SUBSET Users : Delivered(s, rejected)
    PROVE  Separate'
<1>1. CASE CountActions(s)
  <2>1. PICK k \in JobRecords :
            /\ jobs' = [jobs EXCEPT ![s] = k] /\ k.pc = "counted"
            /\ k.offset = jobs[s].offset /\ k.day = jobs[s].day /\ k.to = jobs[s].to
            /\ k.count = [e \in Events |-> IF InRange(jobs[s], time[e]) THEN rows[e] ELSE 0]
    BY <1>1, CountActionsIs
  <2>2. \A e \in Events : k.count[e] > 0 =>
            InRange(jobs[s], time[e]) /\ k.count[e] <= rows[e]
    <3>1. ASSUME NEW e \in Events, k.count[e] > 0
          PROVE  InRange(jobs[s], time[e]) /\ k.count[e] <= rows[e]
      <4>1. k.count[e] = IF InRange(jobs[s], time[e]) THEN rows[e] ELSE 0
        BY <2>1
      <4> QED
        BY <3>1, <4>1, AllInts
    <3> QED
      BY <3>1
  <2>3. jobs[s].pc # "free" /\ UNCHANGED <<hour, ticks, due, userVars, eventVars, mailVars>>
    BY <1>1 DEF CountActions, Step
  <2> QED
    BY <2>1, <2>2, <2>3, SeparateJob
<1>2. CASE SelectStopped(s) \/ SendMail(s)
  <2>1. PICK k \in JobRecords :
            /\ jobs' = [jobs EXCEPT ![s] = k] /\ k.pc # "free"
            /\ k.offset = jobs[s].offset /\ k.day = jobs[s].day /\ k.to = jobs[s].to
            /\ k.count = jobs[s].count
    BY <1>2, SelectStoppedIs, SendMailIs
  <2>2. \A e \in Events : k.count[e] > 0 =>
            InRange(jobs[s], time[e]) /\ k.count[e] <= rows[e]
    BY <2>1 DEF Separate, Counts
  <2>3. jobs[s].pc # "free" /\ UNCHANGED <<hour, ticks, due, userVars, eventVars, mailVars>>
    BY <1>2 DEF SelectStopped, SendMail, Step
  <2> QED
    BY <2>1, <2>2, <2>3, SeparateJob
<1> QED
  BY <1>1, <1>2, SeparateProduce, SeparateDelivered

LEMMA OnceStep == Types /\ Clocks /\ Once /\ [Next]_vars => Once'
<1> SUFFICES ASSUME Types, Clocks, Once, [Next]_vars, faults' = 0
             PROVE  Separate'
  BY DEF Once
<1>0. ~ Fault
  BY FaultIs
<1>1. CASE UNCHANGED vars
  <2>1. UNCHANGED <<hour, ticks, due, jobs, clocks, time, rows, counted, away, offset, faults>>
    BY <1>1 DEF vars, userVars, eventVars, mailVars
  <2> QED
    BY <2>1, SeparateFrame DEF Once
<1>2. CASE HourPasses
  <2>1. faults = 0 /\ Idle
    BY <1>0, <1>2 DEF HourPasses
  <2> QED
    BY <1>2, <2>1, SeparateHour DEF Once
<1>3. CASE ScheduleReports
  <2>1. faults = 0
    BY <1>3 DEF ScheduleReports
  <2> QED
    BY <1>3, <2>1, SeparateSchedule DEF Once
<1>4. CASE ScheduleFail \/ ProcessorDies
  BY <1>0, <1>4 DEF ScheduleFail, ProcessorDies
<1>5. ASSUME NEW s \in Slots,
             \/ \E r \in due : ProduceDay(r, s)
             \/ CountActions(s) \/ SelectStopped(s) \/ SendMail(s)
             \/ \E rejected \in SUBSET Users : Delivered(s, rejected)
      PROVE  Separate'
  <2>1. faults' = faults
    BY <1>5 DEF ProduceDay, CountActions, SelectStopped, SendMail, Delivered
  <2>2. Separate
    BY <2>1 DEF Once
  <2> QED
    BY <1>5, <2>2, OnceSlots
<1>6. ASSUME NEW e \in Events, NEW delay \in Delays, NormalizeEvent(e, delay)
      PROVE  Separate'
  <2>1. /\ time' = [time EXCEPT ![e] = Now - delay] /\ rows[e] = 0
        /\ UNCHANGED <<hour, ticks, due, jobs, userVars, rows, mailVars, faults>>
    BY <1>6, NormalizeIs
  <2>2. \A x \in Events : /\ rows[x] # 0 => time'[x] = time[x]
                          /\ rows'[x] >= rows[x] /\ rows'[x] \in Nat
    <3>1. ASSUME NEW x \in Events
          PROVE  /\ rows[x] # 0 => time'[x] = time[x]
                 /\ rows'[x] >= rows[x] /\ rows'[x] \in Nat
      <4>1. x # e => time'[x] = time[x]
        BY <2>1, Parts
      <4>2. rows[x] \in Nat
        BY AllInts
      <4> QED
        BY <2>1, <4>1, <4>2
    <3> QED
      BY <3>1
  <2> QED
    BY <2>1, <2>2, SeparateEvents DEF Once
<1>7. ASSUME NEW e \in Events, SaveActiveActor(e) \/ SaveFail(e)
      PROVE  Separate'
  <2>1. /\ rows' = [rows EXCEPT ![e] = @ + 1] /\ UNCHANGED faults
        /\ UNCHANGED <<hour, ticks, due, jobs, userVars, time, mailVars>>
    BY <1>0, <1>7 DEF SaveActiveActor, SaveFail
  <2>2. \A x \in Events : /\ rows[x] # 0 => time'[x] = time[x]
                          /\ rows'[x] >= rows[x] /\ rows'[x] \in Nat
    <3>1. ASSUME NEW x \in Events
          PROVE  rows'[x] >= rows[x] /\ rows'[x] \in Nat
      <4>1. rows'[x] \in {rows[x], rows[x] + 1} /\ rows[x] \in Nat
        BY <2>1, AllInts, Parts
      <4> QED
        BY <4>1
    <3> QED
      BY <2>1, <3>1
  <2> QED
    BY <2>1, <2>2, SeparateEvents DEF Once
<1>8. ASSUME NEW u \in Users,
             \/ TurnOff(u) \/ TurnOffFail(u)
             \/ \E o \in Offsets \cup {NoZone} : UpdateUser(u, o)
             \/ \E r \in Reports : GetEnvUser(u, r) \/ UpdateEnvUser(u, r)
      PROVE  Separate'
  <2>1. CASE UNCHANGED <<offset, clocks>> /\ away \subseteq away'
             /\ UNCHANGED <<hour, ticks, due, jobs, eventVars, mailVars, faults>>
    BY <2>1, SeparateFrame DEF Once, eventVars, mailVars
  <2>2. ASSUME NEW o \in Offsets \cup {NoZone}, UpdateUser(u, o)
        PROVE  Separate'
    <3>1. /\ offset' = [offset EXCEPT ![u] = o] /\ away' = away \cup {u}
          /\ UNCHANGED <<hour, ticks, due, jobs, clocks, time, rows, counted, faults>>
      BY <2>2 DEF UpdateUser, eventVars, mailVars
    <3>2. \A v \in Users \ away' : offset'[v] = offset[v]
      BY <3>1, UsersAre
    <3> QED
      BY <3>1, <3>2, SeparateFrame DEF Once
  <2>3. CASE TurnOff(u) \/ TurnOffFail(u) \/ \E r \in Reports : GetEnvUser(u, r)
    BY <2>1, <2>3 DEF TurnOff, TurnOffFail, GetEnvUser
  <2>4. CASE \E r \in Reports : UpdateEnvUser(u, r)
    BY <2>1, <2>4 DEF UpdateEnvUser
  <2> QED
    BY <1>8, <2>2, <2>3, <2>4
<1>9. ASSUME NEW u \in Users, NEW o \in Offsets, ClocksChange(u, o)
      PROVE  Separate'
  <2>1. faults = 0
    BY <1>9, ClocksAre
  <2> QED
    BY <1>9, <2>1, SeparateClocks DEF Once
<1> QED
  BY <1>1, <1>2, <1>3, <1>4, <1>5, <1>6, <1>7, <1>8, <1>9 DEF Next

LEMMA OnceAlways == Spec => []Once
<1>1. Init => Once
  <2> SUFFICES ASSUME Init
               PROVE  Separate
    BY DEF Once
  <2>1. \A u \in Users, e \in Events : counted[u][e] = 0
    BY DEF Init, NoCount
  <2> QED
    BY <2>1, NoJobIs
       DEF Init, Separate, OneTick, Apart, Prepared, Counts, Bounded, NoCount
<1> QED
  BY <1>1, OnceStep, ClocksAlways, TypesAlways, PTL DEF Spec

\* Without a fault, no event is counted twice for who stays where they are, unless the
\* clocks were put back over it, and then no more than twice.
THEOREM NobodyIsToldTwice == Spec => []CountedOnce
<1>1. Types /\ Once => CountedOnce
  <2> SUFFICES ASSUME Types, Once, NEW u \in Users \ away, NEW e \in Events, faults = 0
               PROVE  counted[u][e] <= (IF Doubled(u, time[e]) THEN 2 ELSE 1) * rows[e]
    BY DEF CountedOnce
  <2>1. counted[u][e] \in Nat /\ rows[e] \in Nat
    BY AllInts
  <2>2. counted[u][e] > 0 => /\ counted[u][e] <= 2 * rows[e]
                             /\ Doubled(u, time[e]) \/ counted[u][e] <= rows[e]
    BY DEF Once, Separate, Bounded, Told, ToldAt, Doubled, Day
  <2>3. CASE Doubled(u, time[e])
    <3>1. counted[u][e] <= 2 * rows[e]
      BY <2>1, <2>2
    <3> QED
      BY <2>3, <3>1
  <2>4. CASE ~ Doubled(u, time[e])
    <3>1. counted[u][e] <= 1 * rows[e]
      BY <2>1, <2>2, <2>4
    <3> QED
      BY <2>4, <3>1
  <2> QED
    BY <2>3, <2>4
<1> QED
  BY <1>1, OnceAlways, TypesAlways, PTL

-----------------------------------------------------------------------------
(* Who stays *)

\* Who stays is subscribed, in a zone that is known, and is in one report that is due,
\* of their offset.
Staying ==
    /\ bounced \subseteq away
    /\ \A u \in Users \ away : offset[u] \in Offsets /\ daily[u] /\ tx[u]
    /\ \A r \in due : \A u \in Users \ away : u \in r.to => r.offset = offset[u]
    /\ \A r1, r2 \in due : r1.offset = r2.offset => r1 = r2

\* The hours of the day take every offset in.
LEMMA HoursAreAll ==
    ASSUME NEW h \in Nat, NEW o \in -48..56, (4 * h + 3 + o) % 96 \in 24..27
    PROVE  \E k \in Int : /\ k = 7 - ((h + 1) % 24) \/ k = 31 - ((h + 1) % 24)
                          /\ k >= -12 /\ k <= 14 /\ o <= 4 * k /\ o > 4 * k - 4
<1> DEFINE n == (h + 1) % 24
           k == (o + 3) \div 4
<1>1. n \in 0..23 /\ k \in Int /\ k >= -12 /\ k <= 14 /\ o <= 4 * k /\ o > 4 * k - 4
  OBVIOUS
<1>2. \E q \in Int : h + 1 = 24 * q + n
  OBVIOUS
<1>3. \E p \in Int : \E r \in 24..27 : 4 * h + 3 + o = 96 * p + r
  <2> DEFINE m == 4 * h + 3 + o
  <2>1. m \in Int /\ m % 96 \in 24..27
    OBVIOUS
  <2> HIDE DEF m
  <2>2. m = 96 * (m \div 96) + (m % 96) /\ m \div 96 \in Int
    BY <2>1
  <2> QED
    BY <2>1, <2>2 DEF m
<1> HIDE DEF n, k
<1>4. k = 7 - n \/ k = 31 - n
  <2>1. PICK q \in Int : h + 1 = 24 * q + n
    BY <1>2
  <2>2. PICK p \in Int : \E r \in 24..27 : 4 * h + 3 + o = 96 * p + r
    BY <1>3
  <2>3. PICK r \in 24..27 : 4 * h + 3 + o = 96 * p + r
    BY <2>2
  <2>4. 96 * (p - q) = 4 * n - 1 + o - r
    BY <1>1, <2>1, <2>3
  <2>5. p - q = 0 \/ p - q = 1
    <3>1. p - q \in Int
      OBVIOUS
    <3>2. 96 * (p - q) >= -76 /\ 96 * (p - q) <= 123
      BY <1>1, <2>4
    <3> QED
      BY <3>1, <3>2
  <2> QED
    BY <1>1, <2>4, <2>5
<1>5. \E i \in Int : /\ i = 7 - n \/ i = 31 - n
                     /\ i >= -12 /\ i <= 14 /\ o <= 4 * i /\ o > 4 * i - 4
  BY <1>1, <1>4
<1> QED
  BY <1>5 DEF n

LEMMA OnTimeIsReported ==
    ASSUME Types, Staying, NEW u \in Users \ away, OnTime(offset[u])
    PROVE  DailyReport(u)
<1>1. hour \in Nat /\ offset[u] \in -48..56 /\ daily[u] /\ tx[u]
  BY Parts DEF Staying
<1>2. (4 * hour + 3 + offset[u]) % 96 \in 24..27
  BY DEF OnTime, Now
<1>3. PICK k \in Int : /\ k = 7 - ((hour + 1) % 24) \/ k = 31 - ((hour + 1) % 24)
                       /\ k >= -12 /\ k <= 14 /\ offset[u] <= 4 * k /\ offset[u] > 4 * k - 4
  BY <1>1, <1>2, HoursAreAll
<1>4. k \in ReportHours
  <2> DEFINE back == 7 - ((hour + 1) % 24)
             forward == back + 24
  <2>1. back \in Int /\ (k = back \/ k = forward)
    BY <1>1, <1>3
  <2>2. k \in {i \in {back, forward} : (i = back => back >= -12)
                                       /\ (i = forward => forward <= 14)}
    BY <1>3, <2>1
  <2> QED
    BY <2>2 DEF ReportHours, OffsetsWithLocalTimeDuringUTCHour
<1> QED
  BY <1>1, <1>3, <1>4 DEF DailyReport

\* Who stays is as they were.
LEMMA StayingUser ==
    ASSUME Staying, away \subseteq away', due' \subseteq due, bounced' \subseteq away',
           \A u \in Users \ away' :
              offset'[u] = offset[u] /\ daily'[u] = daily[u] /\ tx'[u] = tx[u]
    PROVE  Staying'
  BY DEF Staying

LEMMA StayingSchedule ==
    ASSUME Types, Staying, ScheduleReports
    PROVE  Staying'
<1> DEFINE to == {u \in Users : DailyReport(u)}
           R(u) == [offset |-> offset[u], to |-> {v \in to : offset[v] = offset[u]}]
<1>1. due' = {R(u) : u \in to} /\ UNCHANGED <<offset, daily, tx, away, bounced>>
  BY DEF ScheduleReports, userVars, clocks
<1>2. \A r \in due' : \A u \in Users \ away : u \in r.to => r.offset = offset[u]
  <2>1. ASSUME NEW r \in due', NEW u \in Users \ away, u \in r.to
        PROVE  r.offset = offset[u]
    <3>1. PICK v \in to : r = R(v)
      BY <1>1, <2>1
    <3> QED
      BY <2>1, <3>1
  <2> QED
    BY <2>1
<1>3. \A r1, r2 \in due' : r1.offset = r2.offset => r1 = r2
  <2>1. ASSUME NEW r1 \in due', NEW r2 \in due', r1.offset = r2.offset
        PROVE  r1 = r2
    <3>1. PICK v \in to : r1 = R(v)
      BY <1>1, <2>1
    <3>2. PICK w \in to : r2 = R(w)
      BY <1>1, <2>1
    <3>3. offset[v] = offset[w]
      BY <2>1, <3>1, <3>2
    <3> QED
      BY <3>1, <3>2, <3>3
  <2> QED
    BY <2>1
<1> QED
  BY <1>1, <1>2, <1>3 DEF Staying

LEMMA StayingStep == Types /\ Staying /\ [Next]_vars => Staying'
<1> SUFFICES ASSUME Types, Staying, [Next]_vars
             PROVE  Staying'
  OBVIOUS
<1>0. bounced \subseteq away
  BY DEF Staying
<1>1. CASE UNCHANGED <<offset, daily, tx, away>> /\ due' \subseteq due
           /\ bounced' \subseteq bounced
  BY <1>0, <1>1, StayingUser
<1>2. CASE HourPasses \/ ScheduleFail \/ ProcessorDies
  BY <1>1, <1>2 DEF HourPasses, ScheduleFail, ProcessorDies, userVars, clocks
<1>3. CASE ScheduleReports
  BY <1>3, StayingSchedule
<1>4. ASSUME NEW s \in Slots,
             \/ \E r \in due : ProduceDay(r, s)
             \/ CountActions(s) \/ SelectStopped(s) \/ SendMail(s)
      PROVE  Staying'
  BY <1>1, <1>4 DEF ProduceDay, CountActions, SelectStopped, SendMail, userVars, clocks
<1>5. ASSUME NEW s \in Slots, NEW rejected \in SUBSET Users, Delivered(s, rejected)
      PROVE  Staying'
  <2>1. /\ bounced' = bounced \cup rejected /\ away' = away \cup rejected
        /\ UNCHANGED <<offset, daily, tx, due>>
    BY <1>5 DEF Delivered
  <2> QED
    BY <1>0, <2>1, StayingUser
<1>6. CASE \E e \in Events :
              \/ \E delay \in Delays : NormalizeEvent(e, delay)
              \/ SaveActiveActor(e) \/ SaveFail(e)
  BY <1>1, <1>6 DEF NormalizeEvent, SaveActiveActor, SaveFail, userVars, clocks
<1>7. ASSUME NEW u \in Users, TurnOff(u) \/ TurnOffFail(u)
      PROVE  Staying'
  <2>1. /\ u \in bounced /\ bounced' = bounced \ {u} /\ tx' \in {tx, [tx EXCEPT ![u] = FALSE]}
        /\ UNCHANGED <<offset, daily, away, due>>
    BY <1>7 DEF TurnOff, TurnOffFail
  <2>2. \A v \in Users \ away' : tx'[v] = tx[v]
    BY <1>0, <2>1, UsersAre
  <2> QED
    BY <1>0, <2>1, <2>2, StayingUser
<1>8. ASSUME NEW u \in Users, NEW o \in Offsets \cup {NoZone}, UpdateUser(u, o)
      PROVE  Staying'
  <2>1. /\ offset' = [offset EXCEPT ![u] = o] /\ away' = away \cup {u}
        /\ UNCHANGED <<daily, tx, bounced, due>>
    BY <1>8 DEF UpdateUser
  <2>2. \A v \in Users \ away' : offset'[v] = offset[v]
    BY <2>1, UsersAre
  <2> QED
    BY <1>0, <2>1, <2>2, StayingUser
<1>9. ASSUME NEW u \in Users, NEW r \in Reports, GetEnvUser(u, r)
      PROVE  Staying'
  BY <1>1, <1>9 DEF GetEnvUser
<1>10. ASSUME NEW u \in Users, NEW r \in Reports, UpdateEnvUser(u, r)
       PROVE  Staying'
  <2>1. /\ daily' = [daily EXCEPT ![u] = (r = "anomaly" /\ cancels[<<u, r>>] = "otherOn")]
        /\ away' = away \cup {u}
        /\ UNCHANGED <<offset, tx, bounced, due>>
    BY <1>10 DEF UpdateEnvUser
  <2>2. \A v \in Users \ {u} : daily'[v] = daily[v]
    BY <2>1, UsersAre, Zenon
  <2>3. \A v \in Users \ away' : daily'[v] = daily[v]
    BY <2>1, <2>2
  <2> QED
    BY <1>0, <2>1, <2>3, StayingUser
<1>11. CASE UNCHANGED vars
  BY <1>1, <1>11 DEF vars, userVars, clocks
<1>12. ASSUME NEW u \in Users, NEW o \in Offsets, ClocksChange(u, o)
       PROVE  Staying'
  <2>1. /\ due' = {} /\ \A v \in Users \ {u} : offset'[v] = offset[v]
        /\ offset'[u] = o /\ UNCHANGED <<daily, tx, bounced, away>>
    BY <1>12, ClocksAre
  <2> QED
    BY <1>0, <2>1 DEF Staying
<1> QED
  BY <1>2, <1>3, <1>4, <1>5, <1>6, <1>7, <1>8, <1>9, <1>10, <1>11, <1>12 DEF Next

LEMMA StayingAlways == Spec => []Staying
<1>1. Init => Staying
  BY DEF Init, Staying
<1> QED
  BY <1>1, StayingStep, TypesAlways, PTL DEF Spec

-----------------------------------------------------------------------------
(* Days without a report *)

\* The report of the day before, which is made on time, is to come.
OnItsWay(u) ==
    /\ OnTime(offset[u])
    /\ \/ ticks > 0
       \/ \E r \in due : u \in r.to
       \/ \E s \in Slots : u \in jobs[s].to /\ jobs[s].day = Yesterday(offset[u])

\* The days that no report will come of any more.
Lost(u) == {d \in Missing(u) : ~ (OnItsWay(u) /\ d = Yesterday(offset[u]))}

Losses == \A u \in Users \ away : Cardinality(Lost(u)) <= faults

LEMMA DaysAre ==
    ASSUME Types
    PROVE  IsFiniteSet(Days) /\ Days \subseteq Nat /\ \A d \in Days : d \in Int
<1>1. LastHour \div 24 + 1 \in Int
  BY Parts
<1> QED
  BY <1>1, FS_Interval DEF Days

LEMMA LostAre ==
    ASSUME Types, NEW u
    PROVE  IsFiniteSet(Lost(u)) /\ Cardinality(Lost(u)) \in Nat
<1>1. Lost(u) \subseteq Days
  BY DEF Lost, Missing, Over
<1>2. IsFiniteSet(Lost(u))
  BY <1>1, DaysAre, FS_Subset
<1> QED
  BY <1>2, FS_CardinalityType

LEMMA FaultsAre == Types => faults \in Nat
  BY ReportsAssumption DEF Types, TypeOK

\* No more are lost, or one for a fault.
LEMMA LostKept ==
    ASSUME Types, NEW u, Lost(u)' \subseteq Lost(u), Cardinality(Lost(u)) <= faults,
           Types', faults' >= faults
    PROVE  Cardinality(Lost(u)') <= faults'
<1>1. IsFiniteSet(Lost(u)) /\ Cardinality(Lost(u)) \in Nat
  BY LostAre
<1>2. IsFiniteSet(Lost(u)') /\ Cardinality(Lost(u)') <= Cardinality(Lost(u))
  BY <1>1, FS_Subset
<1>3. Cardinality(Lost(u)') \in Nat
  BY <1>2, FS_CardinalityType
<1>4. faults \in Nat /\ faults' \in Nat
  BY FaultsAre, ReportsAssumption DEF Types, TypeOK
<1> QED
  BY <1>1, <1>2, <1>3, <1>4

LEMMA LostOne ==
    ASSUME Types, NEW u, NEW d, Lost(u)' \subseteq Lost(u) \cup {d},
           Cardinality(Lost(u)) <= faults, faults' = faults + 1
    PROVE  Cardinality(Lost(u)') <= faults'
<1> DEFINE L == Lost(u) \cup {d}
<1>1. IsFiniteSet(Lost(u)) /\ Cardinality(Lost(u)) \in Nat
  BY LostAre
<1>2. IsFiniteSet(L) /\ (Cardinality(L) = Cardinality(Lost(u))
                         \/ Cardinality(L) = Cardinality(Lost(u)) + 1)
  BY <1>1, FS_AddElement
<1>3. IsFiniteSet(Lost(u)') /\ Cardinality(Lost(u)') <= Cardinality(L)
  <2> HIDE DEF L
  <2>1. Lost(u)' \subseteq L
    BY DEF L
  <2> QED
    BY <1>2, <2>1, FS_Subset
<1>4. Cardinality(Lost(u)') \in Nat /\ faults \in Nat
  BY <1>3, FS_CardinalityType, FaultsAre
<1> QED
  BY <1>1, <1>2, <1>3, <1>4

\* In the same hour, what was on its way still is, or has arrived.
LEMMA LostFrame ==
    ASSUME Types, NEW u \in Users, UNCHANGED hour, offset'[u] = offset[u], was'[u] = was[u],
           \A d \in Days : mailed'[u][d] = 0 =>
              /\ mailed[u][d] = 0
              /\ OnItsWay(u) /\ d = Yesterday(offset[u]) => OnItsWay(u)'
    PROVE  Lost(u)' \subseteq Lost(u)
<1>1. Over(u)' = Over(u) /\ Yesterday(offset[u])' = Yesterday(offset[u])
  BY DEF Over, Yesterday, Now
<1> QED
  BY <1>1 DEF Lost, Missing, Over

\* What was on its way is lost at most.
LEMMA LostFault ==
    ASSUME Types, NEW u \in Users, UNCHANGED <<hour, mailed>>, offset'[u] = offset[u],
           was'[u] = was[u]
    PROVE  Lost(u)' \subseteq Lost(u) \cup {Yesterday(offset[u])}
<1>1. Over(u)' = Over(u)
  BY DEF Over, Now
<1> QED
  BY <1>1 DEF Lost, Missing

\* The day that is over an hour later is reported then.
LEMMA NextDay ==
    ASSUME NEW n \in Int, NEW o \in Int, NEW d \in Int,
           ~ ((d + 1) * 96 + 21 <= n + o), (d + 1) * 96 + 21 <= n + 4 + o
    PROVE  (n + 4 + 3 + o) % 96 \in 24..27 /\ d = (n + 4 + 3 + o) \div 96 - 1
<1> DEFINE m == n + 4 + 3 + o
<1>1. m \in Int /\ m - 96 * (d + 1) \in 24..27
  OBVIOUS
<1> HIDE DEF m
<1>2. m % 96 \in 24..27 /\ d = m \div 96 - 1
  BY <1>1
<1> QED
  BY <1>2 DEF m

LEMMA LostHour ==
    ASSUME Types, NEW u \in Users, HourPasses
    PROVE  /\ Lost(u)' \subseteq Lost(u) \cup {Yesterday(offset[u])}
           /\ Idle => Lost(u)' \subseteq Lost(u)
<1>1. /\ hour' = hour + 1 /\ ticks' = ticks + 1 /\ ticks \in Nat
      /\ UNCHANGED <<offset, was, mailed>>
  BY DEF HourPasses, userVars, clocks, mailVars, Types, TypeOK
<1>2. Now' = Now + 4 /\ Now \in Int /\ offset[u] \in Int
  BY <1>1, AllInts DEF Now
<1>3. ASSUME NEW d \in Lost(u)'
      PROVE  d \in Missing(u)
  <2>1. /\ d \in Days /\ d \in Int /\ mailed[u][d] = 0
        /\ (d + 1) * 96 + 21 <= Now + 4 + offset[u]
        /\ (d + 1) * 96 + 21 > 4 * FirstHour + was[u]
    BY <1>1, <1>2, <1>3, DaysAre DEF Lost, Missing, Over, Day
  <2>2. CASE (d + 1) * 96 + 21 <= Now + offset[u]
    BY <2>1, <2>2 DEF Missing, Over, Day
  <2>3. CASE ~ ((d + 1) * 96 + 21 <= Now + offset[u])
    <3>1. /\ (Now + 4 + 3 + offset[u]) % 96 \in 24..27
          /\ d = (Now + 4 + 3 + offset[u]) \div 96 - 1
      BY <1>2, <2>1, <2>3, NextDay
    <3>2. OnTime(offset[u])' /\ d = Yesterday(offset[u])'
      BY <1>1, <1>2, <3>1 DEF OnTime, Yesterday, Day
    <3>3. OnItsWay(u)'
      BY <1>1, <3>2 DEF OnItsWay
    <3> QED
      BY <1>3, <3>2, <3>3 DEF Lost
  <2> QED
    BY <2>2, <2>3
<1>4. Missing(u) \subseteq Lost(u) \cup {Yesterday(offset[u])}
  BY DEF Lost
<1>5. ASSUME Idle
      PROVE  Missing(u) \subseteq Lost(u)
  <2>1. ~ OnItsWay(u)
    <3>1. \A s \in Slots : jobs[s].to = {}
      BY <1>5, NoJobIs, Parts DEF Idle
    <3> QED
      BY <1>5, <3>1 DEF Idle, OnItsWay
  <2> QED
    BY <2>1 DEF Lost
<1> QED
  BY <1>3, <1>4, <1>5

\* The steps of events and users leave the reports alone, and who stays where they are.
Quiet ==
    /\ UNCHANGED <<hour, ticks, due, jobs, mailed>>
    /\ away \subseteq away' /\ faults' >= faults
    /\ \A u \in Users \ away' : offset'[u] = offset[u]
    /\ UNCHANGED clocks

LEMMA QuietSteps ==
    ASSUME Types,
           \/ \E e \in Events :
                 \/ \E delay \in Delays : NormalizeEvent(e, delay)
                 \/ SaveActiveActor(e) \/ SaveFail(e)
           \/ \E u \in Users :
                 \/ TurnOff(u) \/ TurnOffFail(u)
                 \/ \E o \in Offsets \cup {NoZone} : UpdateUser(u, o)
                 \/ \E r \in Reports : GetEnvUser(u, r) \/ UpdateEnvUser(u, r)
           \/ UNCHANGED vars
    PROVE  Quiet
<1>0. faults \in Nat
  BY FaultsAre
<1>1. CASE UNCHANGED <<hour, ticks, due, jobs, mailed, offset, clocks>> /\ away \subseteq away'
           /\ (UNCHANGED faults \/ Fault)
  BY <1>0, <1>1 DEF Quiet, Fault
<1>2. ASSUME NEW e \in Events,
             (\E delay \in Delays : NormalizeEvent(e, delay)) \/ SaveActiveActor(e) \/ SaveFail(e)
      PROVE  Quiet
  BY <1>1, <1>2 DEF NormalizeEvent, SaveActiveActor, SaveFail, userVars, mailVars
<1>3. ASSUME NEW u \in Users, NEW o \in Offsets \cup {NoZone}, UpdateUser(u, o)
      PROVE  Quiet
  <2>1. /\ offset' = [offset EXCEPT ![u] = o] /\ away' = away \cup {u}
        /\ UNCHANGED <<hour, ticks, due, jobs, mailed, clocks, faults>>
    BY <1>3 DEF UpdateUser, mailVars
  <2>2. \A v \in Users \ away' : offset'[v] = offset[v]
    BY <2>1, UsersAre
  <2> QED
    BY <1>0, <2>1, <2>2 DEF Quiet
<1>4. ASSUME NEW u \in Users, TurnOff(u) \/ TurnOffFail(u)
      PROVE  Quiet
  BY <1>1, <1>4 DEF TurnOff, TurnOffFail, mailVars
<1>5. ASSUME NEW u \in Users, NEW r \in Reports, GetEnvUser(u, r) \/ UpdateEnvUser(u, r)
      PROVE  Quiet
  BY <1>1, <1>5 DEF GetEnvUser, UpdateEnvUser, mailVars
<1>6. CASE UNCHANGED vars
  BY <1>1, <1>6 DEF vars, userVars, mailVars
<1> QED
  BY <1>2, <1>3, <1>4, <1>5, <1>6

LEMMA LossesFrame ==
    ASSUME Types, Losses, Types', Quiet
    PROVE  Losses'
<1>0. faults' >= faults
  BY DEF Quiet
<1>1. ASSUME NEW u \in Users \ away'
      PROVE  Cardinality(Lost(u)') <= faults'
  <2>1. /\ u \in Users \ away /\ offset'[u] = offset[u] /\ was'[u] = was[u]
        /\ Cardinality(Lost(u)) <= faults
    BY DEF Losses, Quiet, clocks
  <2>2. OnItsWay(u)' = OnItsWay(u)
    BY <2>1 DEF OnItsWay, OnTime, Yesterday, Now, Quiet
  <2>3. Lost(u)' \subseteq Lost(u)
    BY <2>1, <2>2, LostFrame DEF Quiet
  <2> QED
    BY <1>0, <2>1, <2>3, LostKept
<1> QED
  BY <1>1 DEF Losses

LEMMA LossesHour ==
    ASSUME Types, Losses, Types', HourPasses
    PROVE  Losses'
<1>1. away' = away
  BY DEF HourPasses, userVars, clocks
<1>2. ASSUME NEW u \in Users \ away
      PROVE  Cardinality(Lost(u)') <= faults'
  <2>1. /\ Cardinality(Lost(u)) <= faults /\ faults \in Nat
        /\ Lost(u)' \subseteq Lost(u) \cup {Yesterday(offset[u])}
        /\ Idle => Lost(u)' \subseteq Lost(u)
    BY FaultsAre, LostHour DEF Losses
  <2>2. CASE Idle
    <3>1. faults' >= faults
      BY <2>1, <2>2 DEF HourPasses
    <3> QED
      BY <2>1, <2>2, <3>1, LostKept
  <2>3. CASE ~ Idle
    <3>1. faults' = faults + 1
      BY <2>3 DEF HourPasses, Fault
    <3> QED
      BY <2>1, <3>1, LostOne
  <2> QED
    BY <2>2, <2>3
<1> QED
  BY <1>1, <1>2 DEF Losses

\* What a fault drops is lost.
LEMMA LossesDrop ==
    ASSUME Types, Losses, ScheduleFail \/ ProcessorDies
    PROVE  Losses'
<1>1. UNCHANGED <<hour, mailed, offset, was, away>> /\ faults' = faults + 1
  BY DEF ScheduleFail, ProcessorDies, Fault, userVars, clocks, mailVars
<1>2. ASSUME NEW u \in Users \ away
      PROVE  Cardinality(Lost(u)') <= faults'
  <2>1. /\ Cardinality(Lost(u)) <= faults
        /\ Lost(u)' \subseteq Lost(u) \cup {Yesterday(offset[u])}
    BY <1>1, LostFault DEF Losses
  <2> QED
    BY <1>1, <2>1, LostOne
<1> QED
  BY <1>1, <1>2 DEF Losses

\* Whoever is on time is in one of the reports.
LEMMA LossesSchedule ==
    ASSUME Types, Staying, Losses, Types', ScheduleReports
    PROVE  Losses'
<1> DEFINE to == {u \in Users : DailyReport(u)}
           R(u) == [offset |-> offset[u], to |-> {v \in to : offset[v] = offset[u]}]
<1>1. /\ due' = {R(u) : u \in to} /\ UNCHANGED <<hour, offset, was, away, mailed, faults>>
      /\ faults \in Nat
  BY FaultsAre DEF ScheduleReports, userVars, clocks, mailVars
<1>2. ASSUME NEW u \in Users \ away
      PROVE  Cardinality(Lost(u)') <= faults'
  <2>1. Cardinality(Lost(u)) <= faults /\ faults' >= faults
    BY <1>1 DEF Losses
  <2>2. OnTime(offset[u]) => OnItsWay(u)'
    <3>1. ASSUME OnTime(offset[u])
          PROVE  \E r \in due' : u \in r.to
      <4>1. u \in to
        BY <3>1, OnTimeIsReported
      <4>2. u \in R(u).to /\ R(u) \in due'
        BY <1>1, <4>1
      <4> QED
        BY <4>2
    <3> QED
      BY <1>1, <3>1 DEF OnItsWay, OnTime, Now
  <2>3. Lost(u)' \subseteq Lost(u)
    <3>1. OnItsWay(u) => OnItsWay(u)'
      BY <2>2 DEF OnItsWay
    <3> QED
      BY <1>1, <3>1, LostFrame
  <2> QED
    BY <2>1, <2>3, LostKept
<1> QED
  BY <1>1, <1>2 DEF Losses

\* A report that is due becomes a job for the same users, and of the day before.
LEMMA LossesProduce ==
    ASSUME Types, Staying, Losses, Types', NEW s \in Slots, NEW r \in due, ProduceDay(r, s)
    PROVE  Losses'
<1>1. /\ jobs[s].pc = "free" /\ due' = due \ {r}
      /\ UNCHANGED <<hour, ticks, offset, was, away, mailed, faults>> /\ faults \in Nat
  BY FaultsAre DEF ProduceDay, userVars, clocks, mailVars
<1>2. PICK k \in JobRecords : /\ jobs' = [jobs EXCEPT ![s] = k]
                              /\ k.pc = "waiting" /\ k.day = Yesterday(r.offset) /\ k.to = r.to
  BY ProduceDayIs
<1>3. jobs'[s] = k /\ (\A t \in Slots \ {s} : jobs'[t] = jobs[t]) /\ jobs[s].to = {}
  BY <1>1, <1>2, NoJobIs, OneJob, Parts
<1>4. ASSUME NEW u \in Users \ away
      PROVE  Cardinality(Lost(u)') <= faults'
  <2>1. Cardinality(Lost(u)) <= faults /\ faults' >= faults
    BY <1>1 DEF Losses
  <2>2. /\ OnTime(offset[u])' = OnTime(offset[u])
        /\ Yesterday(offset[u])' = Yesterday(offset[u])
    BY <1>1 DEF OnTime, Yesterday, Now
  <2>3. OnItsWay(u) => OnItsWay(u)'
    <3>1. CASE u \in r.to
      <4>1. r.offset = offset[u]
        BY <3>1 DEF Staying
      <4> QED
        BY <1>2, <1>3, <2>2, <3>1, <4>1 DEF OnItsWay
    <3>2. CASE u \notin r.to
      BY <1>1, <1>3, <2>2, <3>2 DEF OnItsWay
    <3> QED
      BY <3>1, <3>2
  <2>4. Lost(u)' \subseteq Lost(u)
    BY <1>1, <2>3, LostFrame
  <2> QED
    BY <2>1, <2>4, LostKept
<1> QED
  BY <1>1, <1>4 DEF Losses

LEMMA LossesJob ==
    ASSUME Types, Losses, Types', NEW s \in Slots,
           CountActions(s) \/ SelectStopped(s) \/ SendMail(s)
    PROVE  Losses'
<1>1. UNCHANGED <<hour, ticks, due, offset, was, away, mailed, faults>> /\ faults \in Nat
  BY FaultsAre DEF CountActions, SelectStopped, SendMail, userVars, clocks, mailVars
<1>2. PICK k \in JobRecords : /\ jobs' = [jobs EXCEPT ![s] = k] /\ k.pc # "free"
                              /\ k.day = jobs[s].day /\ k.to = jobs[s].to
  BY CountActionsIs, SelectStoppedIs, SendMailIs
<1>3. \A t \in Slots : jobs'[t].day = jobs[t].day /\ jobs'[t].to = jobs[t].to
  BY <1>2, OneJob
<1>4. ASSUME NEW u \in Users \ away
      PROVE  Cardinality(Lost(u)') <= faults'
  <2>1. Cardinality(Lost(u)) <= faults /\ faults' >= faults
    BY <1>1 DEF Losses
  <2>2. OnItsWay(u)' = OnItsWay(u)
    BY <1>1, <1>3 DEF OnItsWay, OnTime, Yesterday, Now
  <2>3. Lost(u)' \subseteq Lost(u)
    BY <1>1, <2>2, LostFrame
  <2> QED
    BY <2>1, <2>3, LostKept
<1> QED
  BY <1>1, <1>4 DEF Losses

LEMMA MailedIs ==
    ASSUME Types, NEW u \in Users, NEW d \in Days
    PROVE  mailed[u][d] \in Nat
  BY DEF Types, TypeOK

\* The job that ends has sent its mail.
LEMMA LossesDelivered ==
    ASSUME Types, Losses, Types', NEW s \in Slots, NEW rejected \in SUBSET Users,
           Delivered(s, rejected)
    PROVE  Losses'
<1>1. /\ jobs' = [jobs EXCEPT ![s] = NoJob] /\ away' = away \cup rejected
      /\ \A u \in Users, d \in Days :
            mailed'[u][d] = mailed[u][d] + IF u \in jobs[s].to /\ d = jobs[s].day THEN 1 ELSE 0
      /\ UNCHANGED <<hour, ticks, due, offset, was, faults>> /\ faults \in Nat
  BY FaultsAre DEF Delivered, clocks
<1>2. \A t \in Slots \ {s} : jobs'[t] = jobs[t]
  BY <1>1, NoJobIs, OneJob
<1>3. ASSUME NEW u \in Users \ away'
      PROVE  Cardinality(Lost(u)') <= faults'
  <2>1. Cardinality(Lost(u)) <= faults /\ faults' >= faults
    BY <1>1 DEF Losses
  <2>2. ASSUME NEW d \in Days, mailed'[u][d] = 0
        PROVE  /\ mailed[u][d] = 0
               /\ OnItsWay(u) /\ d = Yesterday(offset[u]) => OnItsWay(u)'
    <3>1. /\ mailed[u][d] \in Nat
          /\ mailed'[u][d] = mailed[u][d] + IF u \in jobs[s].to /\ d = jobs[s].day THEN 1 ELSE 0
      BY <1>1, <2>2, MailedIs
    <3>2. mailed[u][d] = 0 /\ ~ (u \in jobs[s].to /\ d = jobs[s].day)
      BY <2>2, <3>1
    <3>3. /\ OnTime(offset[u])' = OnTime(offset[u])
          /\ Yesterday(offset[u])' = Yesterday(offset[u])
      BY <1>1 DEF OnTime, Yesterday, Now
    <3>4. OnItsWay(u) /\ d = Yesterday(offset[u]) => OnItsWay(u)'
      BY <1>1, <1>2, <3>2, <3>3 DEF OnItsWay
    <3> QED
      BY <3>2, <3>4
  <2>3. Lost(u)' \subseteq Lost(u)
    BY <1>1, <2>2, LostFrame
  <2> QED
    BY <2>1, <2>3, LostKept
<1> QED
  BY <1>3 DEF Losses

\* The same days are over by the clocks before they change and after.
LEMMA SameDaysOver ==
    ASSUME NEW now \in Int, NEW o \in Int, NEW o2 \in Int, NEW D \in Int, NEW d \in Int,
           now + o \in (96 * D - 12)..(96 * D + 19), now + o2 \in (96 * D - 12)..(96 * D + 19)
    PROVE  (d + 1) * 96 + 21 <= now + o <=> (d + 1) * 96 + 21 <= now + o2
  OBVIOUS

LEMMA LossesClocks ==
    ASSUME Types, Losses, Types', NEW u \in Users, NEW o \in Offsets, ClocksChange(u, o)
    PROVE  Losses'
<1>1. PICK D \in Int : /\ Now + offset[u] \in (96 * D - 8)..(96 * D + 15)
                       /\ o - offset[u] \in -4..4
  BY ClocksAre
<1>2. /\ ticks = 0 /\ due = {} /\ \A s \in Slots : jobs[s].to = {}
      /\ offset'[u] = o /\ \A v \in Users \ {u} : offset'[v] = offset[v]
      /\ UNCHANGED <<hour, ticks, due, jobs, was, away, mailed, faults>> /\ Now' = Now
  BY ClocksAre DEF mailVars, Now
<1>3. Now \in Int /\ offset[u] \in Int /\ o \in Int /\ faults \in Nat
  BY AllInts, Parts, FaultsAre
<1>4. /\ Now + offset[u] \in (96 * D - 12)..(96 * D + 19)
      /\ Now + o \in (96 * D - 12)..(96 * D + 19)
  BY <1>1, <1>3
<1>5. \A d \in Days :
          (d + 1) * 96 + 21 <= Now + offset[u] <=> (d + 1) * 96 + 21 <= Now + o
  BY <1>3, <1>4, DaysAre, SameDaysOver
<1>6. ASSUME NEW v \in Users
      PROVE  Over(v)' = Over(v)
  BY <1>2, <1>5 DEF Over, Day
<1>7. ASSUME NEW v \in Users
      PROVE  Lost(v)' \subseteq Lost(v)
  <2>1. ~ OnItsWay(v)
    BY <1>2 DEF OnItsWay
  <2> QED
    BY <1>2, <1>6, <2>1 DEF Lost, Missing
<1>8. ASSUME NEW v \in Users \ away
      PROVE  Cardinality(Lost(v)') <= faults'
  <2>1. Cardinality(Lost(v)) <= faults /\ faults' >= faults
    BY <1>2, <1>3 DEF Losses
  <2> QED
    BY <1>7, <2>1, LostKept
<1> QED
  BY <1>2, <1>8 DEF Losses

LEMMA LossesStep == Types /\ Staying /\ Losses /\ [Next]_vars => Losses'
<1> SUFFICES ASSUME Types, Staying, Losses, [Next]_vars
             PROVE  Losses'
  OBVIOUS
<1>0. Types'
  BY TypesStep
<1>1. CASE HourPasses
  BY <1>0, <1>1, LossesHour
<1>2. CASE ScheduleReports
  BY <1>0, <1>2, LossesSchedule
<1>3. CASE ScheduleFail \/ ProcessorDies
  BY <1>3, LossesDrop
<1>4. ASSUME NEW s \in Slots,
             \/ \E r \in due : ProduceDay(r, s)
             \/ CountActions(s) \/ SelectStopped(s) \/ SendMail(s)
             \/ \E rejected \in SUBSET Users : Delivered(s, rejected)
      PROVE  Losses'
  BY <1>0, <1>4, LossesProduce, LossesJob, LossesDelivered
<1>5. CASE \/ \E e \in Events :
                 \/ \E delay \in Delays : NormalizeEvent(e, delay)
                 \/ SaveActiveActor(e) \/ SaveFail(e)
           \/ \E u \in Users :
                 \/ TurnOff(u) \/ TurnOffFail(u)
                 \/ \E o \in Offsets \cup {NoZone} : UpdateUser(u, o)
                 \/ \E r \in Reports : GetEnvUser(u, r) \/ UpdateEnvUser(u, r)
           \/ UNCHANGED vars
  BY <1>0, <1>5, QuietSteps, LossesFrame
<1>6. ASSUME NEW u \in Users, NEW o \in Offsets, ClocksChange(u, o)
      PROVE  Losses'
  BY <1>0, <1>6, LossesClocks
<1> QED
  BY <1>1, <1>2, <1>3, <1>4, <1>5, <1>6 DEF Next

LEMMA LossesInit == Init => Losses
<1> SUFFICES ASSUME Init, NEW u \in Users
             PROVE  Cardinality(Lost(u)) <= faults
  BY DEF Losses
<1>1. Over(u) = {}
  <2>1. \A d \in Days : ~ ((d + 1) * Day + 21 <= Now + offset[u]
                           /\ (d + 1) * Day + 21 > 4 * FirstHour + was[u])
    <3>1. Now = 4 * FirstHour /\ Now \in Int /\ offset[u] \in Int /\ was[u] = offset[u]
      BY TypesInit, AllInts DEF Init, Now
    <3>2. \A d \in Days : d \in Int
      BY TypesInit, DaysAre
    <3> QED
      BY <3>1, <3>2 DEF Day
  <2> QED
    BY <2>1 DEF Over
<1>2. Lost(u) = {}
  BY <1>1 DEF Lost, Missing
<1> QED
  BY <1>2, FS_EmptySet DEF Init

LEMMA LossesAlways == Spec => []Losses
  BY LossesInit, LossesStep, StayingAlways, TypesAlways, PTL DEF Spec

-----------------------------------------------------------------------------
(* Mails of a day *)

IsDue(u) == \E r \in due : u \in r.to
JobsOf(u, d) == {s \in Slots : u \in jobs[s].to /\ jobs[s].day = d}

\* The mails to a user about a day, those included that are made, or would be made now.
Mails(u, d) ==
    mailed[u][d] + Cardinality(JobsOf(u, d))
    + (IF IsDue(u) /\ d = Yesterday(offset[u]) THEN 1 ELSE 0)

\* Quarters of an hour since midnight there, at seven to the hour.
Since(u) == (Now + 3 + offset[u]) % 96

\* There is one tick an hour, and none is left over but for a fault.
OneAtATime == ticks <= 1 + faults /\ (due # {} => ticks <= faults)

\* So many mails about a day, where y is the last that is over: none is about one that is
\* not, only faults make any before it is time for them, and until that has passed one may
\* come of each tick.
FewAt(mails, n, f, d, y, since) ==
    /\ mails <= 1 + f
    /\ d > y => mails = 0
    /\ d = y /\ since <= 27 => mails + n <= 1 + f
    /\ d = y /\ since < 24 => mails <= f

FewMails(u, d) == FewAt(Mails(u, d), ticks, faults, d, Yesterday(offset[u]), Since(u))

Few == \A u \in Users \ away : \A d \in Days : FewMails(u, d)

LEMMA OneAtATimeStep == Types /\ OneAtATime /\ [Next]_vars => OneAtATime'
<1> SUFFICES ASSUME Types, OneAtATime, [Next]_vars
             PROVE  OneAtATime'
  OBVIOUS
<1>0. ticks \in Nat /\ faults \in Nat
  BY FaultsAre DEF Types, TypeOK
<1>1. CASE ticks' = ticks /\ due' \in {due, {}} /\ faults' >= faults /\ faults' \in Nat
  <2>1. ticks' <= 1 + faults'
    <3>1. PICK n \in Nat : n = faults'
      BY <1>1
    <3>2. n >= faults
      BY <1>1, <3>1
    <3>3. ticks <= 1 + n
      BY <1>0, <3>2 DEF OneAtATime
    <3> QED
      BY <1>1, <3>1, <3>3
  <2>2. ASSUME due' # {}
        PROVE  ticks' <= faults'
    <3>1. due # {}
      BY <1>1, <2>2
    <3> QED
      BY <1>0, <1>1, <3>1 DEF OneAtATime
  <2> QED
    BY <2>1, <2>2 DEF OneAtATime
<1>2. CASE HourPasses
  <2>1. ticks' = ticks + 1 /\ due' = due
    BY <1>2 DEF HourPasses
  <2>2. CASE Idle
    BY <1>0, <1>2, <2>1, <2>2 DEF HourPasses, Idle, OneAtATime
  <2>3. CASE ~ Idle
    BY <1>0, <1>2, <2>1, <2>3 DEF HourPasses, Fault, OneAtATime
  <2> QED
    BY <2>2, <2>3
<1>3. CASE ScheduleReports
  BY <1>0, <1>3 DEF ScheduleReports, OneAtATime
<1>4. CASE ScheduleFail \/ ProcessorDies
  BY <1>0, <1>1, <1>4 DEF ScheduleFail, ProcessorDies, Fault
<1>5. ASSUME NEW s \in Slots, NEW r \in due, ProduceDay(r, s)
      PROVE  OneAtATime'
  <2>1. due # {} /\ UNCHANGED <<ticks, faults>>
    BY <1>5 DEF ProduceDay
  <2> QED
    BY <1>0, <2>1 DEF OneAtATime
<1>6. ASSUME NEW s \in Slots,
             \/ CountActions(s) \/ SelectStopped(s) \/ SendMail(s)
             \/ \E rejected \in SUBSET Users : Delivered(s, rejected)
      PROVE  OneAtATime'
  BY <1>0, <1>1, <1>6 DEF CountActions, SelectStopped, SendMail, Delivered
<1>7. CASE Quiet
  <2>1. faults' \in Nat
    BY TypesStep, ReportsAssumption DEF Types, TypeOK
  <2> QED
    BY <1>1, <1>7, <2>1 DEF Quiet
<1>8. ASSUME NEW u \in Users, NEW o \in Offsets, ClocksChange(u, o)
      PROVE  OneAtATime'
  BY <1>8, ClocksAre DEF OneAtATime
<1> QED
  BY <1>2, <1>3, <1>4, <1>5, <1>6, <1>7, <1>8, QuietSteps DEF Next

LEMMA JobsOfAre ==
    ASSUME NEW u, NEW d
    PROVE  IsFiniteSet(JobsOf(u, d)) /\ Cardinality(JobsOf(u, d)) \in Nat
<1>1. IsFiniteSet(JobsOf(u, d))
  BY ReportsAssumption, FS_Subset DEF JobsOf
<1> QED
  BY <1>1, FS_CardinalityType

LEMMA MailsAre ==
    ASSUME Types, NEW u \in Users, NEW d \in Days
    PROVE  Mails(u, d) \in Nat
  BY MailedIs, JobsOfAre DEF Mails

\* No job comes to a user for a day, and nothing is due that was not.
LEMMA MailsFewer ==
    ASSUME Types, Types', NEW u \in Users, NEW d \in Days, UNCHANGED hour,
           offset'[u] = offset[u], mailed'[u][d] <= mailed[u][d],
           JobsOf(u, d)' \subseteq JobsOf(u, d), IsDue(u)' => IsDue(u)
    PROVE  Mails(u, d)' <= Mails(u, d)
<1>1. mailed[u][d] \in Nat /\ mailed'[u][d] \in Nat
  BY MailedIs DEF Types, TypeOK
<1>2. /\ Cardinality(JobsOf(u, d)) \in Nat /\ Cardinality(JobsOf(u, d)') \in Nat
      /\ Cardinality(JobsOf(u, d)') <= Cardinality(JobsOf(u, d))
  <2>1. IsFiniteSet(JobsOf(u, d)) /\ Cardinality(JobsOf(u, d)) \in Nat
    BY JobsOfAre
  <2>2. /\ IsFiniteSet(JobsOf(u, d)')
        /\ Cardinality(JobsOf(u, d)') <= Cardinality(JobsOf(u, d))
    BY <2>1, FS_Subset
  <2> QED
    BY <2>1, <2>2, FS_CardinalityType
<1>3. Yesterday(offset[u])' = Yesterday(offset[u])
  BY DEF Yesterday, Now
<1> QED
  BY <1>1, <1>2, <1>3 DEF Mails

LEMMA FewerAt ==
    ASSUME NEW m \in Nat, NEW n \in Nat, NEW f \in Nat, NEW m2 \in Nat, NEW n2 \in Nat,
           NEW f2 \in Nat, NEW d \in Int, NEW y \in Int, NEW since \in Int,
           FewAt(m, n, f, d, y, since), m2 <= m, n2 <= n, f2 >= f
    PROVE  FewAt(m2, n2, f2, d, y, since)
  BY DEF FewAt

\* Another tick: within a day, and at midnight.
LEMMA SameDayAt ==
    ASSUME NEW m \in Nat, NEW n \in Nat, NEW f \in Nat, NEW f2 \in Nat,
           NEW d \in Int, NEW y \in Int, NEW since \in Int,
           FewAt(m, n, f, d, y, since), (n = 0 /\ f2 = f) \/ f2 = f + 1
    PROVE  FewAt(m, n + 1, f2, d, y, since + 4)
  BY DEF FewAt

LEMMA MidnightAt ==
    ASSUME NEW b \in Nat, NEW x \in 0..1, NEW x2 \in 0..1, NEW n \in Nat, NEW f \in Nat,
           NEW f2 \in Nat, NEW d \in Int, NEW y \in Int, NEW since \in Int, NEW since2 \in Int,
           FewAt(b + x, n, f, d, y, since), f2 >= f, f2 >= n,
           x2 = 1 => d = y + 1 /\ n + 1 <= f2
    PROVE  FewAt(b + x2, n + 1, f2, d, y + 1, since2)
<1>1. b + x \in Nat /\ b + x2 \in Nat /\ b + x <= 1 + f /\ (d > y => b = 0)
  BY DEF FewAt
<1>2. b + x2 <= 1 + f2
  BY <1>1
<1>3. d > y + 1 => b + x2 = 0
  BY <1>1
<1>4. d = y + 1 => b + x2 + (n + 1) <= 1 + f2 /\ b + x2 <= f2
  BY <1>1
<1> QED
  BY <1>2, <1>3, <1>4 DEF FewAt

\* On time, a report for a tick.
LEMMA ReportAt ==
    ASSUME NEW m \in Nat, NEW m2 \in Nat, NEW n \in Nat, NEW f \in Nat,
           NEW d \in Int, NEW y \in Int, NEW since \in 24..27,
           FewAt(m, n, f, d, y, since), n > 0, m2 <= m \/ (m2 <= m + 1 /\ d = y)
    PROVE  FewAt(m2, n - 1, f, d, y, since)
  BY DEF FewAt

LEMMA AtTypes ==
    ASSUME Types, NEW u \in Users
    PROVE  /\ \A d \in Days : Mails(u, d) \in Nat /\ d \in Int
           /\ ticks \in Nat /\ faults \in Nat
           /\ Yesterday(offset[u]) \in Int /\ Since(u) \in 0..95
<1>1. Now + 3 + offset[u] \in Int
  BY AllInts
<1>2. Yesterday(offset[u]) \in Int /\ Since(u) \in 0..95
  BY <1>1 DEF Yesterday, Since, Day
<1> QED
  BY <1>2, MailsAre, DaysAre, FaultsAre DEF Types, TypeOK

LEMMA MailsNext ==
    ASSUME Types', NEW u \in Users, NEW d \in Days
    PROVE  Mails(u, d)' \in Nat /\ ticks' \in Nat /\ faults' \in Nat
<1>1. mailed'[u][d] \in Nat /\ ticks' \in Nat /\ faults' \in Nat
  BY ReportsAssumption DEF Types, TypeOK
<1>2. Cardinality(JobsOf(u, d)') \in Nat
  <2>1. IsFiniteSet(JobsOf(u, d)')
    BY ReportsAssumption, FS_Subset DEF JobsOf
  <2> QED
    BY <2>1, FS_CardinalityType
<1> QED
  BY <1>1, <1>2 DEF Mails

LEMMA FewKept ==
    ASSUME Types, Types', NEW u \in Users, NEW d \in Days, FewMails(u, d), UNCHANGED hour,
           offset'[u] = offset[u], ticks' <= ticks, faults' >= faults,
           Mails(u, d)' <= Mails(u, d)
    PROVE  FewMails(u, d)'
<1>1. Yesterday(offset[u])' = Yesterday(offset[u]) /\ Since(u)' = Since(u)
  BY DEF Yesterday, Now, Since
<1>2. FewAt(Mails(u, d), ticks, faults, d, Yesterday(offset[u]), Since(u))
  BY DEF FewMails
<1>3. /\ Mails(u, d) \in Nat /\ d \in Int /\ ticks \in Nat /\ faults \in Nat
      /\ Yesterday(offset[u]) \in Int /\ Since(u) \in Int
  BY AtTypes
<1>4. Mails(u, d)' \in Nat /\ ticks' \in Nat /\ faults' \in Nat
  BY MailsNext
<1>5. FewAt(Mails(u, d)', ticks', faults', d, Yesterday(offset[u]), Since(u))
  BY <1>2, <1>3, <1>4, FewerAt
<1> QED
  BY <1>1, <1>5 DEF FewMails

LEMMA FewFrame ==
    ASSUME Types, Types', Few, away \subseteq away', UNCHANGED <<hour, ticks, mailed>>,
           due' \subseteq due, faults' >= faults,
           \A s \in Slots : \/ jobs'[s].to \subseteq jobs[s].to /\ jobs'[s].day = jobs[s].day
                            \/ jobs'[s].to = {},
           \A u \in Users \ away' : offset'[u] = offset[u]
    PROVE  Few'
<1>1. ASSUME NEW u \in Users \ away', NEW d \in Days
      PROVE  FewMails(u, d)'
  <2>1. /\ FewMails(u, d) /\ offset'[u] = offset[u] /\ mailed[u][d] \in Nat
        /\ ticks \in Nat
    BY MailedIs DEF Few, Types, TypeOK
  <2>2. JobsOf(u, d)' \subseteq JobsOf(u, d) /\ (IsDue(u)' => IsDue(u))
    BY DEF JobsOf, IsDue
  <2>3. mailed'[u][d] <= mailed[u][d] /\ ticks' <= ticks
    BY <2>1
  <2>4. Mails(u, d)' <= Mails(u, d)
    BY <2>1, <2>2, <2>3, MailsFewer
  <2> QED
    BY <2>1, <2>3, <2>4, FewKept
<1> QED
  BY <1>1 DEF Few

LEMMA FewQuiet ==
    ASSUME Types, Types', Few, Quiet
    PROVE  Few'
  BY FewFrame DEF Quiet

LEMMA FewDrop ==
    ASSUME Types, Types', Few, ScheduleFail \/ ProcessorDies
    PROVE  Few'
<1>1. /\ UNCHANGED <<hour, ticks, mailed, offset, away>> /\ due' = {} /\ faults' = faults + 1
      /\ faults \in Nat
  BY FaultsAre DEF ScheduleFail, ProcessorDies, Fault, userVars, clocks, mailVars
<1>2. \A s \in Slots : \/ jobs'[s].to \subseteq jobs[s].to /\ jobs'[s].day = jobs[s].day
                       \/ jobs'[s].to = {}
  BY NoJobIs DEF ScheduleFail, ProcessorDies
<1>3. faults' >= faults
  BY <1>1
<1> QED
  BY <1>1, <1>2, <1>3, FewFrame

LEMMA FewJob ==
    ASSUME Types, Types', Few, NEW s \in Slots,
           CountActions(s) \/ SelectStopped(s) \/ SendMail(s)
    PROVE  Few'
<1>1. UNCHANGED <<hour, ticks, due, offset, away, mailed, faults>> /\ faults \in Nat
  BY FaultsAre DEF CountActions, SelectStopped, SendMail, userVars, clocks, mailVars
<1>2. PICK k \in JobRecords : /\ jobs' = [jobs EXCEPT ![s] = k] /\ k.pc # "free"
                              /\ k.day = jobs[s].day /\ k.to = jobs[s].to
  BY CountActionsIs, SelectStoppedIs, SendMailIs
<1>3. \A t \in Slots : jobs'[t].day = jobs[t].day /\ jobs'[t].to = jobs[t].to
  BY <1>2, OneJob
<1> QED
  BY <1>1, <1>3, FewFrame

\* A report is for those it is made for on time.
LEMMA FewSchedule ==
    ASSUME Types, Types', Few, ScheduleReports
    PROVE  Few'
<1>1. /\ ticks > 0 /\ ticks' = ticks - 1 /\ due = {}
      /\ UNCHANGED <<hour, jobs, offset, away, mailed, faults>>
  BY DEF ScheduleReports, userVars, clocks, mailVars
<1>2. \A r \in due' : \A u \in r.to : DailyReport(u)
  BY DEF ScheduleReports
<1>3. ASSUME NEW u \in Users \ away, NEW d \in Days
      PROVE  FewMails(u, d)'
  <2>1. FewAt(Mails(u, d), ticks, faults, d, Yesterday(offset[u]), Since(u))
    BY <1>3 DEF Few, FewMails
  <2>2. /\ Mails(u, d) \in Nat /\ d \in Int /\ ticks \in Nat /\ faults \in Nat
        /\ Yesterday(offset[u]) \in Int /\ Since(u) \in Int
    BY AtTypes
  <2>3. Mails(u, d)' \in Nat
    BY MailsNext
  <2>4. Yesterday(offset[u])' = Yesterday(offset[u]) /\ Since(u)' = Since(u)
    BY <1>1 DEF Yesterday, Now, Since
  <2>5. ~ IsDue(u) /\ JobsOf(u, d)' = JobsOf(u, d)
    BY <1>1 DEF IsDue, JobsOf
  <2>6. mailed[u][d] \in Nat /\ Cardinality(JobsOf(u, d)) \in Nat
    BY MailedIs, JobsOfAre
  <2>7. Mails(u, d) = mailed[u][d] + Cardinality(JobsOf(u, d))
    BY <2>5, <2>6 DEF Mails
  <2>8. CASE ~ IsDue(u)'
    <3>1. Mails(u, d)' = Mails(u, d)
      BY <1>1, <2>5, <2>6, <2>7, <2>8 DEF Mails
    <3>2. FewAt(Mails(u, d), ticks - 1, faults, d, Yesterday(offset[u]), Since(u))
      <4>1. ticks - 1 \in Nat /\ ticks - 1 <= ticks /\ Mails(u, d) <= Mails(u, d)
            /\ faults >= faults
        BY <1>1, <2>2
      <4> QED
        BY <2>1, <2>2, <4>1, FewerAt
    <3> QED
      BY <1>1, <2>4, <3>1, <3>2 DEF FewMails
  <2>9. CASE IsDue(u)'
    <3>1. DailyReport(u)
      BY <1>2, <2>9 DEF IsDue
    <3>2. Since(u) \in 24..27
      BY <3>1, ReportIsOnTime DEF OnTime, Since
    <3>3. CASE d = Yesterday(offset[u])
      <4>1. Mails(u, d)' = Mails(u, d) + 1
        BY <1>1, <2>4, <2>5, <2>6, <2>7, <2>9, <3>3 DEF Mails
      <4>2. Mails(u, d) + 1 \in Nat /\ Mails(u, d) + 1 <= Mails(u, d) + 1
        BY <2>2
      <4>3. FewAt(Mails(u, d) + 1, ticks - 1, faults, d, Yesterday(offset[u]), Since(u))
        BY <1>1, <2>1, <2>2, <3>2, <3>3, <4>2, ReportAt
      <4> QED
        BY <1>1, <2>4, <4>1, <4>3 DEF FewMails
    <3>4. CASE d # Yesterday(offset[u])
      <4>1. Mails(u, d)' = Mails(u, d)
        BY <1>1, <2>4, <2>5, <2>6, <2>7, <3>4 DEF Mails
      <4>2. Mails(u, d) <= Mails(u, d)
        BY <2>2
      <4>3. FewAt(Mails(u, d), ticks - 1, faults, d, Yesterday(offset[u]), Since(u))
        BY <1>1, <2>1, <2>2, <3>2, <4>2, ReportAt
      <4> QED
        BY <1>1, <2>4, <4>1, <4>3 DEF FewMails
    <3> QED
      BY <3>3, <3>4
  <2> QED
    BY <2>8, <2>9
<1> QED
  BY <1>1, <1>3 DEF Few

\* A report that is due becomes a job.
LEMMA FewProduce ==
    ASSUME Types, Types', Staying, Few, NEW s \in Slots, NEW r \in due, ProduceDay(r, s)
    PROVE  Few'
<1>1. /\ jobs[s].pc = "free" /\ due' = due \ {r}
      /\ UNCHANGED <<hour, ticks, offset, away, mailed, faults>> /\ faults \in Nat
  BY FaultsAre DEF ProduceDay, userVars, clocks, mailVars
<1>2. PICK k \in JobRecords : /\ jobs' = [jobs EXCEPT ![s] = k]
                              /\ k.pc = "waiting" /\ k.day = Yesterday(r.offset) /\ k.to = r.to
  BY ProduceDayIs
<1>3. jobs'[s] = k /\ (\A t \in Slots \ {s} : jobs'[t] = jobs[t]) /\ jobs[s].to = {}
  BY <1>1, <1>2, NoJobIs, OneJob, Parts
<1>4. ASSUME NEW u \in Users \ away, NEW d \in Days
      PROVE  FewMails(u, d)'
  <2>1. /\ FewMails(u, d) /\ faults' >= faults /\ ticks \in Nat /\ ticks' <= ticks
        /\ mailed[u][d] \in Nat /\ Cardinality(JobsOf(u, d)) \in Nat
    BY <1>1, MailedIs, JobsOfAre DEF Few, Types, TypeOK
  <2>2. Yesterday(offset[u])' = Yesterday(offset[u])
    BY <1>1 DEF Yesterday, Now
  <2>3. CASE u \in r.to
    <3>1. IsDue(u) /\ r.offset = offset[u]
      BY <2>3 DEF IsDue, Staying
    <3>2. ~ IsDue(u)'
      BY <1>1, <3>1 DEF IsDue, Staying
    <3>3. CASE d = Yesterday(offset[u])
      <4>1. JobsOf(u, d)' = JobsOf(u, d) \cup {s} /\ s \notin JobsOf(u, d)
        BY <1>2, <1>3, <2>3, <3>1, <3>3 DEF JobsOf
      <4>2. Cardinality(JobsOf(u, d) \cup {s}) = Cardinality(JobsOf(u, d)) + 1
        BY <4>1, JobsOfAre, FS_AddElement
      <4>3. Mails(u, d)' = Mails(u, d)
        BY <1>1, <2>1, <2>2, <3>1, <3>2, <3>3, <4>1, <4>2 DEF Mails
      <4> QED
        BY <1>1, <2>1, <4>3, FewKept, MailsAre
    <3>4. CASE d # Yesterday(offset[u])
      <4>1. JobsOf(u, d)' = JobsOf(u, d)
        BY <1>2, <1>3, <2>3, <3>1, <3>4 DEF JobsOf
      <4>2. Mails(u, d)' = Mails(u, d)
        BY <1>1, <2>1, <2>2, <3>4, <4>1 DEF Mails
      <4> QED
        BY <1>1, <2>1, <4>2, FewKept, MailsAre
    <3> QED
      BY <3>3, <3>4
  <2>4. CASE u \notin r.to
    <3>1. JobsOf(u, d)' = JobsOf(u, d) /\ IsDue(u)' = IsDue(u)
      BY <1>1, <1>2, <1>3, <2>4 DEF JobsOf, IsDue
    <3>2. Mails(u, d)' = Mails(u, d)
      BY <1>1, <2>2, <3>1 DEF Mails
    <3> QED
      BY <1>1, <2>1, <3>2, FewKept, MailsAre
  <2> QED
    BY <2>3, <2>4
<1> QED
  BY <1>1, <1>4 DEF Few

\* A job becomes a mail.
LEMMA FewDelivered ==
    ASSUME Types, Types', Few, NEW s \in Slots, NEW rejected \in SUBSET Users,
           Delivered(s, rejected)
    PROVE  Few'
<1>1. /\ jobs' = [jobs EXCEPT ![s] = NoJob] /\ away' = away \cup rejected
      /\ \A u \in Users, d \in Days :
            mailed'[u][d] = mailed[u][d] + IF u \in jobs[s].to /\ d = jobs[s].day THEN 1 ELSE 0
      /\ UNCHANGED <<hour, ticks, due, offset, faults>> /\ faults \in Nat
  BY FaultsAre DEF Delivered
<1>2. jobs'[s].to = {} /\ \A t \in Slots \ {s} : jobs'[t] = jobs[t]
  BY <1>1, NoJobIs, OneJob
<1>3. ASSUME NEW u \in Users \ away', NEW d \in Days
      PROVE  FewMails(u, d)'
  <2>1. /\ FewMails(u, d) /\ faults' >= faults /\ ticks \in Nat /\ ticks' <= ticks
        /\ mailed[u][d] \in Nat /\ IsFiniteSet(JobsOf(u, d))
        /\ Cardinality(JobsOf(u, d)) \in Nat
    BY <1>1, MailedIs, JobsOfAre DEF Few, Types, TypeOK
  <2>2. Yesterday(offset[u])' = Yesterday(offset[u]) /\ IsDue(u)' = IsDue(u)
    BY <1>1 DEF Yesterday, Now, IsDue
  <2>3. CASE u \in jobs[s].to /\ d = jobs[s].day
    <3>1. JobsOf(u, d)' = JobsOf(u, d) \ {s} /\ s \in JobsOf(u, d)
      BY <1>2, <2>3 DEF JobsOf
    <3>2. Cardinality(JobsOf(u, d) \ {s}) = Cardinality(JobsOf(u, d)) - 1
      BY <2>1, <3>1, FS_RemoveElement
    <3>3. mailed'[u][d] = mailed[u][d] + 1
      BY <1>1, <2>3
    <3>4. Mails(u, d)' = Mails(u, d)
      BY <2>1, <2>2, <3>1, <3>2, <3>3 DEF Mails
    <3> QED
      BY <1>1, <2>1, <3>4, FewKept, MailsAre
  <2>4. CASE ~ (u \in jobs[s].to /\ d = jobs[s].day)
    <3>1. JobsOf(u, d)' = JobsOf(u, d) /\ mailed'[u][d] = mailed[u][d]
      BY <1>1, <1>2, <2>1, <2>4 DEF JobsOf
    <3>2. Mails(u, d)' = Mails(u, d)
      BY <2>2, <3>1 DEF Mails
    <3> QED
      BY <1>1, <2>1, <3>2, FewKept, MailsAre
  <2> QED
    BY <2>3, <2>4
<1> QED
  BY <1>3 DEF Few

LEMMA HourLater ==
    ASSUME NEW n \in Int
    PROVE  \/ (n + 4) \div 96 = n \div 96 /\ (n + 4) % 96 = (n % 96) + 4
           \/ (n + 4) \div 96 = n \div 96 + 1
  OBVIOUS

LEMMA FewHour ==
    ASSUME Types, Types', Few, OneAtATime, OneAtATime', HourPasses
    PROVE  Few'
<1>1. /\ hour' = hour + 1 /\ ticks' = ticks + 1 /\ ticks \in Nat /\ faults \in Nat
      /\ UNCHANGED <<due, jobs, offset, away, mailed>>
  BY FaultsAre DEF HourPasses, userVars, clocks, mailVars, Types, TypeOK
<1>2. PICK f2 \in Nat : f2 = faults'
  BY ReportsAssumption DEF Types, TypeOK
<1>3. /\ (ticks = 0 /\ f2 = faults) \/ f2 = faults + 1
      /\ due # {} => f2 = faults + 1
  BY <1>2 DEF HourPasses, Idle, Fault
<1>4. /\ f2 >= faults /\ f2 >= ticks /\ (due # {} => ticks + 1 <= f2)
  BY <1>1, <1>3 DEF OneAtATime
<1>5. ASSUME NEW u \in Users \ away, NEW d \in Days
      PROVE  FewMails(u, d)'
  <2>1. FewAt(Mails(u, d), ticks, faults, d, Yesterday(offset[u]), Since(u))
    BY <1>5 DEF Few, FewMails
  <2>2. /\ Mails(u, d) \in Nat /\ d \in Int
        /\ Yesterday(offset[u]) \in Int /\ Since(u) \in Int
    BY AtTypes
  <2>3. JobsOf(u, d)' = JobsOf(u, d) /\ IsDue(u)' = IsDue(u)
    BY <1>1 DEF JobsOf, IsDue
  <2>4. \/ Yesterday(offset[u])' = Yesterday(offset[u]) /\ Since(u)' = Since(u) + 4
        \/ Yesterday(offset[u])' = Yesterday(offset[u]) + 1
    <3> DEFINE n == Now + 3 + offset[u]
    <3>1. n \in Int /\ Now \in Int /\ offset[u] \in Int
      BY AllInts
    <3>2. Now' + 3 + offset'[u] = n + 4
      BY <1>1, <3>1, AllInts DEF Now
    <3>3. /\ Yesterday(offset[u]) = n \div 96 - 1 /\ Since(u) = n % 96
          /\ Yesterday(offset[u])' = (n + 4) \div 96 - 1 /\ Since(u)' = (n + 4) % 96
      BY <3>2 DEF Yesterday, Since, Day
    <3> HIDE DEF n
    <3>4. \/ (n + 4) \div 96 = n \div 96 /\ (n + 4) % 96 = (n % 96) + 4
          \/ (n + 4) \div 96 = n \div 96 + 1
      BY <3>1, HourLater
    <3>5. n \div 96 \in Int
      BY <3>1
    <3> QED
      BY <3>3, <3>4, <3>5
  <2>5. CASE Yesterday(offset[u])' = Yesterday(offset[u]) /\ Since(u)' = Since(u) + 4
    <3>1. Mails(u, d)' = Mails(u, d)
      BY <1>1, <2>3, <2>5 DEF Mails
    <3>2. FewAt(Mails(u, d), ticks + 1, f2, d, Yesterday(offset[u]), Since(u) + 4)
      BY <1>1, <1>3, <2>1, <2>2, SameDayAt
    <3> QED
      BY <1>1, <1>2, <2>5, <3>1, <3>2 DEF FewMails
  <2>6. CASE Yesterday(offset[u])' = Yesterday(offset[u]) + 1
    <3> DEFINE b == mailed[u][d] + Cardinality(JobsOf(u, d))
               x == IF IsDue(u) /\ d = Yesterday(offset[u]) THEN 1 ELSE 0
               x2 == IF IsDue(u) /\ d = Yesterday(offset[u]) + 1 THEN 1 ELSE 0
    <3>1. b \in Nat /\ x \in 0..1 /\ x2 \in 0..1
      BY MailedIs, JobsOfAre
    <3>2. Mails(u, d) = b + x /\ Mails(u, d)' = b + x2
      BY <1>1, <2>3, <2>6 DEF Mails
    <3>3. x2 = 1 => d = Yesterday(offset[u]) + 1 /\ ticks + 1 <= f2
      <4>1. IsDue(u) => due # {}
        BY DEF IsDue
      <4> QED
        BY <1>4, <4>1
    <3>4. PICK since2 \in Int : since2 = Since(u)'
      <4>1. Now' + 3 + offset'[u] \in Int
        BY <1>1, AllInts DEF Now
      <4> QED
        BY <4>1 DEF Since
    <3> HIDE DEF b, x, x2
    <3>5. FewAt(b + x, ticks, faults, d, Yesterday(offset[u]), Since(u))
      BY <2>1, <3>2
    <3>6. FewAt(b + x2, ticks + 1, f2, d, Yesterday(offset[u]) + 1, since2)
      BY <1>1, <1>4, <2>2, <3>1, <3>3, <3>5, MidnightAt
    <3> QED
      BY <1>1, <1>2, <2>6, <3>2, <3>4, <3>6 DEF FewMails
  <2> QED
    BY <2>4, <2>5, <2>6
<1> QED
  BY <1>1, <1>5 DEF Few

\* About midnight no mail is about the day that is ending, or has ended.
LEMMA AboutMidnight ==
    ASSUME NEW n \in Int, NEW D \in Int, n \in (96 * D - 9)..(96 * D + 22)
    PROVE  \/ n \div 96 - 1 = D - 2 /\ n % 96 >= 87
           \/ n \div 96 - 1 = D - 1 /\ n % 96 <= 22
  OBVIOUS

LEMMA ClocksAt ==
    ASSUME NEW m \in Nat, NEW d \in Int, NEW D \in Int,
           NEW y \in Int, NEW since \in Int, NEW y2 \in Int, NEW since2 \in Int,
           FewAt(m, 0, 0, d, y, since),
           y = D - 2 \/ (y = D - 1 /\ since <= 22),
           (y2 = D - 2 /\ since2 >= 87) \/ (y2 = D - 1 /\ since2 <= 22)
    PROVE  FewAt(m, 0, 0, d, y2, since2)
<1>1. m <= 1 /\ (d > D - 2 => m = 0)
  BY DEF FewAt
<1> QED
  BY <1>1 DEF FewAt

LEMMA FewClocks ==
    ASSUME Types, Few, NEW u \in Users, NEW o \in Offsets, ClocksChange(u, o)
    PROVE  Few'
<1>1. PICK D \in Int : /\ Now + offset[u] \in (96 * D - 8)..(96 * D + 15)
                       /\ o - offset[u] \in -4..4
  BY ClocksAre
<1>2. /\ ticks = 0 /\ due = {} /\ faults = 0
      /\ offset'[u] = o /\ \A v \in Users \ {u} : offset'[v] = offset[v]
      /\ UNCHANGED <<hour, ticks, due, jobs, away, mailed, faults>> /\ Now' = Now
  BY ClocksAre DEF mailVars, Now
<1>3. Now \in Int /\ offset[u] \in Int /\ o \in Int
  BY AllInts, Parts
<1>4. ASSUME NEW v \in Users, NEW d \in Days
      PROVE  Mails(v, d)' = Mails(v, d)
  BY <1>2 DEF Mails, JobsOf, IsDue
<1>5. ASSUME NEW v \in Users \ away, NEW d \in Days
      PROVE  FewAt(Mails(v, d), 0, 0, d, Yesterday(offset[v])', Since(v)')
  <2>1. FewAt(Mails(v, d), 0, 0, d, Yesterday(offset[v]), Since(v))
    BY <1>2 DEF Few, FewMails
  <2>2. CASE v = u
    <3> DEFINE n == Now + 3 + offset[u]
               n2 == Now + 3 + o
    <3>1. /\ n \in Int /\ n \in (96 * D - 9)..(96 * D + 22)
          /\ n2 \in Int /\ n2 \in (96 * D - 9)..(96 * D + 22)
      BY <1>1, <1>3
    <3>2. /\ Yesterday(offset[u]) = n \div 96 - 1 /\ Since(u) = n % 96
          /\ Yesterday(offset[u])' = n2 \div 96 - 1 /\ Since(u)' = n2 % 96
      BY <1>2 DEF Yesterday, Since, Day
    <3> HIDE DEF n, n2
    <3>3. /\ n \div 96 - 1 = D - 2 \/ (n \div 96 - 1 = D - 1 /\ n % 96 <= 22)
          /\ \/ n2 \div 96 - 1 = D - 2 /\ n2 % 96 >= 87
             \/ n2 \div 96 - 1 = D - 1 /\ n2 % 96 <= 22
      BY <3>1, AboutMidnight
    <3>4. /\ n \div 96 - 1 \in Int /\ n % 96 \in Int /\ n2 \div 96 - 1 \in Int /\ n2 % 96 \in Int
          /\ Mails(u, d) \in Nat /\ d \in Int
      BY <3>1, AtTypes
    <3>5. FewAt(Mails(u, d), 0, 0, d, n2 \div 96 - 1, n2 % 96)
      BY <2>1, <2>2, <3>2, <3>3, <3>4, ClocksAt
    <3> QED
      BY <2>2, <3>2, <3>5
  <2>3. CASE v # u
    <3>1. Yesterday(offset[v])' = Yesterday(offset[v]) /\ Since(v)' = Since(v)
      BY <1>2, <2>3 DEF Yesterday, Since
    <3> QED
      BY <2>1, <3>1
  <2> QED
    BY <2>2, <2>3
<1> QED
  BY <1>2, <1>4, <1>5 DEF Few, FewMails

LEMMA FewStep == Types /\ Staying /\ OneAtATime /\ Few /\ [Next]_vars => Few'
<1> SUFFICES ASSUME Types, Staying, OneAtATime, Few, [Next]_vars
             PROVE  Few'
  OBVIOUS
<1>0. Types' /\ OneAtATime'
  BY TypesStep, OneAtATimeStep
<1>1. CASE HourPasses
  BY <1>0, <1>1, FewHour
<1>2. CASE ScheduleReports
  BY <1>0, <1>2, FewSchedule
<1>3. CASE ScheduleFail \/ ProcessorDies
  BY <1>0, <1>3, FewDrop
<1>4. ASSUME NEW s \in Slots,
             \/ \E r \in due : ProduceDay(r, s)
             \/ CountActions(s) \/ SelectStopped(s) \/ SendMail(s)
             \/ \E rejected \in SUBSET Users : Delivered(s, rejected)
      PROVE  Few'
  BY <1>0, <1>4, FewProduce, FewJob, FewDelivered
<1>5. CASE \/ \E e \in Events :
                 \/ \E delay \in Delays : NormalizeEvent(e, delay)
                 \/ SaveActiveActor(e) \/ SaveFail(e)
           \/ \E u \in Users :
                 \/ TurnOff(u) \/ TurnOffFail(u)
                 \/ \E o \in Offsets \cup {NoZone} : UpdateUser(u, o)
                 \/ \E r \in Reports : GetEnvUser(u, r) \/ UpdateEnvUser(u, r)
           \/ UNCHANGED vars
  BY <1>0, <1>5, QuietSteps, FewQuiet
<1>6. ASSUME NEW u \in Users, NEW o \in Offsets, ClocksChange(u, o)
      PROVE  Few'
  BY <1>6, FewClocks
<1> QED
  BY <1>1, <1>2, <1>3, <1>4, <1>5, <1>6 DEF Next

LEMMA FewInit == Init => OneAtATime /\ Few
<1> SUFFICES ASSUME Init
             PROVE  OneAtATime /\ Few
  OBVIOUS
<1>1. Types
  BY TypesInit
<1>2. OneAtATime
  BY DEF Init, OneAtATime
<1>3. ASSUME NEW u \in Users, NEW d \in Days
      PROVE  FewMails(u, d)
  <2>1. JobsOf(u, d) = {} /\ ~ IsDue(u) /\ mailed[u][d] = 0
    BY NoJobIs DEF Init, JobsOf, IsDue
  <2>2. Mails(u, d) = 0
    BY <2>1, FS_EmptySet DEF Mails
  <2> QED
    BY <2>2 DEF Init, FewMails, FewAt
<1> QED
  BY <1>2, <1>3 DEF Few

LEMMA FewAlways == Spec => []Few
<1>1. Types /\ OneAtATime /\ [Next]_vars => OneAtATime'
  BY OneAtATimeStep
<1> QED
  BY <1>1, FewInit, FewStep, StayingAlways, TypesAlways, PTL DEF Spec

LEMMA OneReport == Types /\ Losses /\ Few => OneReportPerDay
<1> SUFFICES ASSUME Types, Losses, Few, NEW u \in Users \ away
             PROVE  /\ Idle => Cardinality(Missing(u)) <= faults
                    /\ \A d \in Days : mailed[u][d] <= 1 + faults
  BY DEF OneReportPerDay
<1>1. ASSUME Idle
      PROVE  Cardinality(Missing(u)) <= faults
  <2>1. \A s \in Slots : jobs[s].to = {}
    BY <1>1, NoJobIs, Parts DEF Idle
  <2>2. ~ OnItsWay(u)
    BY <1>1, <2>1 DEF Idle, OnItsWay
  <2>3. Lost(u) = Missing(u)
    BY <2>2 DEF Lost
  <2> QED
    BY <2>3 DEF Losses
<1>2. ASSUME NEW d \in Days
      PROVE  mailed[u][d] <= 1 + faults
  <2>1. Mails(u, d) <= 1 + faults
    BY DEF Few, FewMails, FewAt
  <2>2. mailed[u][d] <= Mails(u, d) /\ mailed[u][d] \in Nat /\ Mails(u, d) \in Nat
    BY MailedIs, JobsOfAre, MailsAre DEF Mails
  <2> QED
    BY <2>1, <2>2, FaultsAre
<1> QED
  BY <1>1, <1>2

\* Who stays gets a report of each day, wherever they are, and one only, but for one
\* that is missing, and one too many, for each fault.
THEOREM EachDayIsReported == Spec => []OneReportPerDay
  BY OneReport, LossesAlways, FewAlways, TypesAlways, PTL

-----------------------------------------------------------------------------
(* What the reports miss *)

\* What is saved is saved within the hour that it was normalized in.
SavedAtOnce == \A e \in Events : saves[e] < MaxSaves => at[e] = Now

\* No report is made before six of the day after.
NotBefore ==
    \A u \in Users \ away : \A d \in Days :
        mailed[u][d] > 0 => Now + 3 + offset[u] >= (d + 1) * 96 + 24

\* The offset that a user's report of a day is made with.
OffsetOn(u, d) == IF d < turn[u] THEN was[u] ELSE offset[u]

\* What was normalized by its time, of that day, for a user who is not further east.
OfDay(e, u, d) ==
    /\ time[e] >= at[e] /\ was[u] <= 12 /\ offset[u] <= 12
    /\ d * 96 <= time[e] - OffsetOn(u, d) /\ time[e] - OffsetOn(u, d) < (d + 1) * 96

AllCounted ==
    /\ \A s \in Slots : \A u \in jobs[s].to \ away : \A e \in Events :
          jobs[s].pc # "waiting" /\ OfDay(e, u, jobs[s].day) => jobs[s].count[e] = rows[e]
    /\ \A u \in Users \ away : \A d \in Days : \A e \in Events :
          mailed[u][d] > 0 /\ OfDay(e, u, d) => counted[u][e] >= rows[e]

Whole == SavedAtOnce /\ NotBefore /\ AllCounted

\* No further than three hours east of UTC, a day is over when its report is made.
LEMMA DayIsOver ==
    ASSUME NEW h \in Int, NEW o \in Int, NEW o2 \in Int, NEW d \in Int, o <= 12, o2 <= 12,
           4 * h - o < (d + 1) * 96, 4 * h + 3 + o2 >= (d + 1) * 96 + 24
    PROVE  FALSE
  OBVIOUS

LEMMA MadeAfter ==
    ASSUME NEW n \in Int, n % 96 \in 24..27
    PROVE  n >= (n \div 96 - 1 + 1) * 96 + 24
  OBVIOUS

LEMMA JobsAreAfter ==
    ASSUME Types, Prepared, NEW u \in Users \ away, NEW s \in Slots, u \in jobs[s].to
    PROVE  /\ Now + 3 + offset[u] >= (jobs[s].day + 1) * 96 + 24
           /\ jobs[s].offset = offset[u]
<1> DEFINE n == Now + 3 + offset[u]
<1>1. jobs[s].offset = offset[u] /\ OnTime(offset[u]) /\ jobs[s].day = Yesterday(offset[u])
  BY DEF Prepared
<1>2. n \in Int /\ n % 96 \in 24..27 /\ jobs[s].day = n \div 96 - 1
  BY <1>1, AllInts DEF OnTime, Yesterday, Day
<1> HIDE DEF n
<1>3. n >= (jobs[s].day + 1) * 96 + 24
  BY <1>2, MadeAfter
<1> QED
  BY <1>1, <1>3 DEF n

\* What is still to be saved is not of a day that is reported already.
LEMMA NotReported ==
    ASSUME Types, NEW u \in Users, NEW e \in Events, NEW d \in Nat, OfDay(e, u, d),
           at[e] = Now, Now + 3 + offset[u] >= (d + 1) * 96 + 24
    PROVE  FALSE
<1>1. PICK o \in Int : o = OffsetOn(u, d) /\ o <= 12
  BY AllInts DEF OfDay, OffsetOn
<1>2. /\ Now = 4 * hour /\ hour \in Int /\ offset[u] \in Int /\ offset[u] <= 12
      /\ time[e] \in Int /\ time[e] >= 4 * hour /\ time[e] - o < (d + 1) * 96
      /\ 4 * hour + 3 + offset[u] >= (d + 1) * 96 + 24
  BY <1>1, AllInts DEF OfDay, Now
<1>3. 4 * hour - o < (d + 1) * 96
  BY <1>1, <1>2
<1> QED
  BY <1>1, <1>2, <1>3, DayIsOver

\* The events, the mails, and the jobs that have counted them, are as they were.
LEMMA WholeFrame ==
    ASSUME Types, Whole, UNCHANGED <<clocks, eventVars, mailVars>>, away \subseteq away',
           \A u \in Users \ away' : offset'[u] = offset[u],
           \/ hour' = hour
           \/ hour' = hour + 1 /\ \A e \in Events : saves[e] = MaxSaves,
           \A s \in Slots : \/ jobs'[s].pc = "waiting"
                            \/ jobs'[s].to = {}
                            \/ /\ jobs[s].pc # "waiting" /\ jobs'[s].to = jobs[s].to
                               /\ jobs'[s].day = jobs[s].day /\ jobs'[s].count = jobs[s].count
    PROVE  Whole'
<1>1. UNCHANGED <<was, turn, time, at, saves, rows, lastActive, mailed, counted>>
  BY DEF clocks, eventVars, mailVars
<1>2. Now' = Now \/ Now' = Now + 4
  BY AllInts DEF Now
<1>3. SavedAtOnce'
  <2>1. CASE hour' = hour
    BY <1>1, <2>1 DEF Whole, SavedAtOnce, Now
  <2>2. CASE \A e \in Events : saves[e] = MaxSaves
    BY <1>1, <2>2 DEF SavedAtOnce, MaxSaves
  <2> QED
    BY <2>1, <2>2
<1>4. NotBefore'
  <2>1. ASSUME NEW u \in Users \ away', NEW d \in Days, mailed[u][d] > 0
        PROVE  Now' + 3 + offset'[u] >= (d + 1) * 96 + 24
    <3>1. /\ Now + 3 + offset[u] >= (d + 1) * 96 + 24 /\ offset'[u] = offset[u]
          /\ Now \in Int /\ offset[u] \in Int /\ d \in Int
      BY <2>1, AllInts, DaysAre DEF Whole, NotBefore
    <3> QED
      BY <1>2, <3>1
  <2> QED
    BY <1>1, <2>1 DEF NotBefore
<1>5. ASSUME NEW u \in Users \ away', NEW e \in Events, NEW d, OfDay(e, u, d)'
      PROVE  OfDay(e, u, d)
  BY <1>1, <1>5 DEF OfDay, OffsetOn
<1>6. \A s \in Slots : jobs[s].to \subseteq Users
  BY JobIs
<1>7. ASSUME NEW s \in Slots, NEW u \in jobs'[s].to \ away', NEW e \in Events,
             jobs'[s].pc # "waiting", OfDay(e, u, jobs[s].day)'
      PROVE  jobs'[s].count[e] = rows[e]
  <2>1. /\ jobs[s].pc # "waiting" /\ jobs'[s].to = jobs[s].to
        /\ jobs'[s].day = jobs[s].day /\ jobs'[s].count = jobs[s].count
    BY <1>7
  <2>2. u \in Users \ away' /\ u \in jobs[s].to \ away
    BY <1>6, <1>7, <2>1
  <2>3. OfDay(e, u, jobs[s].day)
    BY <1>1, <1>7, <2>1, <2>2 DEF OfDay, OffsetOn
  <2> QED
    BY <2>1, <2>2, <2>3 DEF Whole, AllCounted
<1>8. ASSUME NEW u \in Users \ away', NEW d \in Days, NEW e \in Events,
             mailed[u][d] > 0, OfDay(e, u, d)'
      PROVE  counted[u][e] >= rows[e]
  <2>1. OfDay(e, u, d)
    BY <1>5, <1>8
  <2>2. u \in Users \ away
    BY <1>8
  <2> QED
    BY <1>8, <2>1, <2>2 DEF Whole, AllCounted
<1>9. AllCounted'
  BY <1>1, <1>7, <1>8 DEF AllCounted
<1> QED
  BY <1>3, <1>4, <1>9 DEF Whole

LEMMA WholeCount ==
    ASSUME Types, Clocks, Prepared, Whole, NEW s \in Slots, CountActions(s)
    PROVE  Whole'
<1>1. UNCHANGED <<hour, offset, was, turn, away, time, at, saves, rows, lastActive, mailed, counted>>
  BY DEF CountActions, userVars, clocks, eventVars, mailVars
<1>2. PICK k \in JobRecords :
          /\ jobs' = [jobs EXCEPT ![s] = k] /\ k.pc = "counted"
          /\ k.offset = jobs[s].offset /\ k.day = jobs[s].day /\ k.to = jobs[s].to
          /\ k.count = [e \in Events |-> IF InRange(jobs[s], time[e]) THEN rows[e] ELSE 0]
  BY CountActionsIs
<1>3. jobs'[s] = k /\ \A t \in Slots \ {s} : jobs'[t] = jobs[t]
  BY <1>2, OneJob
<1>4. \A u, e, d : OfDay(e, u, d)' = OfDay(e, u, d)
  BY <1>1 DEF OfDay, OffsetOn
<1>5. ASSUME NEW u \in k.to \ away, NEW e \in Events, OfDay(e, u, k.day)
      PROVE  k.count[e] = rows[e]
  <2>1. u \in Users \ away /\ u \in jobs[s].to
    BY <1>2, <1>5, JobIs
  <2>2. /\ jobs[s].offset = offset[u] /\ jobs[s].day \in Int /\ offset[u] \in Int
        /\ time[e] \in Int
    BY <2>1, AllInts, JobIs, JobsAreAfter
  <2>3. OffsetOn(u, jobs[s].day) = offset[u]
    <3>1. OnTime(offset[u]) /\ jobs[s].day = Yesterday(offset[u])
      BY <2>1 DEF Prepared
    <3>2. was[u] # offset[u] => turn[u] <= jobs[s].day
      BY <2>1, <3>1, TurnHasCome
    <3>3. turn[u] \in Int
      BY <2>1, AllInts
    <3> QED
      BY <2>2, <3>2, <3>3 DEF OffsetOn
  <2>4. /\ jobs[s].day * 96 <= time[e] - offset[u]
        /\ time[e] - offset[u] < (jobs[s].day + 1) * 96
    BY <1>2, <1>5, <2>3 DEF OfDay
  <2>5. InRange(jobs[s], time[e])
    BY <2>2, <2>4 DEF InRange, Day
  <2> QED
    BY <1>2, <2>5
<1>6. AllCounted'
  <2>1. ASSUME NEW t \in Slots, NEW u \in jobs'[t].to \ away, NEW e \in Events,
               jobs'[t].pc # "waiting", OfDay(e, u, jobs'[t].day)
        PROVE  jobs'[t].count[e] = rows[e]
    <3>1. CASE t = s
      BY <1>3, <1>5, <2>1, <3>1
    <3>2. CASE t # s
      BY <1>3, <2>1, <3>2 DEF Whole, AllCounted
    <3> QED
      BY <3>1, <3>2
  <2>2. \A u \in Users \ away, d \in Days, e \in Events :
            mailed[u][d] > 0 /\ OfDay(e, u, d) => counted[u][e] >= rows[e]
    BY DEF Whole, AllCounted
  <2> QED
    BY <1>1, <1>4, <2>1, <2>2 DEF AllCounted
<1>7. SavedAtOnce' /\ NotBefore'
  BY <1>1 DEF Whole, SavedAtOnce, NotBefore, Now
<1> QED
  BY <1>6, <1>7 DEF Whole

LEMMA WholeDelivered ==
    ASSUME Types, Prepared, Whole, NEW s \in Slots, NEW rejected \in SUBSET Users,
           Delivered(s, rejected)
    PROVE  Whole'
<1>1. /\ jobs' = [jobs EXCEPT ![s] = NoJob] /\ away' = away \cup rejected
      /\ \A u \in Users, d \in Days :
            mailed'[u][d] = mailed[u][d] + IF u \in jobs[s].to /\ d = jobs[s].day THEN 1 ELSE 0
      /\ \A u \in Users, e \in Events :
            counted'[u][e] = counted[u][e] + IF u \in jobs[s].to THEN jobs[s].count[e] ELSE 0
      /\ UNCHANGED <<hour, offset, was, turn, time, at, saves, rows, lastActive>>
      /\ jobs[s].pc # "waiting"
  BY DEF Delivered, clocks, eventVars, Step
<1>2. jobs'[s].to = {} /\ \A t \in Slots \ {s} : jobs'[t] = jobs[t]
  BY <1>1, NoJobIs, OneJob
<1>3. \A u, e, d : OfDay(e, u, d)' = OfDay(e, u, d)
  BY <1>1 DEF OfDay, OffsetOn
<1>4. ASSUME NEW u \in Users \ away', NEW d \in Days, mailed'[u][d] > 0
      PROVE  mailed[u][d] > 0 \/ (u \in jobs[s].to /\ d = jobs[s].day)
  <2>1. mailed[u][d] \in Nat
    BY MailedIs
  <2>2. mailed'[u][d] = mailed[u][d] + IF u \in jobs[s].to /\ d = jobs[s].day THEN 1 ELSE 0
    BY <1>1
  <2> QED
    BY <1>4, <2>1, <2>2
<1>5. NotBefore'
  <2>1. ASSUME NEW u \in Users \ away', NEW d \in Days, mailed'[u][d] > 0
        PROVE  Now + 3 + offset[u] >= (d + 1) * 96 + 24
    <3>1. u \in Users \ away
      BY <1>1
    <3> QED
      BY <1>4, <2>1, <3>1, JobsAreAfter DEF Whole, NotBefore
  <2> QED
    BY <1>1, <2>1 DEF NotBefore, Now
<1>6. ASSUME NEW u \in Users \ away', NEW d \in Days, NEW e \in Events,
             mailed'[u][d] > 0, OfDay(e, u, d)
      PROVE  counted'[u][e] >= rows[e]
  <2>1. /\ counted[u][e] \in Nat /\ jobs[s].count[e] \in Nat /\ rows[e] \in Int
        /\ u \in Users \ away
        /\ counted'[u][e] = counted[u][e] + IF u \in jobs[s].to THEN jobs[s].count[e] ELSE 0
    BY <1>1, AllInts, JobIs
  <2>2. CASE mailed[u][d] > 0
    <3>1. counted[u][e] >= rows[e]
      BY <1>6, <2>1, <2>2 DEF Whole, AllCounted
    <3> QED
      BY <2>1, <3>1
  <2>3. CASE u \in jobs[s].to /\ d = jobs[s].day
    <3>1. jobs[s].count[e] = rows[e]
      BY <1>1, <1>6, <2>1, <2>3 DEF Whole, AllCounted
    <3> QED
      BY <2>1, <2>3, <3>1
  <2> QED
    BY <1>4, <1>6, <2>2, <2>3
<1>7. ASSUME NEW t \in Slots, NEW u \in jobs'[t].to \ away', NEW e \in Events,
             jobs'[t].pc # "waiting", OfDay(e, u, jobs'[t].day)
      PROVE  jobs'[t].count[e] = rows[e]
  <2>1. t # s /\ jobs'[t] = jobs[t] /\ u \in jobs[t].to \ away
    BY <1>1, <1>2, <1>7
  <2> QED
    BY <1>7, <2>1 DEF Whole, AllCounted
<1>8. AllCounted'
  BY <1>1, <1>3, <1>6, <1>7 DEF AllCounted
<1>9. SavedAtOnce'
  BY <1>1 DEF Whole, SavedAtOnce, Now
<1> QED
  BY <1>5, <1>8, <1>9 DEF Whole

LEMMA WholeNormalize ==
    ASSUME Types, Counts, Whole, NEW x \in Events, NEW delay \in Delays,
           NormalizeEvent(x, delay)
    PROVE  Whole'
<1>1. /\ time' = [time EXCEPT ![x] = Now - delay] /\ at' = [at EXCEPT ![x] = Now]
      /\ rows[x] = 0 /\ saves' = [saves EXCEPT ![x] = 0]
      /\ UNCHANGED <<hour, offset, was, turn, away, jobs, rows, mailed, counted>> /\ Now' = Now
  BY NormalizeIs DEF userVars, clocks, mailVars, Now
<1>2. ASSUME NEW e \in Events \ {x}, NEW u, NEW d, OfDay(e, u, d)'
      PROVE  OfDay(e, u, d)
  <2>1. time'[e] = time[e] /\ at'[e] = at[e]
    BY <1>1, <1>2, Parts
  <2> QED
    BY <1>1, <1>2, <2>1 DEF OfDay, OffsetOn
<1>3. ASSUME NEW s \in Slots, NEW u \in jobs[s].to \ away, NEW e \in Events,
             jobs[s].pc # "waiting", OfDay(e, u, jobs[s].day)'
      PROVE  jobs[s].count[e] = rows[e]
  <2>1. CASE e = x
    <3>1. jobs[s].count[e] \in Nat /\ (jobs[s].count[e] > 0 => jobs[s].count[e] <= rows[e])
      BY JobIs DEF Counts
    <3> QED
      BY <1>1, <2>1, <3>1
  <2>2. CASE e # x
    <3>1. OfDay(e, u, jobs[s].day)
      <4>1. jobs'[s].day = jobs[s].day
        BY <1>1
      <4>2. PICK d : d = jobs[s].day
        OBVIOUS
      <4>3. OfDay(e, u, d)'
        BY <1>3, <4>1, <4>2 DEF OfDay, OffsetOn
      <4> QED
        BY <1>2, <2>2, <4>2, <4>3
    <3> QED
      BY <1>3, <3>1 DEF Whole, AllCounted
  <2> QED
    BY <2>1, <2>2
<1>4. ASSUME NEW u \in Users \ away, NEW d \in Days, NEW e \in Events,
             mailed[u][d] > 0, OfDay(e, u, d)'
      PROVE  counted[u][e] >= rows[e]
  <2>1. CASE e = x
    BY <1>1, <2>1, AllInts
  <2>2. CASE e # x
    <3>1. OfDay(e, u, d)
      BY <1>2, <1>4, <2>2
    <3> QED
      BY <1>4, <3>1 DEF Whole, AllCounted
  <2> QED
    BY <2>1, <2>2
<1>5. AllCounted'
  BY <1>1, <1>3, <1>4 DEF AllCounted
<1>6. SavedAtOnce'
  <2>1. \A e \in Events \ {x} : saves'[e] = saves[e] /\ at'[e] = at[e]
    BY <1>1, Parts
  <2>2. at'[x] = Now
    BY <1>1, Parts
  <2> QED
    BY <1>1, <2>1, <2>2 DEF Whole, SavedAtOnce
<1>7. NotBefore'
  BY <1>1 DEF Whole, NotBefore
<1> QED
  BY <1>5, <1>6, <1>7 DEF Whole

\* What is saved now is not of a day that is reported, or being reported.
LEMMA WholeSave ==
    ASSUME Types, Prepared, Whole, NEW x \in Events, SaveActiveActor(x), ~ Fault
    PROVE  Whole'
<1>1. /\ saves[x] < MaxSaves /\ rows' = [rows EXCEPT ![x] = @ + 1]
      /\ saves' = [saves EXCEPT ![x] = MaxSaves]
      /\ UNCHANGED <<hour, offset, was, turn, away, jobs, time, at, mailed, counted>>
      /\ Now' = Now
  BY DEF SaveActiveActor, userVars, clocks, mailVars, Now
<1>2. at[x] = Now
  BY <1>1 DEF Whole, SavedAtOnce
<1>3. ASSUME NEW u \in Users \ away, NEW d \in Nat, OfDay(x, u, d)
      PROVE  ~ (Now + 3 + offset[u] >= (d + 1) * 96 + 24)
  BY <1>2, <1>3, NotReported
<1>4. \A e \in Events \ {x} : rows'[e] = rows[e]
  BY <1>1, Parts
<1>5. \A u, e, d : OfDay(e, u, d)' = OfDay(e, u, d)
  BY <1>1 DEF OfDay, OffsetOn
<1>6. ASSUME NEW s \in Slots, NEW u \in jobs[s].to \ away, NEW e \in Events,
             jobs[s].pc # "waiting", OfDay(e, u, jobs[s].day)
      PROVE  jobs[s].count[e] = rows'[e]
  <2>1. e # x
    <3>1. u \in Users \ away /\ jobs[s].day \in Nat
      BY <1>6, JobIs
    <3>2. Now + 3 + offset[u] >= (jobs[s].day + 1) * 96 + 24
      BY <1>6, <3>1, JobsAreAfter
    <3> QED
      BY <1>3, <1>6, <3>1, <3>2
  <2> QED
    BY <1>4, <1>6, <2>1 DEF Whole, AllCounted
<1>7. ASSUME NEW u \in Users \ away, NEW d \in Days, NEW e \in Events,
             mailed[u][d] > 0, OfDay(e, u, d)
      PROVE  counted[u][e] >= rows'[e]
  <2>1. e # x
    <3>1. d \in Nat /\ Now + 3 + offset[u] >= (d + 1) * 96 + 24
      BY <1>7, DaysAre DEF Whole, NotBefore
    <3> QED
      BY <1>3, <1>7, <3>1
  <2> QED
    BY <1>4, <1>7, <2>1 DEF Whole, AllCounted
<1>8. AllCounted'
  BY <1>1, <1>5, <1>6, <1>7 DEF AllCounted
<1>9. SavedAtOnce'
  <2>1. \A e \in Events \ {x} : saves'[e] = saves[e]
    BY <1>1, Parts
  <2> QED
    BY <1>1, <1>2, <2>1 DEF Whole, SavedAtOnce
<1>10. NotBefore'
  BY <1>1 DEF Whole, NotBefore
<1> QED
  BY <1>8, <1>9, <1>10 DEF Whole

\* Clocks change after the day before yesterday is reported, or the one before that.
LEMMA ReportedBefore ==
    ASSUME NEW now \in Int, NEW o \in Int, NEW o2 \in Int, NEW D \in Int, NEW d \in Int,
           now + o \in (96 * D - 8)..(96 * D + 15), o2 - o \in -4..4,
           now + 3 + o >= (d + 1) * 96 + 24
    PROVE  d < D - 1 /\ now + 3 + o2 >= (d + 1) * 96 + 24
<1>1. 96 * (d + 1) <= 96 * D - 6
  OBVIOUS
<1>2. d + 1 <= D - 1
  BY <1>1
<1> QED
  BY <1>2

LEMMA WholeClocks ==
    ASSUME Types, Whole, NEW u \in Users, NEW o \in Offsets, ClocksChange(u, o)
    PROVE  Whole'
<1>1. PICK D \in Int : /\ turn'[u] = D - 1
                       /\ Now + offset[u] \in (96 * D - 8)..(96 * D + 15)
                       /\ o - offset[u] \in -4..4
  BY ClocksAre
<1>2. /\ \A s \in Slots : jobs'[s].to = {}
      /\ was[u] = offset[u] /\ offset'[u] = o
      /\ \A v \in Users \ {u} : offset'[v] = offset[v] /\ turn'[v] = turn[v]
      /\ UNCHANGED <<hour, was, away, time, at, saves, rows, mailed, counted>> /\ Now' = Now
  BY ClocksAre DEF eventVars, mailVars, Now
<1>3. Now \in Int /\ offset[u] \in Int /\ o \in Int
  BY AllInts, Parts
<1>4. ASSUME NEW d \in Days, mailed[u][d] > 0, u \notin away
      PROVE  d < D - 1 /\ Now + 3 + o >= (d + 1) * 96 + 24
  <2>1. Now + 3 + offset[u] >= (d + 1) * 96 + 24 /\ d \in Int
    BY <1>4, DaysAre DEF Whole, NotBefore
  <2> QED
    BY <1>1, <1>3, <2>1, ReportedBefore
<1>5. SavedAtOnce'
  BY <1>2 DEF Whole, SavedAtOnce
<1>6. NotBefore'
  <2>1. ASSUME NEW v \in Users \ away, NEW d \in Days, mailed[v][d] > 0
        PROVE  Now + 3 + offset'[v] >= (d + 1) * 96 + 24
    <3>1. CASE v = u
      BY <1>2, <1>4, <2>1, <3>1
    <3>2. CASE v # u
      BY <1>2, <2>1, <3>2 DEF Whole, NotBefore
    <3> QED
      BY <3>1, <3>2
  <2> QED
    BY <1>2, <2>1 DEF NotBefore
<1>7. ASSUME NEW v \in Users \ away, NEW d \in Days, NEW e \in Events,
             mailed[v][d] > 0, OfDay(e, v, d)'
      PROVE  counted[v][e] >= rows[e]
  <2>1. CASE v = u
    <3>1. OffsetOn(u, d) = was[u] /\ OffsetOn(u, d)' = was[u]
      BY <1>1, <1>2, <1>4, <1>7, <2>1 DEF OffsetOn
    <3>2. OfDay(e, u, d)
      BY <1>2, <1>7, <2>1, <3>1 DEF OfDay
    <3> QED
      BY <1>7, <2>1, <3>2 DEF Whole, AllCounted
  <2>2. CASE v # u
    <3>1. OfDay(e, v, d)
      BY <1>2, <1>7, <2>2 DEF OfDay, OffsetOn
    <3> QED
      BY <1>7, <3>1 DEF Whole, AllCounted
  <2> QED
    BY <2>1, <2>2
<1>8. AllCounted'
  BY <1>2, <1>7 DEF AllCounted
<1> QED
  BY <1>5, <1>6, <1>8 DEF Whole

Completely == faults = 0 => Whole

LEMMA CompletelyStep ==
    Types /\ Clocks /\ Once /\ Completely /\ [Next]_vars => Completely'
<1> SUFFICES ASSUME Types, Clocks, Once, Completely, [Next]_vars, faults' = 0
             PROVE  Whole'
  BY DEF Completely
<1>0. ~ Fault
  BY FaultIs
<1>1. faults = 0 => Whole /\ Prepared /\ Counts
  BY DEF Completely, Once, Separate
<1>2. CASE HourPasses
  <2>1. /\ faults = 0 /\ hour' = hour + 1 /\ \A e \in Events : saves[e] = MaxSaves
        /\ UNCHANGED <<jobs, offset, clocks, away, eventVars, mailVars>>
        /\ \A s \in Slots : jobs[s].pc = "free"
    BY <1>0, <1>2 DEF HourPasses, Idle, userVars
  <2>2. \A s \in Slots : jobs'[s].to = {}
    BY <2>1, NoJobIs, Parts
  <2> QED
    BY <1>1, <2>1, <2>2, WholeFrame
<1>3. CASE ScheduleReports
  <2>1. /\ faults = 0 /\ UNCHANGED <<hour, jobs, offset, clocks, away, eventVars, mailVars>>
    BY <1>3 DEF ScheduleReports, userVars
  <2> QED
    BY <1>1, <2>1, WholeFrame
<1>4. CASE ScheduleFail \/ ProcessorDies
  BY <1>0, <1>4 DEF ScheduleFail, ProcessorDies
<1>5. ASSUME NEW s \in Slots, NEW r \in due, ProduceDay(r, s)
      PROVE  Whole'
  <2>1. faults = 0 /\ UNCHANGED <<hour, offset, clocks, away, eventVars, mailVars>>
    BY <1>5 DEF ProduceDay, userVars
  <2>2. PICK k \in JobRecords : jobs' = [jobs EXCEPT ![s] = k] /\ k.pc = "waiting"
    BY <1>5, ProduceDayIs
  <2>3. jobs'[s].pc = "waiting" /\ \A t \in Slots \ {s} : jobs'[t] = jobs[t]
    BY <2>2, OneJob
  <2> QED
    BY <1>1, <2>1, <2>3, WholeFrame
<1>6. ASSUME NEW s \in Slots, SelectStopped(s) \/ SendMail(s)
      PROVE  Whole'
  <2>1. /\ faults = 0 /\ UNCHANGED <<hour, offset, clocks, away, eventVars, mailVars>>
        /\ jobs[s].pc # "waiting"
    BY <1>6 DEF SelectStopped, SendMail, userVars, Step
  <2>2. PICK k \in JobRecords :
            /\ jobs' = [jobs EXCEPT ![s] = k] /\ k.pc # "free"
            /\ k.day = jobs[s].day /\ k.to = jobs[s].to /\ k.count = jobs[s].count
    BY <1>6, SelectStoppedIs, SendMailIs
  <2>3. jobs'[s] = k /\ \A t \in Slots \ {s} : jobs'[t] = jobs[t]
    BY <2>2, OneJob
  <2> QED
    BY <1>1, <2>1, <2>2, <2>3, WholeFrame
<1>7. ASSUME NEW s \in Slots, CountActions(s)
      PROVE  Whole'
  <2>1. faults = 0
    BY <1>7 DEF CountActions
  <2> QED
    BY <1>1, <1>7, <2>1, WholeCount
<1>8. ASSUME NEW s \in Slots, NEW rejected \in SUBSET Users, Delivered(s, rejected)
      PROVE  Whole'
  <2>1. faults = 0
    BY <1>8 DEF Delivered
  <2> QED
    BY <1>1, <1>8, <2>1, WholeDelivered
<1>9. ASSUME NEW e \in Events, NEW delay \in Delays, NormalizeEvent(e, delay)
      PROVE  Whole'
  <2>1. faults = 0
    BY <1>9 DEF NormalizeEvent
  <2> QED
    BY <1>1, <1>9, <2>1, WholeNormalize
<1>10. ASSUME NEW e \in Events, SaveActiveActor(e) \/ SaveFail(e)
       PROVE  Whole'
  <2>1. SaveActiveActor(e) /\ faults = 0
    BY <1>0, <1>10 DEF SaveActiveActor, SaveFail
  <2> QED
    BY <1>0, <1>1, <2>1, WholeSave
<1>11. ASSUME \/ \E u \in Users :
                    \/ TurnOff(u) \/ TurnOffFail(u)
                    \/ \E o \in Offsets \cup {NoZone} : UpdateUser(u, o)
                    \/ \E r \in Reports : GetEnvUser(u, r) \/ UpdateEnvUser(u, r)
              \/ UNCHANGED vars
       PROVE  Whole'
  <2>1. /\ UNCHANGED <<hour, jobs, clocks>> /\ away \subseteq away'
        /\ \A u \in Users \ away' : offset'[u] = offset[u]
    BY <1>11, QuietSteps DEF Quiet
  <2>2. faults = 0 /\ UNCHANGED <<eventVars, mailVars>>
    BY <1>11 DEF TurnOff, TurnOffFail, UpdateUser, GetEnvUser, UpdateEnvUser, vars
  <2>3. \A s \in Slots : jobs'[s].pc = "waiting" \/ jobs[s].pc # "waiting"
    BY <2>1
  <2> QED
    BY <1>1, <2>1, <2>2, <2>3, WholeFrame
<1>12. ASSUME NEW u \in Users, NEW o \in Offsets, ClocksChange(u, o)
       PROVE  Whole'
  <2>1. faults = 0
    BY <1>12, ClocksAre
  <2> QED
    BY <1>1, <1>12, <2>1, WholeClocks
<1> QED
  BY <1>2, <1>3, <1>4, <1>5, <1>6, <1>7, <1>8, <1>9, <1>10, <1>11, <1>12 DEF Next

LEMMA CompletelyInit == Init => Completely
<1> SUFFICES ASSUME Init
             PROVE  Whole
  BY DEF Completely
<1>1. SavedAtOnce /\ NotBefore
  BY DEF Init, SavedAtOnce, NotBefore, MaxSaves
<1>2. AllCounted
  <2>1. \A s \in Slots : jobs[s].to = {}
    BY NoJobIs DEF Init
  <2> QED
    BY <2>1 DEF Init, AllCounted
<1> QED
  BY <1>1, <1>2 DEF Whole

LEMMA DayOf ==
    ASSUME NEW x \in Int
    PROVE  /\ (x \div 96) * 96 <= x /\ x < (x \div 96 + 1) * 96
  OBVIOUS

\* What was not skipped is of a day, by the clocks that its report is made by.
LEMMA HasADay ==
    ASSUME NEW t \in Int, NEW w \in Int, NEW o \in Int, NEW T \in Int,
           ~ (t - T * 96 >= w /\ t - T * 96 < o)
    PROVE  \/ (t - w) \div 96 < T
           \/ ~ ((t - o) \div 96 < T)
<1>1. ASSUME (t - o) \div 96 < T
      PROVE  (t - w) \div 96 < T
  <2>1. t - o < ((t - o) \div 96 + 1) * 96 /\ (t - o) \div 96 + 1 <= T
    BY <1>1, DayOf
  <2>2. t - o < T * 96
    BY <2>1
  <2>3. t - w < T * 96
    BY <2>2
  <2>4. ((t - w) \div 96) * 96 <= t - w
    BY DayOf
  <2> QED
    BY <2>3, <2>4
<1> QED
  BY <1>1

LEMMA NothingMissed == Types /\ Completely /\ OneReportPerDay => OnlyEastMissesEvents
<1> SUFFICES ASSUME Types, Completely, OneReportPerDay,
                    NEW u \in Users \ away, NEW e \in Events,
                    Idle, faults = 0, time[e] >= at[e], ~ Skipped(u, time[e]),
                    \A o \in {was[u], offset[u]} :
                       o <= 12 /\ (time[e] - o) \div Day \in Over(u)
             PROVE  counted[u][e] >= rows[e]
  BY DEF OnlyEastMissesEvents
<1>1. /\ time[e] \in Int /\ was[u] \in Int /\ offset[u] \in Int /\ turn[u] \in Int
  BY AllInts
<1>2. PICK d \in Over(u) : OfDay(e, u, d)
  <2>1. \/ (time[e] - was[u]) \div 96 < turn[u]
        \/ ~ ((time[e] - offset[u]) \div 96 < turn[u])
    BY <1>1, HasADay DEF Skipped, Day
  <2>2. \A o \in {was[u], offset[u]} :
            LET d == (time[e] - o) \div 96 IN
            d * 96 <= time[e] - o /\ time[e] - o < (d + 1) * 96 /\ d \in Over(u)
    <3>1. ASSUME NEW o \in {was[u], offset[u]}
          PROVE  LET d == (time[e] - o) \div 96 IN
                 d * 96 <= time[e] - o /\ time[e] - o < (d + 1) * 96 /\ d \in Over(u)
      <4>1. time[e] - o \in Int
        BY <1>1
      <4> QED
        BY <4>1, DayOf DEF Day
    <3> QED
      BY <3>1
  <2>3. was[u] <= 12 /\ offset[u] <= 12
    OBVIOUS
  <2>4. CASE (time[e] - was[u]) \div 96 < turn[u]
    <3>1. OfDay(e, u, (time[e] - was[u]) \div 96)
      BY <2>2, <2>3, <2>4 DEF OfDay, OffsetOn
    <3> QED
      BY <2>2, <3>1
  <2>5. CASE ~ ((time[e] - offset[u]) \div 96 < turn[u])
    <3>1. OfDay(e, u, (time[e] - offset[u]) \div 96)
      BY <2>2, <2>3, <2>5 DEF OfDay, OffsetOn
    <3> QED
      BY <2>2, <3>1
  <2> QED
    BY <2>1, <2>4, <2>5
<1>3. d \in Days
  BY DEF Over
<1>4. mailed[u][d] > 0
  <2>1. Cardinality(Missing(u)) <= 0
    BY DEF OneReportPerDay
  <2>2. IsFiniteSet(Missing(u))
    <3>1. Missing(u) \subseteq Days
      BY DEF Missing, Over
    <3> QED
      BY <3>1, DaysAre, FS_Subset
  <2>3. Cardinality(Missing(u)) = 0
    BY <2>1, <2>2, FS_CardinalityType
  <2>4. d \notin Missing(u)
    BY <2>2, <2>3, FS_EmptySet
  <2>5. mailed[u][d] # 0 /\ mailed[u][d] \in Nat
    BY <1>2, <1>3, <2>4, MailedIs DEF Missing
  <2> QED
    BY <2>5
<1> QED
  BY <1>2, <1>3, <1>4 DEF Completely, Whole, AllCounted

\* Without a fault, whoever is three hours or less east of UTC is told of each event that
\* was normalized by its time, in the report of its day, unless the clocks were put
\* forward over it.
THEOREM EventsAreReported == Spec => []OnlyEastMissesEvents
<1>1. Spec => []Completely
  BY CompletelyInit, CompletelyStep, TypesAlways, ClocksAlways, OnceAlways, PTL DEF Spec
<1> QED
  BY <1>1, NothingMissed, EachDayIsReported, TypesAlways, PTL

=============================================================================
