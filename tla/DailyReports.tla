---------------------------- MODULE DailyReports ------------------------------
(***************************************************************************)
(* The daily reports of one environment.  At seven to the hour cron asks    *)
(* for the reports of the subscribers whose local time is about to be       *)
(* seven; each offset from UTC gets a message on environment_day, whose     *)
(* handler reads what was saved of a day and mails it.  Meanwhile events    *)
(* are normalized and saved, subscribers move, unsubscribe and bounce, and  *)
(* the clocks are put forward or back where they live.                      *)
(*                                                                         *)
(* Time counts quarters of an hour, the finest grain of the offsets, from a *)
(* Sunday midnight in UTC; a day is a date in some local time.  The         *)
(* handlers read the clock when they run.  Both topics are consumed with    *)
(* one attempt, so what a dying processor was at is lost.  Events have an   *)
(* actor: nothing is saved of one that has none.                            *)
(***************************************************************************)
EXTENDS Integers, FiniteSets

CONSTANTS
    Users,
    Offsets,       \* of their time zones, in quarters of an hour
    NoZone,        \* the offset of a zone Postgres does not know
    Events,
    EventHours,    \* hours at which events arrive
    Delays,        \* how long before its time was, as the publisher says, or will be
    ActHours,      \* hours at which users move, unsubscribe and bounce
    ClockHours,    \* hours at which clocks may be put forward or back
    Slots,         \* messages of environment_day at once
    FirstHour,
    LastHour,
    MaxFaults      \* failures, deaths of the processor, and hours it is behind

ASSUME ReportsAssumption ==
    /\ Offsets \subseteq -48..56 /\ NoZone \in Nat \ 0..56
    /\ EventHours \subseteq FirstHour..LastHour
    /\ Delays \subseteq Int /\ \A delay \in Delays : delay <= 4 * FirstHour
    /\ FirstHour \in Nat \ 0..23 /\ LastHour \in Nat /\ FirstHour <= LastHour
    /\ IsFiniteSet(Slots) /\ MaxFaults \in Nat

VARIABLES
    hour,        \* hours since the beginning
    ticks,       \* messages of fifty_three_past_hour
    due,         \* what scheduleDailyReportsDue has yet to produce
    jobs,        \* messages of environment_day, and mails on their way
    offset,      \* of each user
    was,         \* what it was before their clocks changed
    turn,        \* the first day that is reported by the clocks as they are
    daily,       \* environmentuser.daily_report
    anomaly,     \* environmentuser.anomaly_report
    tx,          \* retraceduser.tx_emails_recipient
    cancels,     \* the calls to cancelEmailReport
    bounced,     \* users rejected by the mailer, their row not updated yet
    time,        \* canonical time of an event, or -1
    at,          \* when it was normalized
    saves,       \* attempts of its message to save_active_actor
    rows,        \* its rows in active_actor
    lastActive,  \* action.last_active, when an event of the one action was normalized
    mailed,      \* mails sent to each user about each day
    counted,     \* rows of each event counted in mails to each user
    away,        \* users who moved or unsubscribed, or bounced
    offAt,       \* the hour that a user was unsubscribed at, or -1
    overlapped,  \* users whose two cancellations overlapped
    faults

clocks == <<was, turn>>
userVars == <<offset, clocks, daily, anomaly, tx, cancels, bounced, away, offAt, overlapped>>
eventVars == <<time, at, saves, rows, lastActive>>
mailVars == <<mailed, counted>>
vars == <<hour, ticks, due, jobs, userVars, eventVars, mailVars, faults>>

Day == 96
Now == 4 * hour
Days == 0..(LastHour \div 24 + 1)
Reports == {"daily", "anomaly"}
MaxSaves == 3

NoCount == [e \in Events |-> 0]
NoJob == [pc |-> "free", offset |-> 0, day |-> 0, to |-> {}, count |-> NoCount,
          stopped |-> FALSE]

TypeOK ==
    /\ hour \in FirstHour..LastHour /\ ticks \in Nat
    /\ due \in SUBSET [offset : Offsets, to : SUBSET Users]
    /\ jobs \in [Slots -> [pc : {"free", "waiting", "counted", "ready", "mailing"},
                           offset : Offsets \cup {0}, day : Days, to : SUBSET Users,
                           count : [Events -> Nat], stopped : BOOLEAN]]
    /\ offset \in [Users -> Offsets \cup {NoZone}]
    /\ was \in [Users -> Offsets] /\ turn \in [Users -> Int]
    /\ daily \in [Users -> BOOLEAN] /\ anomaly \in [Users -> BOOLEAN]
    /\ tx \in [Users -> BOOLEAN]
    /\ cancels \in [Users \X Reports -> {"none", "otherOn", "otherOff", "done"}]
    /\ bounced \subseteq Users /\ away \subseteq Users /\ overlapped \subseteq Users
    /\ time \in [Events -> Int] /\ at \in [Events -> Int] /\ rows \in [Events -> 0..MaxSaves]
    /\ saves \in [Events -> 0..MaxSaves]
    /\ mailed \in [Users -> [Days -> Nat]]
    /\ counted \in [Users -> [Events -> Nat]]
    /\ lastActive \in Nat
    /\ faults \in 0..MaxFaults

Init ==
    /\ hour = FirstHour /\ ticks = 0
    /\ due = {} /\ jobs = [s \in Slots |-> NoJob]
    /\ offset \in [Users -> Offsets] /\ was = offset /\ turn = [u \in Users |-> 0]
    /\ daily = [u \in Users |-> TRUE] /\ anomaly = [u \in Users |-> TRUE]
    /\ tx = [u \in Users |-> TRUE]
    /\ cancels = [c \in Users \X Reports |-> "none"]
    /\ bounced = {} /\ away = {} /\ overlapped = {}
    /\ offAt = [u \in Users |-> -1]
    /\ time = [e \in Events |-> -1] /\ at = [e \in Events |-> -1]
    /\ saves = [e \in Events |-> MaxSaves] /\ rows = [e \in Events |-> 0]
    /\ lastActive = Now
    /\ mailed = [u \in Users |-> [d \in Days |-> 0]]
    /\ counted = [u \in Users |-> NoCount]
    /\ faults = 0

Unchanged(u) == u \notin away /\ \A r \in Reports : cancels[<<u, r>>] = "none"

\* Faults come in runs in which nobody acts, who is left out of what faults could
\* break, and all clocks stay as they are.
Fault ==
    /\ faults < MaxFaults /\ \A u \in Users : Unchanged(u) /\ was[u] = offset[u]
    /\ faults' = faults + 1

Idle ==
    /\ ticks = 0 /\ due = {} /\ \A s \in Slots : jobs[s].pc = "free"
    /\ bounced = {}
    /\ \A e \in Events : saves[e] = MaxSaves

\* The next hour, and seven to the next, once everything is done, or before that.
HourPasses ==
    /\ hour < LastHour
    /\ IF Idle THEN UNCHANGED faults ELSE Fault
    /\ hour' = hour + 1
    /\ ticks' = ticks + 1
    /\ UNCHANGED <<due, jobs, userVars, eventVars, mailVars>>

-----------------------------------------------------------------------------
(* scheduleDailyReportsDue *)

\* The offsets, in hours, that are at the local hour during that UTC hour.
OffsetsWithLocalTimeDuringUTCHour(next, local) ==
    LET back == local - next
        forward == back + 24 IN
    {k \in {back, forward} : (k = back => back >= -12) /\ (k = forward => forward <= 14)}

ReportHours == OffsetsWithLocalTimeDuringUTCHour((hour + 1) % 24, 7)

\* Mutant: nobody is taken off the list.
DailyReportToAll(u) ==
    \E k \in ReportHours : offset[u] <= 4 * k /\ offset[u] > 4 * k - 4

\* Mutant: the hour includes its beginning.
DailyReportFromHour(u) ==
    /\ daily[u] /\ tx[u]
    /\ \E k \in ReportHours : offset[u] <= 4 * k /\ offset[u] >= 4 * k - 4

\* environmentDailyReports: the hour that ends with the offset.
DailyReport(u) ==
    /\ daily[u] /\ tx[u]
    /\ \E k \in ReportHours : offset[u] <= 4 * k /\ offset[u] > 4 * k - 4

ScheduleReports ==
    /\ ticks > 0 /\ due = {}
    /\ ticks' = ticks - 1
    /\ LET to == {u \in Users : DailyReport(u)} IN
       due' = {[offset |-> offset[u], to |-> {v \in to : offset[v] = offset[u]}] : u \in to}
    /\ UNCHANGED <<hour, jobs, userVars, eventVars, mailVars, faults>>

\* The local date, at seven to the hour, of the day before.
Yesterday(o) == (Now + 3 + o) \div Day - 1

ProduceDay(r, s) ==
    /\ r \in due /\ jobs[s].pc = "free"
    /\ due' = due \ {r}
    /\ jobs' = [jobs EXCEPT ![s] = [NoJob EXCEPT !.pc = "waiting", !.offset = r.offset,
                                                 !.day = Yesterday(r.offset), !.to = r.to]]
    /\ UNCHANGED <<hour, ticks, userVars, eventVars, mailVars, faults>>

\* One produce fails: the error is not marked for a retry, and the rest is not made.
ScheduleFail ==
    /\ due # {} /\ Fault
    /\ due' = {}
    /\ UNCHANGED <<hour, ticks, jobs, userVars, eventVars, mailVars>>

-----------------------------------------------------------------------------
(* analyzeDay *)

\* Mutant: the range begins after its first moment.
RangeWithoutStart(j, t) ==
    LET start == j.day * Day + j.offset IN t > start /\ t < start + Day

\* moment.utc(date).add(offset): the range analysed, half open.
InRange(j, t) ==
    LET start == j.day * Day + j.offset IN t >= start /\ t < start + Day

Step(s, pc) == jobs[s].pc = pc

\* Mutant: the end of the range is counted, too.
CountActionsToEnd(s) ==
    /\ Step(s, "waiting")
    /\ jobs' = [jobs EXCEPT ![s].pc = "counted",
                            ![s].count = [e \in Events |->
                                IF \/ InRange(jobs[s], time[e])
                                   \/ time[e] = (jobs[s].day + 1) * Day + jobs[s].offset
                                THEN rows[e] ELSE 0]]
    /\ UNCHANGED <<hour, ticks, due, userVars, eventVars, mailVars, faults>>

CountActions(s) ==
    /\ Step(s, "waiting")
    /\ jobs' = [jobs EXCEPT ![s].pc = "counted",
                            ![s].count = [e \in Events |-> IF InRange(jobs[s], time[e])
                                                           THEN rows[e] ELSE 0]]
    /\ UNCHANGED <<hour, ticks, due, userVars, eventVars, mailVars, faults>>

\* The action was last active during the day before the range.
SelectStopped(s) ==
    /\ Step(s, "counted")
    /\ jobs' = [jobs EXCEPT ![s].pc = "ready",
                            ![s].stopped = InRange([jobs[s] EXCEPT !.day = @ - 1], lastActive)]
    /\ UNCHANGED <<hour, ticks, due, userVars, eventVars, mailVars, faults>>

\* The mail is handed over and not awaited: the job is done.
SendMail(s) ==
    /\ Step(s, "ready")
    /\ jobs' = [jobs EXCEPT ![s].pc = "mailing"]
    /\ UNCHANGED <<hour, ticks, due, userVars, eventVars, mailVars, faults>>

\* One user at most moves, unsubscribes or bounces, while reports are made.
Acts(u) ==
    /\ hour \in ActHours
    /\ due # {} \/ \E s \in Slots : jobs[s].pc # "free"
    /\ faults = 0
    /\ \A v \in Users \ {u} : Unchanged(v)

\* It is delivered, and rejected for some.
Delivered(s, rejected) ==
    /\ Step(s, "mailing") /\ rejected \subseteq jobs[s].to /\ \A u \in rejected : Acts(u)
    /\ jobs' = [jobs EXCEPT ![s] = NoJob]
    /\ mailed' = [u \in Users |-> [d \in Days |->
                     mailed[u][d] + IF u \in jobs[s].to /\ d = jobs[s].day THEN 1 ELSE 0]]
    /\ counted' = [u \in Users |-> [e \in Events |->
                     counted[u][e] + IF u \in jobs[s].to THEN jobs[s].count[e] ELSE 0]]
    /\ bounced' = bounced \cup rejected
    /\ away' = away \cup rejected
    /\ UNCHANGED <<hour, ticks, due, offset, clocks, daily, anomaly, tx, cancels, offAt,
                   overlapped, eventVars, faults>>

\* mandrillRejectHandler: hard bounces, spam and opt-outs.
TurnOff(u) ==
    /\ u \in bounced
    /\ tx' = [tx EXCEPT ![u] = FALSE]
    /\ bounced' = bounced \ {u}
    /\ offAt' = [offAt EXCEPT ![u] = IF @ = -1 THEN hour ELSE @]
    /\ UNCHANGED <<hour, ticks, due, jobs, offset, clocks, daily, anomaly, cancels, away,
                   overlapped, eventVars, mailVars, faults>>

TurnOffFail(u) ==
    /\ u \in bounced
    /\ bounced' = bounced \ {u}
    /\ UNCHANGED <<hour, ticks, due, jobs, offset, clocks, daily, anomaly, tx, cancels, away,
                   offAt, overlapped, eventVars, mailVars, faults>>

\* The processor dies with what it was at: as it does when a mail cannot be sent,
\* whose rejection nobody handles.
ProcessorDies ==
    /\ due # {} \/ \E s \in Slots : jobs[s].pc \notin {"free", "waiting"}
    /\ Fault
    /\ due' = {}
    /\ jobs' = [s \in Slots |-> IF jobs[s].pc = "waiting" THEN jobs[s] ELSE NoJob]
    /\ bounced' = {}
    /\ UNCHANGED <<hour, ticks, offset, clocks, daily, anomaly, tx, cancels, away, offAt,
                   overlapped, eventVars, mailVars>>

-----------------------------------------------------------------------------
(* Events *)

\* Mutant: the upsert does nothing on a conflict.
UpsertActionOnce == UNCHANGED lastActive

\* The action, which is known already, is active now, whatever the time of the event.
UpsertAction == lastActive' = Now

\* The action is upserted before the event is published to normalized_events.  An
\* event is of the time that its publisher says, be it past or still to come.
NormalizeEvent(e, delay) ==
    /\ time[e] = -1 /\ hour \in EventHours
    /\ time' = [time EXCEPT ![e] = Now - delay]
    /\ at' = [at EXCEPT ![e] = Now]
    /\ UpsertAction
    /\ saves' = [saves EXCEPT ![e] = 0]
    /\ UNCHANGED <<hour, ticks, due, jobs, userVars, rows, mailVars, faults>>

SaveActiveActor(e) ==
    /\ saves[e] < MaxSaves
    /\ rows' = [rows EXCEPT ![e] = @ + 1]
    /\ \/ saves' = [saves EXCEPT ![e] = MaxSaves] /\ UNCHANGED faults
       \/ saves' = [saves EXCEPT ![e] = @ + 1] /\ Fault
    /\ UNCHANGED <<hour, ticks, due, jobs, userVars, time, at, lastActive, mailVars>>

\* The insert fails and is marked for a retry.
SaveFail(e) ==
    /\ saves[e] < MaxSaves /\ Fault
    /\ saves' = [saves EXCEPT ![e] = @ + 1]
    /\ UNCHANGED <<hour, ticks, due, jobs, userVars, time, at, rows, lastActive,
                   mailVars>>

-----------------------------------------------------------------------------
(* Subscribers *)

\* updateUser: any zone is taken, as the check counts to no purpose.
UpdateUser(u, o) ==
    /\ Acts(u) /\ u \notin away
    /\ o # offset[u]
    /\ offset' = [offset EXCEPT ![u] = o]
    /\ away' = away \cup {u}
    /\ UNCHANGED <<hour, ticks, due, jobs, clocks, daily, anomaly, tx, cancels, bounced, offAt,
                   overlapped, eventVars, mailVars, faults>>

\* pg_timezone_names knows the offset of the moment.  Clocks are put forward or back,
\* by an hour at most and between ten and four at night, before the next report is made.
ClocksChange(u, o) ==
    /\ hour \in ClockHours /\ Idle /\ faults = 0
    /\ u \notin away /\ was[u] = offset[u]
    /\ o # offset[u] /\ o - offset[u] \in -4..4
    /\ (Now + offset[u] + 8) % Day < 24
    /\ offset' = [offset EXCEPT ![u] = o]
    /\ turn' = [turn EXCEPT ![u] = (Now + offset[u] + 8) \div Day - 1]
    /\ UNCHANGED <<hour, ticks, due, jobs, was, daily, anomaly, tx, cancels, bounced, away,
                   offAt, overlapped, eventVars, mailVars, faults>>

Flag(r) == IF r = "daily" THEN daily ELSE anomaly
Other(r) == IF r = "daily" THEN "anomaly" ELSE "daily"

\* cancelEmailReport reads both flags ...
GetEnvUser(u, r) ==
    /\ Acts(u) /\ cancels[<<u, r>>] = "none"
    /\ cancels' = [cancels EXCEPT ![<<u, r>>] = IF Flag(Other(r))[u] THEN "otherOn"
                                                                 ELSE "otherOff"]
    /\ overlapped' = overlapped \cup
          {v \in {u} : cancels[<<u, Other(r)>>] \in {"otherOn", "otherOff"}}
    /\ UNCHANGED <<hour, ticks, due, jobs, offset, clocks, daily, anomaly, tx, bounced, away,
                   offAt, eventVars, mailVars, faults>>

\* Mutant: the flags are swapped.
UpdateOther(u, r) ==
    /\ cancels[<<u, r>>] \in {"otherOn", "otherOff"}
    /\ daily' = [daily EXCEPT ![u] = (r # "daily")]
    /\ anomaly' = [anomaly EXCEPT ![u] = (r # "anomaly")]
    /\ cancels' = [cancels EXCEPT ![<<u, r>>] = "done"]
    /\ away' = away \cup {u}
    /\ offAt' = [offAt EXCEPT ![u] = IF daily'[u] THEN -1 ELSE hour]
    /\ UNCHANGED <<hour, ticks, due, jobs, offset, clocks, tx, bounced, overlapped,
                   eventVars, mailVars, faults>>

\* ... and writes both, the other one as it was.
UpdateEnvUser(u, r) ==
    /\ cancels[<<u, r>>] \in {"otherOn", "otherOff"}
    /\ daily' = [daily EXCEPT ![u] = (r = "anomaly" /\ cancels[<<u, r>>] = "otherOn")]
    /\ anomaly' = [anomaly EXCEPT ![u] = (r = "daily" /\ cancels[<<u, r>>] = "otherOn")]
    /\ cancels' = [cancels EXCEPT ![<<u, r>>] = "done"]
    /\ away' = away \cup {u}
    /\ offAt' = [offAt EXCEPT ![u] = IF daily'[u] THEN IF tx[u] THEN -1 ELSE @ ELSE hour]
    /\ UNCHANGED <<hour, ticks, due, jobs, offset, clocks, tx, bounced, overlapped,
                   eventVars, mailVars, faults>>

-----------------------------------------------------------------------------

Next ==
    \/ HourPasses \/ ScheduleReports \/ ScheduleFail \/ ProcessorDies
    \/ \E s \in Slots :
          \/ \E r \in due : ProduceDay(r, s)
          \/ CountActions(s) \/ SelectStopped(s) \/ SendMail(s)
          \/ \E rejected \in SUBSET Users : Delivered(s, rejected)
    \/ \E e \in Events :
          \/ \E delay \in Delays : NormalizeEvent(e, delay)
          \/ SaveActiveActor(e) \/ SaveFail(e)
    \/ \E u \in Users :
          \/ TurnOff(u) \/ TurnOffFail(u)
          \/ \E o \in Offsets \cup {NoZone} : UpdateUser(u, o)
          \/ \E r \in Reports : GetEnvUser(u, r) \/ UpdateEnvUser(u, r)
    \/ \E u \in Users, o \in Offsets : ClocksChange(u, o)

Spec == Init /\ [][Next]_vars

-----------------------------------------------------------------------------
(* What must hold *)

\* The days whose reports were due since the beginning, in the last hour before seven
\* of the day after.
Over(u) == {d \in Days : (d + 1) * Day + 21 <= Now + offset[u]
                         /\ (d + 1) * Day + 21 > 4 * FirstHour + was[u]}

\* Who stays where they are and subscribed gets one report of each day, the
\* partition of the offsets by the hours of the day being complete, and whether the
\* clocks change or not: there is one missing, and one too many, only for a fault.
Missing(u) == {d \in Over(u) : mailed[u][d] = 0}

OneReportPerDay ==
    \A u \in Users \ away :
        /\ Idle => Cardinality(Missing(u)) <= faults
        /\ \A d \in Days : mailed[u][d] <= 1 + faults

\* The range of a report is that of its day by the clocks as they are when it is made.
\* When they have been put back in between, it overlaps with the one before ...
Doubled(u, t) == t - turn[u] * Day >= offset[u] /\ t - turn[u] * Day < was[u]

\* ... and when they have been put forward, there is a gap.
Skipped(u, t) == t - turn[u] * Day >= was[u] /\ t - turn[u] * Day < offset[u]

\* The ranges of a subscriber's reports do not overlap, although days and offsets
\* are added up wrongly (see OnlyEastMissesEvents), except for that hour: no other
\* event is counted in two, and none in three.
CountedOnce ==
    \A u \in Users \ away : \A e \in Events :
        faults = 0 => counted[u][e] <= (IF Doubled(u, time[e]) THEN 2 ELSE 1) * rows[e]

\* The range ends as many hours after midnight in UTC as the offset is ahead of it,
\* which may be after the report is made, and what happens in between is never
\* counted.  That is so from three and a quarter hours east of UTC: anywhere else, what
\* is normalized by the time it is of is counted in the report of its day, unless the
\* clocks were put forward over it.
OnlyEastMissesEvents ==
    \A u \in Users \ away : \A e \in Events :
        /\ Idle /\ faults = 0
        /\ rows[e] > 0 /\ time[e] >= at[e] /\ ~ Skipped(u, time[e])
        /\ \A o \in {was[u], offset[u]} : o <= 12 /\ (time[e] - o) \div Day \in Over(u)
        => counted[u][e] >= rows[e]

\* An action is reported as stopped only when nothing of the day is counted, but events
\* that came before the time they are of: it is upserted before its events are saved,
\* and asked about after they are counted.
StoppedMeansNone ==
    \A s \in Slots : jobs[s].stopped =>
        \A e \in Events : jobs[s].count[e] = 0 \/ time[e] > at[e]

\* A mail to someone who is unsubscribed, or has bounced, was scheduled within the
\* hour before.
NoLateMail ==
    \A s \in Slots : \A u \in jobs[s].to :
        offAt[u] # -1 /\ faults = 0 => offAt[u] >= hour

\* A cancelled subscription comes back only if the user's two cancellations overlap.
CancelledForGood ==
    \A u \in Users \ overlapped : \A r \in Reports :
        cancels[<<u, r>>] = "done" => ~ Flag(r)[u]

=============================================================================
