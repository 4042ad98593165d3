-------------------------- MODULE DriftSensorProofs --------------------------
(***************************************************************************)
(* What the drift sensor keeps, for all cooldowns and bounds and under     *)
(* every fault: types, the distance between triggers, that requests are    *)
(* fresh as long as no decision was taken without a report, and what a     *)
(* cooldown can have been wasted on.  TLC checks the same on a small       *)
(* instance (SensorFaults.cfg).                                            *)
(***************************************************************************)
EXTENDS DriftSensor, TLAPS

-----------------------------------------------------------------------------
(* Types.                                                                  *)

\* While a trigger is being recorded there is a job to record it for, and it
\* is among those requested.
JobsToRecord ==
    /\ tick.pc \in {"truncate", "write"} => tick.todo # {}
    /\ tick.todo \subseteq tick.requests

TypeInv == SensorTypeOK /\ JobsToRecord

LEMMA CurrentJobIsJob ==
    ASSUME tick.todo \in SUBSET Jobs, tick.todo # {}
    PROVE  CurrentJob \in tick.todo /\ CurrentJob \in Jobs
BY DEF CurrentJob, Jobs

LEMMA TicksChange ==
    ASSUME NEW t \in Ticks
    PROVE  /\ t.pc \in {"idle", "decide", "truncate", "write", "return"}
           /\ t.report \in Nat /\ t.stamp \in Nat
           /\ t.requests \in SUBSET Jobs /\ t.todo \in SUBSET Jobs
BY DEF Ticks

LEMMA IdleTickIsTick ==
    /\ IdleTick \in Ticks
    /\ IdleTick.pc = "idle"
    /\ IdleTick.report = 0
    /\ IdleTick.todo = {} /\ IdleTick.requests = {}
BY DEF IdleTick, Ticks, Inline

LEMMA ReportsLength ==
    ASSUME SensorTypeOK
    PROVE  reports \in Nat /\ cursor \in Nat /\ cursor <= reports
BY DEF SensorTypeOK

\* A trigger as the history keeps it.
Trigger == [at : Nat, run : Outcomes]

\* The history after the end of an evaluation: no trigger moves in time, and
\* none is asked for any more.
LEMMA SettledHistory ==
    ASSUME last \in [Jobs -> Trigger \cup {Absent}],
           NEW end \in [Jobs -> Outcomes \ {"asked"}], Settle(end)
    PROVE  /\ last' \in [Jobs -> Trigger \cup {Absent}]
           /\ \A job \in Jobs :
                 /\ last'[job] # Absent => last[job] # Absent
                 /\ last'[job] # Absent => last'[job].at = last[job].at
                 /\ last'[job] # Absent => last'[job].run =
                       IF last[job].run = "asked" THEN end[job] ELSE last[job].run
<1>1. SUFFICES ASSUME NEW job \in Jobs
               PROVE  /\ last'[job] \in Trigger \cup {Absent}
                      /\ last'[job] # Absent => last[job] # Absent
                      /\ last'[job] # Absent => last'[job].at = last[job].at
                      /\ last'[job] # Absent => last'[job].run =
                            IF last[job].run = "asked" THEN end[job] ELSE last[job].run
  BY DEF Settle
<1>2. CASE last[job] # Absent /\ last[job].run = "asked"
  <2> DEFINE t == last[job]
             o == end[job]
  <2>1. t \in Trigger /\ o \in Outcomes /\ last'[job] = [t EXCEPT !.run = o]
    BY <1>2 DEF Settle
  <2> HIDE DEF t, o
  <2>2. /\ [t EXCEPT !.run = o] \in Trigger
        /\ [t EXCEPT !.run = o].at = t.at /\ [t EXCEPT !.run = o].run = o
    BY <2>1 DEF Trigger
  <2> QED
    BY <1>2, <2>1, <2>2 DEF t, o
<1>3. CASE ~(last[job] # Absent /\ last[job].run = "asked")
  BY <1>3 DEF Settle
<1> QED
  BY <1>2, <1>3

\* Both ends of an evaluation settle the history.
LEMMA EvaluationEnds ==
    ASSUME Launch \/ Crash
    PROVE  \E end \in [Jobs -> Outcomes \ {"asked"}] : Settle(end)
<1>1. /\ [job \in Jobs |-> "lost"] \in [Jobs -> Outcomes \ {"asked"}]
      /\ [job \in Jobs |-> EndOf(job)] \in [Jobs -> Outcomes \ {"asked"}]
  BY DEF Outcomes, EndOf
<1> QED
  BY <1>1 DEF Launch, Crash

\* Faults are remembered.
LEMMA FaultsKept ==
    ASSUME [SensorNext]_sensorVars, faults \subseteq Faults
    PROVE  faults \subseteq faults' /\ faults' \subseteq Faults
BY DEF SensorNext, ReadReport, ReadReportFails, Decide, DriftJobFails, Truncate, Write,
   Launch, Materialize, NewData, Crash, Pass, ClearCooldown, Fault, sensorVars

LEMMA InitEstablishesTypes == SensorInit => TypeInv
<1> SUFFICES ASSUME SensorInit PROVE TypeInv
  OBVIOUS
<1> USE DEF SensorInit
<1>1. reports \in Nat /\ reports = 0
  OBVIOUS
<1>2. JobsToRecord
  BY IdleTickIsTick DEF JobsToRecord
<1> QED
  BY <1>1, <1>2, IdleTickIsTick DEF TypeInv, SensorTypeOK, Contents, Inline

LEMMA NextKeepsTypes == TypeInv /\ [SensorNext]_sensorVars => TypeInv'
<1> SUFFICES ASSUME TypeInv, [SensorNext]_sensorVars PROVE TypeInv'
  OBVIOUS
<1> USE DEF TypeInv
<1>1. /\ tick \in Ticks /\ tick.report \in 0..reports
      /\ reports \in Nat /\ cursor \in 0..reports
      /\ now \in Nat
      /\ sentinel \in [Jobs -> Contents]
      /\ last \in [Jobs -> Trigger \cup {Absent}]
      /\ launched \subseteq Jobs \X (0..reports)
      /\ faults' \subseteq Faults
  BY ReportsLength, FaultsKept DEF SensorTypeOK, Trigger
<1>2. ASSUME tick' \in Ticks, tick'.report \in 0..reports, JobsToRecord',
             cursor' \in 0..reports,
             UNCHANGED <<now, sentinel, data, reports, launched, last>>
      PROVE  TypeInv'
  BY <1>1, <1>2 DEF SensorTypeOK
<1>3. ASSUME tick' = IdleTick,
             cursor' \in 0..reports,
             UNCHANGED <<now, sentinel, data, reports, launched, last>>
      PROVE  TypeInv'
  BY <1>1, <1>2, <1>3, IdleTickIsTick DEF JobsToRecord
<1>4. ASSUME NEW r \in 0..reports, tick.pc = "idle", Begin(r),
             UNCHANGED <<now, sentinel, data, reports, cursor, launched, last>>
      PROVE  TypeInv'
  <2>1. /\ tick' \in Ticks
        /\ tick'.report = r /\ tick'.pc = "decide"
        /\ tick'.todo = tick.todo /\ tick'.requests = tick.requests
    <3>1. r \in Nat
      BY <1>1
    <3> QED
      BY <1>1, <1>4, <3>1 DEF Begin, Ticks
  <2>2. JobsToRecord'
    BY <2>1 DEF JobsToRecord
  <2> QED
    BY <1>1, <1>2, <1>4, <2>1, <2>2
<1>5. CASE ReadReport \/ ReadReportFails
  BY <1>1, <1>4, <1>5 DEF ReadReport, ReadReportFails, Inline
<1>6. CASE Decide
  <2> DEFINE jobs == ShouldRetrain(data)
  <2>1. jobs \in SUBSET Jobs
    BY DEF ShouldRetrain
  <2>2. CASE data = "drifted" /\ ~ Readable
    BY <1>1, <1>3, <1>6, <2>2 DEF Decide
  <2>3. CASE ~ (data = "drifted" /\ ~ Readable) /\ jobs = {}
    BY <1>1, <1>3, <1>6, <2>3 DEF Decide
  <2>4. CASE ~ (data = "drifted" /\ ~ Readable) /\ jobs # {}
    <3>1. /\ tick' = [tick EXCEPT !.pc = "truncate", !.requests = jobs,
                                  !.todo = jobs]
          /\ UNCHANGED <<now, sentinel, data, reports, cursor, launched, last>>
      BY <1>6, <2>4 DEF Decide
    <3> HIDE DEF jobs
    <3>2. /\ tick' \in Ticks /\ tick'.report = tick.report
          /\ tick'.todo = jobs /\ tick'.requests = jobs
      BY <1>1, <2>1, <3>1 DEF Ticks
    <3>3. JobsToRecord'
      BY <2>4, <3>2 DEF JobsToRecord
    <3> QED
      BY <1>1, <1>2, <3>1, <3>2, <3>3
  <2> QED
    BY <2>2, <2>3, <2>4
<1>7. CASE DriftJobFails
  <2>1. CASE tick.report = Inline
    BY <1>1, <1>3, <1>7, <2>1 DEF DriftJobFails
  <2>2. CASE tick.report # Inline
    <3>1. /\ tick' \in Ticks /\ tick'.report = 0 /\ tick'.pc = "decide"
          /\ tick'.todo = tick.todo /\ tick'.requests = tick.requests
      BY <1>1, <1>7, <2>2 DEF DriftJobFails, Ticks, Inline
    <3>2. JobsToRecord'
      BY <3>1 DEF JobsToRecord
    <3> QED
      BY <1>1, <1>2, <1>7, <3>1, <3>2 DEF DriftJobFails
  <2> QED
    BY <2>1, <2>2
<1>8. CASE Truncate
  <2> DEFINE j == CurrentJob
  <2>1. j \in Jobs
    BY <1>1, <1>8, CurrentJobIsJob, TicksChange DEF Truncate, JobsToRecord
  <2>2. /\ sentinel' = [sentinel EXCEPT ![j] = Blank]
        /\ last' = [last EXCEPT ![j] = [at |-> now, run |-> "asked"]]
        /\ tick' = [tick EXCEPT !.pc = "write", !.stamp = now]
        /\ tick.pc = "truncate"
        /\ UNCHANGED <<now, data, reports, cursor, launched>>
    BY <1>8 DEF Truncate, TruncateSentinel
  <2> HIDE DEF j
  <2>3. sentinel' \in [Jobs -> Contents]
    BY <1>1, <2>1, <2>2 DEF Contents
  <2>4. last' \in [Jobs -> Trigger \cup {Absent}]
    <3>1. [at |-> now, run |-> "asked"] \in Trigger
      BY <1>1 DEF Trigger, Outcomes
    <3> QED
      BY <1>1, <2>1, <2>2, <3>1
  <2>5. /\ tick' \in Ticks /\ tick'.report = tick.report
        /\ tick'.todo = tick.todo /\ tick'.requests = tick.requests
    BY <1>1, <2>2 DEF Ticks
  <2> QED
    BY <1>1, <2>2, <2>3, <2>4, <2>5 DEF SensorTypeOK, JobsToRecord, Trigger
<1>9. CASE Write
  <2> DEFINE j == CurrentJob
             pc == IF tick.todo = {j} THEN "return" ELSE "truncate"
  <2>1. j \in Jobs /\ j \in tick.todo
    BY <1>1, <1>9, CurrentJobIsJob, TicksChange DEF Write, JobsToRecord
  <2>2. /\ sentinel' = [sentinel EXCEPT
                           ![j] = IF @ = Absent THEN @ ELSE tick.stamp]
        /\ tick' = [tick EXCEPT !.pc = pc, !.todo = @ \ {j}]
        /\ UNCHANGED <<now, data, reports, cursor, launched, last>>
    BY <1>9 DEF Write, WriteSentinel
  <2> HIDE DEF j
  <2>3. sentinel' \in [Jobs -> Contents]
    BY <1>1, <2>1, <2>2, TicksChange DEF Contents
  <2>4. /\ tick' \in Ticks /\ tick'.report = tick.report /\ tick'.pc = pc
        /\ tick'.todo = tick.todo \ {j} /\ tick'.requests = tick.requests
    BY <1>1, <2>2 DEF Ticks
  <2>5. JobsToRecord'
    BY <2>1, <2>4 DEF JobsToRecord
  <2> QED
    BY <1>1, <2>2, <2>3, <2>4, <2>5 DEF SensorTypeOK
<1>10. CASE Launch
  <2>1. launched' \subseteq Jobs \X (0..reports)
    BY <1>1, <1>10, TicksChange DEF Launch, Requested
  <2>2. last' \in [Jobs -> Trigger \cup {Absent}]
    BY <1>1, <1>10, EvaluationEnds, SettledHistory
  <2> QED
    BY <1>1, <1>10, <2>1, <2>2, IdleTickIsTick DEF Launch, SensorTypeOK, JobsToRecord, Trigger
<1>11. CASE Materialize
  <2>1. reports' \in Nat /\ reports' = reports + 1
    BY <1>1, <1>11 DEF Materialize
  <2>2. 0..reports \subseteq 0..reports'
    BY <1>1, <2>1
  <2>3. UNCHANGED <<now, sentinel, data, cursor, tick, launched, last>>
    BY <1>11 DEF Materialize
  <2> QED
    BY <1>1, <2>1, <2>2, <2>3 DEF SensorTypeOK, JobsToRecord
<1>12. CASE NewData \/ Pass \/ UNCHANGED sensorVars
  BY <1>1, <1>12 DEF NewData, Pass, sensorVars, SensorTypeOK, JobsToRecord
<1>13. CASE Crash
  <2>1. last' \in [Jobs -> Trigger \cup {Absent}]
    BY <1>1, <1>13, EvaluationEnds, SettledHistory
  <2> QED
    BY <1>1, <1>13, <2>1, IdleTickIsTick DEF Crash, SensorTypeOK, JobsToRecord, Trigger
<1>14. ASSUME NEW job \in Jobs, ClearCooldown(job)
       PROVE  TypeInv'
  BY <1>1, <1>14
     DEF ClearCooldown, ClearSentinel, SensorTypeOK, JobsToRecord, Contents
<1> QED
  BY <1>5, <1>6, <1>7, <1>8, <1>9, <1>10, <1>11, <1>12, <1>13, <1>14
     DEF SensorNext

LEMMA TypeInvariance == SensorSpec => []TypeInv
BY InitEstablishesTypes, NextKeepsTypes, PTL DEF SensorSpec

\* Type correctness of the sentinels, the evaluation, Dagster's records and
\* the history, under every fault.
THEOREM SensorTypeCorrect == SensorSpec => []SensorTypeOK
<1>1. TypeInv => SensorTypeOK
  BY DEF TypeInv
<1> QED
  BY <1>1, TypeInvariance, PTL

-----------------------------------------------------------------------------
(* Triggers are a cooldown apart.                                          *)

\* A job's sentinel is never older than its last trigger: it is missing only
\* if the trigger was cleared, and otherwise blank or not earlier.
SentinelsCover ==
    \A job \in Jobs :
        last[job] # Absent =>
            /\ last[job].at <= now
            /\ sentinel[job] # Absent
            /\ sentinel[job] # Blank => sentinel[job] >= last[job].at

\* The jobs not yet recorded have passed their cooldown; the stamp about to
\* be written is that of the current job's trigger or later.
PendingPassed ==
    \A job \in tick.todo :
        last[job] # Absent =>
            IF tick.pc = "write" /\ job = CurrentJob
            THEN tick.stamp >= last[job].at
            ELSE tick.pc \in {"truncate", "write"} =>
                     now - last[job].at >= CooldownOf(job)

\* Outside truncate and write nothing is pending.
NothingPending == tick.pc \notin {"truncate", "write"} => tick.todo = {}

SpacingInv == TypeInv /\ SentinelsCover /\ PendingPassed /\ NothingPending

LEMMA SensorTypes ==
    ASSUME TypeInv
    PROVE  /\ now \in Nat
           /\ tick \in Ticks /\ tick.stamp \in Nat
           /\ tick.todo \in SUBSET Jobs
           /\ \A job \in Jobs :
                 /\ sentinel[job] \in Contents
                 /\ last[job] # Absent => last[job].at \in Nat
           /\ sentinel \in [Jobs -> Contents]
           /\ last \in [Jobs -> Trigger \cup {Absent}]
           /\ \A job \in Jobs : CooldownOf(job) \in Nat
           /\ faults \subseteq Faults
BY TriggerAssumption, TicksChange DEF TypeInv, SensorTypeOK, CooldownOf, Jobs, Trigger

LEMMA NextKeepsSpacing ==
    ASSUME SpacingInv, [SensorNext]_sensorVars
    PROVE  SpacingInv' /\ TriggerIsSpaced
<1> USE DEF SpacingInv
<1>1. TypeInv'
  BY NextKeepsTypes
<1>2. ASSUME UNCHANGED <<now, sentinel, last>>, tick'.todo = {}
      PROVE  SpacingInv' /\ TriggerIsSpaced
  BY <1>1, <1>2
     DEF SentinelsCover, PendingPassed, NothingPending, TriggerIsSpaced
<1>3. CASE ReadReport \/ ReadReportFails
  <2>1. tick.todo = {}
    BY <1>3 DEF NothingPending, ReadReport, ReadReportFails
  <2>2. tick'.todo = tick.todo
    BY <1>3, SensorTypes DEF ReadReport, ReadReportFails, Begin, Ticks
  <2> QED
    BY <1>2, <1>3, <2>1, <2>2 DEF ReadReport, ReadReportFails
<1>4. CASE DriftJobFails
  <2>1. tick.todo = {}
    BY <1>4 DEF NothingPending, DriftJobFails
  <2>2. tick'.todo = {}
    BY <1>4, <2>1, SensorTypes, IdleTickIsTick DEF DriftJobFails, Ticks
  <2> QED
    BY <1>2, <1>4, <2>2 DEF DriftJobFails
<1>5. CASE Decide
  <2> DEFINE jobs == ShouldRetrain(data)
  <2>1. UNCHANGED <<now, sentinel, last>>
    BY <1>5 DEF Decide
  <2>2. CASE tick' = IdleTick
    BY <1>2, <2>1, <2>2, IdleTickIsTick
  <2>3. CASE tick' # IdleTick
    <3>1. /\ tick' = [tick EXCEPT !.pc = "truncate", !.requests = jobs,
                                  !.todo = jobs]
          /\ ~ (data = "drifted" /\ ~ Readable)
          /\ jobs # {}
      BY <1>5, <2>3 DEF Decide
    <3>2. Readable /\ \A job \in jobs : job \in Jobs /\ ~ InCooldown(job)
      BY <3>1 DEF ShouldRetrain
    <3> HIDE DEF jobs
    <3>3. tick'.pc = "truncate" /\ tick'.todo = jobs
      BY <3>1, SensorTypes DEF Ticks
    <3>4. \A job \in jobs :
             last[job] # Absent => now - last[job].at >= CooldownOf(job)
      <4> SUFFICES ASSUME NEW job \in jobs, last[job] # Absent
                   PROVE  now - last[job].at >= CooldownOf(job)
        OBVIOUS
      <4>1. sentinel[job] \in Nat /\ sentinel[job] >= last[job].at
        BY <3>2, SensorTypes DEF SentinelsCover, Readable, Contents
      <4>2. now - sentinel[job] >= CooldownOf(job)
        BY <3>2, <4>1, SensorTypes DEF InCooldown
      <4> QED
        BY <3>2, <4>1, <4>2, SensorTypes
    <3>5. PendingPassed'
      BY <2>1, <3>3, <3>4 DEF PendingPassed, CooldownOf
    <3>6. NothingPending' /\ SentinelsCover' /\ TriggerIsSpaced
      BY <2>1, <3>3 DEF NothingPending, SentinelsCover, TriggerIsSpaced
    <3> QED
      BY <1>1, <3>5, <3>6
  <2> QED
    BY <2>2, <2>3
<1>6. CASE Truncate
  <2> DEFINE j == CurrentJob
  <2>1. j \in tick.todo /\ j \in Jobs
    BY <1>6, CurrentJobIsJob, SensorTypes DEF Truncate, TypeInv, JobsToRecord
  <2>2. /\ tick.pc = "truncate"
        /\ sentinel' = [sentinel EXCEPT ![j] = Blank]
        /\ last' = [last EXCEPT ![j] = [at |-> now, run |-> "asked"]]
        /\ tick' = [tick EXCEPT !.pc = "write", !.stamp = now]
        /\ UNCHANGED now
    BY <1>6 DEF Truncate, TruncateSentinel
  <2>3. /\ tick'.pc = "write" /\ tick'.stamp = now /\ tick'.todo = tick.todo
    BY <2>2, SensorTypes DEF Ticks
  <2>4. CurrentJob' = j
    BY <2>3 DEF CurrentJob
  <2> HIDE DEF j
  <2>5. /\ last'[j].at = now /\ sentinel'[j] = Blank
        /\ \A job \in Jobs \ {j} :
              last'[job] = last[job] /\ sentinel'[job] = sentinel[job]
    BY <2>1, <2>2, SensorTypes
  <2>6. last[j] # Absent => now - last[j].at >= CooldownOf(j)
    BY <2>1, <2>2 DEF PendingPassed
  <2>7. SentinelsCover'
    BY <2>2, <2>5, SensorTypes, TriggerAssumption DEF SentinelsCover
  <2>8. PendingPassed'
    BY <2>1, <2>2, <2>3, <2>4, <2>5, SensorTypes DEF PendingPassed, CooldownOf
  <2>9. NothingPending'
    BY <2>3 DEF NothingPending
  <2>10. TriggerIsSpaced
    BY <2>1, <2>5, <2>6 DEF TriggerIsSpaced
  <2> QED
    BY <1>1, <2>7, <2>8, <2>9, <2>10
<1>7. CASE Write
  <2> DEFINE j == CurrentJob
             pc == IF tick.todo = {j} THEN "return" ELSE "truncate"
  <2>1. j \in tick.todo /\ j \in Jobs
    BY <1>7, CurrentJobIsJob, SensorTypes DEF Write, TypeInv, JobsToRecord
  <2>2. /\ tick.pc = "write"
        /\ sentinel' = [sentinel EXCEPT
                           ![j] = IF @ = Absent THEN @ ELSE tick.stamp]
        /\ tick' = [tick EXCEPT !.pc = pc, !.todo = @ \ {j}]
        /\ UNCHANGED <<now, last>>
    BY <1>7 DEF Write, WriteSentinel
  <2>3. last[j] # Absent => tick.stamp >= last[j].at
    BY <2>1, <2>2 DEF PendingPassed
  <2>4. \A job \in tick.todo \ {j} :
           last[job] # Absent => now - last[job].at >= CooldownOf(job)
    BY <2>2 DEF PendingPassed
  <2> HIDE DEF j
  <2>5. tick'.pc = pc /\ tick'.todo = tick.todo \ {j}
    BY <2>2, SensorTypes DEF Ticks
  <2>6. /\ sentinel'[j] = IF sentinel[j] = Absent THEN Absent ELSE tick.stamp
        /\ \A job \in Jobs \ {j} : sentinel'[job] = sentinel[job]
    BY <2>1, <2>2, SensorTypes
  <2>7. SentinelsCover'
    BY <2>2, <2>3, <2>6, SensorTypes, TriggerAssumption DEF SentinelsCover
  <2>8. PendingPassed'
    BY <2>2, <2>4, <2>5 DEF PendingPassed, CooldownOf
  <2>9. NothingPending'
    BY <2>5 DEF NothingPending
  <2>10. TriggerIsSpaced
    BY <2>2 DEF TriggerIsSpaced
  <2> QED
    BY <1>1, <2>7, <2>8, <2>9, <2>10
<1>8. CASE Launch \/ Crash
  <2>1. UNCHANGED <<now, sentinel>> /\ tick'.todo = {}
    BY <1>8, IdleTickIsTick DEF Launch, Crash
  <2>2. PICK end \in [Jobs -> Outcomes \ {"asked"}] : Settle(end)
    BY <1>8, EvaluationEnds
  <2>3. \A job \in Jobs : last'[job] # Absent =>
           /\ last[job] # Absent /\ last'[job].at = last[job].at
           /\ last'[job].run = IF last[job].run = "asked" THEN end[job] ELSE last[job].run
    BY <2>2, SensorTypes, SettledHistory
  <2>4. \A job \in Jobs : last'[job] # Absent => last'[job].run # "asked"
    BY <2>3
  <2>5. SentinelsCover'
    BY <2>1, <2>3 DEF SentinelsCover
  <2>6. PendingPassed' /\ NothingPending' /\ TriggerIsSpaced
    BY <2>1, <2>4 DEF PendingPassed, NothingPending, TriggerIsSpaced
  <2> QED
    BY <1>1, <2>5, <2>6
<1>9. CASE Materialize \/ NewData \/ UNCHANGED sensorVars
  BY <1>1, <1>9
     DEF Materialize, NewData, sensorVars, SentinelsCover, PendingPassed,
         NothingPending, TriggerIsSpaced, CurrentJob, CooldownOf
<1>10. CASE Pass
  <2>1. now' = now + 1 /\ UNCHANGED <<sentinel, tick, last>>
    BY <1>10 DEF Pass
  <2>2. SentinelsCover' /\ NothingPending' /\ TriggerIsSpaced
    BY <2>1, SensorTypes DEF SentinelsCover, NothingPending, TriggerIsSpaced
  <2>3. PendingPassed'
    BY <2>1, SensorTypes DEF PendingPassed, CurrentJob, CooldownOf
  <2> QED
    BY <1>1, <2>2, <2>3
<1>11. ASSUME NEW job \in Jobs, ClearCooldown(job)
       PROVE  SpacingInv' /\ TriggerIsSpaced
  <2>1. /\ UNCHANGED <<now, tick>>
        /\ last'[job] = Absent
        /\ \A other \in Jobs \ {job} :
              last'[other] = last[other] /\ sentinel'[other] = sentinel[other]
    BY <1>11, SensorTypes DEF ClearCooldown, ClearSentinel
  <2>2. SentinelsCover' /\ NothingPending' /\ TriggerIsSpaced
    BY <2>1 DEF SentinelsCover, NothingPending, TriggerIsSpaced
  <2>3. PendingPassed'
    BY <2>1, SensorTypes DEF PendingPassed, CurrentJob, CooldownOf
  <2> QED
    BY <1>1, <2>2, <2>3
<1> QED
  BY <1>3, <1>4, <1>5, <1>6, <1>7, <1>8, <1>9, <1>10, <1>11 DEF SensorNext

\* A job is triggered again only a cooldown later or after an operator
\* cleared it, whatever fails in between.
THEOREM TriggersAreSpaced == SensorSpec => TriggersSpaced
<1>1. SensorInit => SpacingInv
  BY InitEstablishesTypes, IdleTickIsTick
     DEF SensorInit, SpacingInv, SentinelsCover, PendingPassed, NothingPending
<1>2. SpacingInv /\ [SensorNext]_sensorVars => SpacingInv'
  BY NextKeepsSpacing
<1>3. SpacingInv /\ [SensorNext]_sensorVars => [TriggerIsSpaced]_sensorVars
  BY NextKeepsSpacing
<1> QED
  BY <1>1, <1>2, <1>3, PTL DEF SensorSpec, TriggersSpaced

-----------------------------------------------------------------------------
(* Requests are fresh, until a decision is taken without a report.         *)

\* Dagster has launched runs for reports up to the cursor only, and an
\* evaluation is about a later one.
LaunchedProcessed ==
    /\ \A key \in launched : key[2] <= cursor
    /\ tick.pc # "idle" => tick.report > cursor

FreshInv == TypeInv /\ (~DecidedInline => LaunchedProcessed)

\* A step after which every decision was taken on a report.
LEMMA StepOnReport ==
    ASSUME TypeInv, [SensorNext]_sensorVars, ~DecidedInline'
    PROVE  ~DecidedInline /\ ~ReadReportFails /\ ~DriftJobFails
<1>1. faults \subseteq faults'
  BY FaultsKept, SensorTypes
<1>2. ~DecidedInline
  BY <1>1 DEF DecidedInline
<1>3. ReadReportFails \/ DriftJobFails => DecidedInline'
  BY DEF ReadReportFails, DriftJobFails, Fault, DecidedInline
<1> QED
  BY <1>2, <1>3

LEMMA NextKeepsFreshness ==
    ASSUME FreshInv, [SensorNext]_sensorVars
    PROVE  FreshInv'
<1> USE DEF FreshInv
<1>1. TypeInv'
  BY NextKeepsTypes
<1> SUFFICES ASSUME ~DecidedInline' PROVE LaunchedProcessed'
  BY <1>1
<1>2. /\ cursor \in Nat /\ reports \in Nat /\ cursor <= reports
      /\ tick \in Ticks /\ tick.report \in Nat
      /\ launched \subseteq Jobs \X Nat
      /\ LaunchedProcessed
      /\ ~ReadReportFails /\ ~DriftJobFails
  BY ReportsLength, TicksChange, StepOnReport DEF TypeInv, SensorTypeOK
<1>3. CASE ReadReport
  <2>1. tick'.report = reports
    BY <1>2, <1>3 DEF ReadReport, Begin, Ticks
  <2> QED
    BY <1>2, <1>3, <2>1 DEF ReadReport, LaunchedProcessed
<1>5. CASE Decide
  <2>1. CASE tick' = IdleTick
    <3>1. cursor' = cursor \/ cursor' = tick.report
      BY <1>5 DEF Decide
    <3>2. tick.report > cursor /\ UNCHANGED launched
      BY <1>2, <1>5 DEF Decide, LaunchedProcessed
    <3> QED
      BY <1>2, <2>1, <3>1, <3>2, IdleTickIsTick DEF LaunchedProcessed
  <2>2. CASE tick' # IdleTick
    <3> DEFINE jobs == ShouldRetrain(data)
    <3>1. /\ tick' = [tick EXCEPT !.pc = "truncate", !.requests = jobs,
                                  !.todo = jobs]
          /\ UNCHANGED <<cursor, launched>>
      BY <1>5, <2>2 DEF Decide
    <3> HIDE DEF jobs
    <3>2. tick'.report = tick.report /\ tick.report > cursor
      BY <1>2, <1>5, <3>1 DEF Decide, LaunchedProcessed, Ticks
    <3> QED
      BY <1>2, <3>1, <3>2 DEF LaunchedProcessed
  <2> QED
    BY <2>1, <2>2
<1>6. CASE Truncate \/ Write
  <2>1. /\ tick'.report = tick.report /\ tick.pc # "idle"
        /\ UNCHANGED <<cursor, launched>>
    BY <1>2, <1>6 DEF Truncate, Write, Ticks
  <2> QED
    BY <1>2, <2>1 DEF LaunchedProcessed
<1>7. CASE Launch
  <2>1. /\ tick.report > cursor /\ cursor' = tick.report
        /\ launched' = launched \cup
              {<<job, tick.report>> : job \in tick.requests}
        /\ tick'.pc = "idle"
    BY <1>2, <1>7, IdleTickIsTick DEF Launch, LaunchedProcessed, Requested
  <2>2. \A key \in launched' : key[2] <= cursor'
    BY <1>2, <2>1 DEF LaunchedProcessed
  <2> QED
    BY <2>1, <2>2 DEF LaunchedProcessed
<1>8. CASE Crash
  BY <1>2, <1>8, IdleTickIsTick DEF Crash, LaunchedProcessed
<1>9. CASE Materialize \/ NewData \/ Pass \/ UNCHANGED sensorVars
  BY <1>2, <1>9
     DEF Materialize, NewData, Pass, sensorVars, LaunchedProcessed
<1>10. ASSUME NEW job \in Jobs, ClearCooldown(job)
       PROVE  LaunchedProcessed'
  BY <1>2, <1>10 DEF ClearCooldown, LaunchedProcessed
<1> QED
  BY <1>2, <1>3, <1>5, <1>6, <1>7, <1>8, <1>9, <1>10 DEF SensorNext

LEMMA FreshInvariance == SensorSpec => []FreshInv
<1>1. SensorInit => FreshInv
  BY InitEstablishesTypes, IdleTickIsTick
     DEF SensorInit, FreshInv, LaunchedProcessed
<1>2. FreshInv /\ [SensorNext]_sensorVars => FreshInv'
  BY NextKeepsFreshness
<1> QED
  BY <1>1, <1>2, PTL DEF SensorSpec

LEMMA FreshImplies ==
    ASSUME FreshInv
    PROVE  RequestsAreFresh
<1> SUFFICES ASSUME FreshInv, ~DecidedInline, NEW job,
                    tick.pc # "idle", <<job, tick.report>> \in launched
             PROVE  FALSE
  BY DEF RequestsAreFresh, Requested
<1>1. tick.report <= cursor /\ tick.report > cursor
  BY DEF FreshInv, LaunchedProcessed
<1> QED
  BY <1>1, ReportsLength, TicksChange DEF FreshInv, TypeInv, SensorTypeOK

\* As long as no decision was taken without a report, no run is requested
\* under a key that has been launched, whatever evaluations are lost and
\* cooldowns cleared (sensors.py:77, 117, 127, 134).
THEOREM FreshRequests == SensorSpec => []RequestsAreFresh
<1> QED
  BY FreshImplies, FreshInvariance, PTL

-----------------------------------------------------------------------------
(* What a cooldown was spent on.                                           *)

\* The request of a trigger is on its way only in the evaluation that
\* recorded it, and is wasted only as TriggersBuyRuns says.
RequestsEnd ==
    \A job \in Jobs : last[job] # Absent =>
        \/ /\ last[job].run = "asked"
           /\ tick.pc \in {"truncate", "write", "return"} /\ job \in tick.requests
        \/ last[job].run = "launched"
        \/ last[job].run = "lost" /\ "crash" \in faults
        \/ last[job].run = "dropped" /\ DecidedInline

SpentInv == FreshInv /\ RequestsEnd

LEMMA NextKeepsSpent ==
    ASSUME SpentInv, [SensorNext]_sensorVars
    PROVE  SpentInv'
<1> USE DEF SpentInv
<1>1. FreshInv' /\ TypeInv
  BY NextKeepsFreshness DEF FreshInv
<1>2. /\ faults \subseteq faults' /\ (DecidedInline => DecidedInline')
      /\ tick \in Ticks
  BY <1>1, FaultsKept, SensorTypes DEF DecidedInline
<1>3. ASSUME UNCHANGED last, tick.pc \in {"idle", "decide"}
      PROVE  SpentInv'
  BY <1>1, <1>2, <1>3 DEF RequestsEnd
<1>4. CASE ReadReport \/ ReadReportFails \/ Decide \/ DriftJobFails
  BY <1>3, <1>4 DEF ReadReport, ReadReportFails, Decide, DriftJobFails
<1>5. CASE Truncate
  <2> DEFINE j == CurrentJob
  <2>1. j \in tick.requests /\ j \in Jobs
    BY <1>1, <1>5, CurrentJobIsJob, SensorTypes DEF Truncate, TypeInv, JobsToRecord
  <2>2. /\ tick.pc = "truncate"
        /\ last' = [last EXCEPT ![j] = [at |-> now, run |-> "asked"]]
        /\ tick' = [tick EXCEPT !.pc = "write", !.stamp = now]
    BY <1>5 DEF Truncate
  <2> HIDE DEF j
  <2>3. tick'.pc = "write" /\ tick'.requests = tick.requests
    BY <1>2, <2>2 DEF Ticks
  <2>4. /\ last'[j].run = "asked"
        /\ \A job \in Jobs \ {j} : last'[job] = last[job]
    BY <1>1, <2>1, <2>2, SensorTypes
  <2>5. RequestsEnd'
    BY <1>2, <2>1, <2>2, <2>3, <2>4 DEF RequestsEnd
  <2> QED
    BY <1>1, <2>5
<1>6. CASE Write
  <2>1. /\ tick'.pc \in {"truncate", "return"} /\ tick'.requests = tick.requests
        /\ UNCHANGED last
    BY <1>2, <1>6 DEF Write, Ticks
  <2> QED
    BY <1>1, <1>2, <2>1 DEF RequestsEnd
<1>7. CASE Launch \/ Crash
  <2>1. ASSUME NEW end \in [Jobs -> Outcomes \ {"asked"}], Settle(end),
               NEW job \in Jobs, last'[job] # Absent
        PROVE  /\ last[job] # Absent
               /\ last'[job].run = IF last[job].run = "asked" THEN end[job] ELSE last[job].run
    BY <1>1, <2>1, SensorTypes, SettledHistory
  <2>2. ASSUME Crash PROVE RequestsEnd'
    <3> DEFINE end == [job \in Jobs |-> "lost"]
    <3>1. Settle(end) /\ "crash" \in faults'
      BY <2>2 DEF Crash, Fault
    <3>2. end \in [Jobs -> Outcomes \ {"asked"}] /\ \A job \in Jobs : end[job] = "lost"
      BY DEF Outcomes
    <3> HIDE DEF end
    <3>3. \A job \in Jobs : last'[job] # Absent =>
             /\ last[job] # Absent
             /\ last'[job].run = IF last[job].run = "asked" THEN "lost" ELSE last[job].run
      BY <2>1, <3>1, <3>2
    <3> QED
      BY <1>2, <3>1, <3>3 DEF RequestsEnd
  <2>3. ASSUME Launch PROVE RequestsEnd'
    <3> DEFINE end == [job \in Jobs |-> EndOf(job)]
    <3>1. Settle(end) /\ tick.pc = "return" /\ UNCHANGED faults
      BY <2>3 DEF Launch
    <3>2. /\ end \in [Jobs -> Outcomes \ {"asked"}]
          /\ \A job \in Jobs : end[job] = EndOf(job)
      BY DEF Outcomes, EndOf
    <3> HIDE DEF end
    <3>3. \A job \in Jobs : last'[job] # Absent =>
             /\ last[job] # Absent
             /\ last'[job].run = IF last[job].run = "asked" THEN EndOf(job) ELSE last[job].run
      BY <2>1, <3>1, <3>2
    <3>4. ASSUME NEW job \in tick.requests
          PROVE  \/ EndOf(job) = "launched"
                 \/ EndOf(job) = "dropped" /\ DecidedInline'
      <4>1. RequestsAreFresh
        BY FreshImplies
      <4>2. ~DecidedInline => <<job, tick.report>> \in Requested \ launched
        BY <3>1, <4>1 DEF RequestsAreFresh, Requested
      <4> QED
        BY <1>2, <4>2 DEF EndOf
    <3> QED
      BY <1>2, <3>1, <3>3, <3>4 DEF RequestsEnd
  <2> QED
    BY <1>1, <1>7, <2>2, <2>3
<1>8. CASE Materialize \/ NewData \/ Pass \/ UNCHANGED sensorVars
  BY <1>1, <1>2, <1>8 DEF Materialize, NewData, Pass, sensorVars, RequestsEnd
<1>9. ASSUME NEW job \in Jobs, ClearCooldown(job)
      PROVE  SpentInv'
  <2>1. /\ UNCHANGED tick /\ last'[job] = Absent
        /\ \A other \in Jobs \ {job} : last'[other] = last[other]
    BY <1>1, <1>9, SensorTypes DEF ClearCooldown
  <2> QED
    BY <1>1, <1>2, <2>1 DEF RequestsEnd
<1> QED
  BY <1>4, <1>5, <1>6, <1>7, <1>8, <1>9 DEF SensorNext

\* Between evaluations every cooldown spent has bought a run that Dagster
\* launched, but for those of evaluations that were lost and, once a decision
\* was taken without a report, of requests that repeated a run key.
THEOREM TriggersBought == SensorSpec => []TriggersBuyRuns
<1>1. SensorInit => SpentInv
  BY InitEstablishesTypes, IdleTickIsTick
     DEF SensorInit, SpentInv, FreshInv, LaunchedProcessed, RequestsEnd
<1>2. SpentInv /\ [SensorNext]_sensorVars => SpentInv'
  BY NextKeepsSpent
<1>3. SpentInv => TriggersBuyRuns
  BY DEF SpentInv, RequestsEnd, TriggersBuyRuns
<1> QED
  BY <1>1, <1>2, <1>3, PTL DEF SensorSpec

=============================================================================
