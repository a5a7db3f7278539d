-------------------------- MODULE PositionSyncProofs --------------------------
(***************************************************************************)
(* The safety of the position sync, proved for any book of legs, any       *)
(* number of jobs users start, trades, faults and crashes: what the record *)
(* in Redis tells, what GET /positions shows, and that a sync on its own   *)
(* loses no notes.                                                         *)
(*                                                                         *)
(* None of the three is inductive: a success is in Redis before the file   *)
(* is saved, and the positions a job will save are computed from a file    *)
(* read before its await.  The invariants say what a job under way owes:   *)
(* which of its successes is not yet true, that the legs it brings have    *)
(* their rows already, and which notes it started from.                    *)
(*                                                                         *)
(* The last section is about the alerts of the same positions, of          *)
(* PositionAlerts.  The two modules share no variable: each theorem is of  *)
(* one of their specifications.                                            *)
(***************************************************************************)
EXTENDS PositionSync, PositionAlerts, TLAPS

\* No positions, no job and no attempt.
LEMMA NothingType ==
  NoPositions \in Positions /\ NoJob \in Job /\ NoAttempt \in Attempt
<1>1. NoPositions \in Positions
  BY DEF NoPositions, Positions, Version
<1>2. QED
  BY <1>1 DEF NoJob, Job, NoAttempt, Attempt, Backend

\* A job goes on with the positions it has computed.
LEMMA GoesType ==
  ASSUME job \in [Jobs -> Job], NEW j \in Jobs,
         NEW pc \in {"idle", "fetch", "record", "save"}, NEW d \in Positions,
         Goes(j, pc, d)
  PROVE  job' \in [Jobs -> Job]
<1>1. [job[j] EXCEPT !.pc = pc, !.data = d] \in Job
  BY DEF Job
<1>2. QED
  BY <1>1 DEF Goes

\* What the broker answers.
LEMMA FetchedType ==
  ASSUME TypeOK, NEW j \in Jobs
  PROVE  Fetched(j) \in Positions
<1>1. {trades} \in Version
  BY DEF TypeOK, Version
<1>2. job[j].data.noted \in SUBSET Annotated
  BY DEF TypeOK, Job, Positions
<1>3. QED
  BY <1>1, <1>2 DEF TypeOK, Fetched, Positions

\* A job that begins.
LEMMA BeginType ==
  ASSUME TypeOK, NEW j \in Jobs, NEW op \in {"sync", "retry", "preview"},
         NEW back \in Backend, NEW prior \in Backend \union {"none"},
         Begin(j, op, back, prior)
  PROVE  /\ job' \in [Jobs -> Job]
         /\ overlapped' \in BOOLEAN
<1>1. Existing(op, back) \in Positions
  BY NothingType DEF TypeOK, Existing, Positions, Version
<1>2. QED
  BY <1>1 DEF Begin, Job, TypeOK

\* What a failed job leaves in Redis is an attempt.
LEMMA FailureType ==
  ASSUME TypeOK, NEW j \in Jobs, NEW r \in Failure(j)
  PROVE  r \in Attempt
<1>1. job[j].op \in {"sync", "retry", "preview"}
  BY DEF TypeOK, Job
<1>2. job[j].back \in Backend /\ job[j].prior \in Backend \union {"none"}
  BY DEF TypeOK, Job
<1>3. Told("error", job[j].back, FALSE) \in Attempt
  BY <1>2 DEF Told, Attempt
<1>4. Told("error", job[j].prior, FALSE) \in Attempt
  BY <1>2 DEF Told, Attempt
<1>5. QED
  BY <1>1, <1>3, <1>4 DEF Failure, TypeOK

\* An event within the bound.
LEMMA HappensType ==
  ASSUME TypeOK, Happens \/ UNCHANGED events
  PROVE  events' \in 0..MaxEvents
BY SyncAssumption DEF TypeOK, Happens, SyncAssumption

\* A dispatched sync or retry runs one of the two backends.
LEMMA DispatchBegins ==
  ASSUME TypeOK, NEW j \in Jobs, NEW op, NEW wish \in Backend \union {"none"},
         NEW prior, Dispatch(j, op, wish, prior)
  PROVE  \E back \in Backend : /\ Begin(j, op, back, prior)
                               /\ cap' \in {"none", "up", "down"}
BY DEF Dispatch, Backend, Resolved, Verdict, Probe, TypeOK

\* Whatever starts a job starts it at its fetch; a preview asks the broker.
LEMMA StartBegins ==
  ASSUME TypeOK,
         \/ AutoSync
         \/ \E j \in Manual : TriggerSync(j) \/ RetryLastUpload(j) \/ PreviewSync(j)
  PROVE  /\ \E j \in Jobs, op \in {"sync", "retry", "preview"}, back \in Backend,
               prior \in Backend \union {"none"} :
              /\ Begin(j, op, back, prior)
              /\ op = "preview" => back = "web_api"
         /\ cap' \in {"none", "up", "down"}
<1> USE DEF Jobs
<1>1. record.back \in Backend \union {"none"}
  BY DEF TypeOK, Attempt
<1>2. CASE AutoSync
  BY <1>2, DispatchBegins DEF AutoSync
<1>3. ASSUME NEW j \in Manual, TriggerSync(j)
      PROVE  /\ \E back \in Backend : Begin(j, "sync", back, "none")
             /\ cap' \in {"none", "up", "down"}
  BY <1>3, DispatchBegins DEF TriggerSync
<1>4. ASSUME NEW j \in Manual, RetryLastUpload(j)
      PROVE  /\ \E back \in Backend : Begin(j, "retry", back, record.back)
             /\ cap' \in {"none", "up", "down"}
  BY <1>1, <1>4, DispatchBegins DEF RetryLastUpload
<1>5. ASSUME NEW j \in Manual, PreviewSync(j)
      PROVE  /\ Begin(j, "preview", "web_api", "none")
             /\ cap' \in {"none", "up", "down"}
  BY <1>5 DEF PreviewSync, Verdict
<1>6. "web_api" \in Backend
  BY DEF Backend
<1>7. QED
  BY <1>1, <1>2, <1>3, <1>4, <1>5, <1>6

-----------------------------------------------------------------------------

\* Type correctness of the position sync: the file, the record and the jobs
\* under way stay what the code makes them.
THEOREM TypeCorrect == Spec => []TypeOK
<1>1. Init => TypeOK
  <2> SUFFICES ASSUME Init
               PROVE  TypeOK
    OBVIOUS
  <2>1. job \in [Jobs -> Job]
    BY NothingType DEF Init
  <2>2. trades \in 0..MaxTrades /\ events \in 0..MaxEvents
    BY SyncAssumption DEF Init, SyncAssumption
  <2>3. gateway \in BOOLEAN /\ enabled \in BOOLEAN
    BY DEF Init
  <2>4. overlapped \in BOOLEAN /\ missing \in BOOLEAN /\ lost \in BOOLEAN
    BY DEF Init
  <2>5. QED
    BY <2>1, <2>2, <2>3, <2>4, NothingType, SyncAssumption
       DEF Init, TypeOK, SyncAssumption
<1>2. TypeOK /\ [Next]_vars => TypeOK'
  <2> SUFFICES ASSUME TypeOK, [Next]_vars
               PROVE  TypeOK'
    OBVIOUS
  <2> USE DEF broker, history
  <2>1. CASE Trade
    BY <2>1, SyncAssumption DEF Trade, TypeOK, SyncAssumption
  <2>2. CASE Change
    BY <2>2, HappensType DEF Change, TypeOK
  <2>3. CASE RecordExpires
    BY <2>3, HappensType, NothingType DEF RecordExpires, TypeOK
  <2>4. CASE GetCapability \/ CapabilityExpires
    BY <2>4 DEF GetCapability, CapabilityExpires, Probe, TypeOK
  <2>5. CASE ConfirmIbkrUpload
    <3>1. PICK legs \in SUBSET Legs \ {{}} :
          \E noted \in SUBSET (legs \intersect Annotated) :
            file' = [file EXCEPT !.legs = legs, !.noted = noted, !.origin = {}]
      BY <2>5 DEF ConfirmIbkrUpload
    <3>2. PICK noted \in SUBSET (legs \intersect Annotated) :
            file' = [file EXCEPT !.legs = legs, !.noted = noted, !.origin = {}]
      BY <3>1
    <3>3. legs \in SUBSET Legs /\ noted \in SUBSET Annotated /\ {} \in Version
      BY DEF Version
    <3>4. file' \in Positions
      BY <3>2, <3>3 DEF TypeOK, Positions
    <3>5. overlapped' \in BOOLEAN
      BY <2>5 DEF ConfirmIbkrUpload
    <3>6. QED
      BY <2>5, <3>4, <3>5, HappensType DEF ConfirmIbkrUpload, TypeOK
  <2>6. CASE Crash
    <3>1. lost' \in BOOLEAN
      BY <2>6 DEF Crash
    <3>2. QED
      BY <2>6, <3>1, HappensType, NothingType DEF Crash, TypeOK
  <2>7. CASE \/ AutoSync
             \/ \E j \in Manual : TriggerSync(j) \/ RetryLastUpload(j) \/ PreviewSync(j)
    <3>1. PICK j \in Jobs, op \in {"sync", "retry", "preview"}, back \in Backend,
               prior \in Backend \union {"none"} : Begin(j, op, back, prior)
      BY <2>7, StartBegins
    <3>2. cap' \in {"none", "up", "down"}
      BY <2>7, StartBegins
    <3>3. job' \in [Jobs -> Job] /\ overlapped' \in BOOLEAN
      BY <3>1, BeginType
    <3>4. QED
      BY <3>1, <3>2, <3>3 DEF Begin, TypeOK
  <2>8. ASSUME NEW j \in Jobs, FetchPositions(j)
        PROVE  TypeOK'
    <3>1. job' \in [Jobs -> Job]
      <4>1. CASE job[j].op = "preview"
        BY <2>8, <4>1, NothingType DEF FetchPositions, Ends, TypeOK
      <4>2. CASE job[j].op # "preview"
        BY <2>8, <4>2, FetchedType, GoesType DEF FetchPositions, Finish, TypeOK
      <4>3. QED
        BY <4>1, <4>2
    <3>2. Fetched(j).legs \subseteq Legs
      BY DEF Fetched, TypeOK
    <3>3. db' \subseteq Legs /\ missing' \in BOOLEAN /\ events' \in 0..MaxEvents
      BY <2>8, <3>2, HappensType DEF FetchPositions, Upserted, TypeOK
    <3>4. QED
      BY <2>8, <3>1, <3>3 DEF FetchPositions, TypeOK
  <2>9. ASSUME NEW j \in Jobs, SyncSynthetic(j)
        PROVE  TypeOK'
    <3>1. PICK kept \in {file, job[j].data} :
            Goes(j, Finish(job[j].op), [kept EXCEPT !.asof = file.asof])
      BY <2>9 DEF SyncSynthetic
    <3>2. kept \in Positions
      BY <3>1 DEF TypeOK, Job
    <3>3. [kept EXCEPT !.asof = file.asof] \in Positions
      BY <3>2 DEF TypeOK, Positions
    <3>4. job' \in [Jobs -> Job]
      BY <3>1, <3>3, GoesType DEF Finish, TypeOK
    <3>5. QED
      BY <2>9, <3>4 DEF SyncSynthetic, TypeOK
  <2>10. ASSUME NEW j \in Jobs, FetchFails(j)
         PROVE  TypeOK'
    <3>1. record' \in Attempt /\ job' \in [Jobs -> Job]
      BY <2>10, FailureType, NothingType DEF FetchFails, Ends, TypeOK
    <3>2. events' \in 0..MaxEvents
      BY <2>10, HappensType DEF FetchFails
    <3>3. QED
      BY <2>10, <3>1, <3>2 DEF FetchFails, TypeOK
  <2>11. ASSUME NEW j \in Jobs, RecordSync(j)
         PROVE  TypeOK'
    <3>1. PICK told \in BOOLEAN :
            /\ Stored(told)
            /\ record' = IF told THEN Told("ok", job[j].back, FALSE) ELSE record
            /\ job' = [job EXCEPT ![j] = [@ EXCEPT !.pc = "save", !.told = told]]
      BY <2>11 DEF RecordSync
    <3>2. Told("ok", job[j].back, FALSE) \in Attempt
      BY DEF TypeOK, Job, Told, Attempt
    <3>a. [job[j] EXCEPT !.pc = "save", !.told = told] \in Job
      BY DEF TypeOK, Job
    <3>3. record' \in Attempt /\ job' \in [Jobs -> Job]
      BY <3>1, <3>2, <3>a DEF TypeOK
    <3>4. events' \in 0..MaxEvents
      BY <3>1, HappensType DEF Stored
    <3>5. QED
      BY <2>11, <3>3, <3>4 DEF RecordSync, TypeOK
  <2>12. ASSUME NEW j \in Jobs, SaveSync(j)
         PROVE  TypeOK'
    <3>1. file' \in Positions
      BY <2>12 DEF SaveSync, TypeOK, Job
    <3>a. job' \in [Jobs -> Job]
      BY <2>12, NothingType DEF SaveSync, Ends, TypeOK
    <3>2. record' \in Attempt
      BY <2>12 DEF SaveSync, TypeOK, Attempt
    <3>3. QED
      BY <2>12, <3>1, <3>a, <3>2 DEF SaveSync, TypeOK
  <2>13. ASSUME NEW j \in Jobs, SaveRetry(j)
         PROVE  TypeOK'
    <3>1. file' \in Positions /\ job' \in [Jobs -> Job]
      BY <2>13, NothingType, GoesType DEF SaveRetry, TypeOK, Job
    <3>2. QED
      BY <2>13, <3>1 DEF SaveRetry, TypeOK
  <2>14. ASSUME NEW j \in Jobs, RecordRetry(j)
         PROVE  TypeOK'
    <3>1. PICK told \in BOOLEAN :
            /\ Stored(told)
            /\ record' = IF told THEN Told("ok", job[j].back, TRUE) ELSE record
      BY <2>14 DEF RecordRetry
    <3>2. Told("ok", job[j].back, TRUE) \in Attempt
      BY DEF TypeOK, Job, Told, Attempt
    <3>3. record' \in Attempt /\ events' \in 0..MaxEvents
      BY <3>1, <3>2, HappensType DEF Stored, TypeOK
    <3>4. job' \in [Jobs -> Job]
      BY <2>14, NothingType DEF RecordRetry, Ends, TypeOK
    <3>5. QED
      BY <2>14, <3>3, <3>4 DEF RecordRetry, TypeOK
  <2>15. ASSUME NEW j \in Jobs, SaveFails(j)
         PROVE  TypeOK'
    <3>1. record' \in Attempt /\ job' \in [Jobs -> Job] /\ lost' \in BOOLEAN
      BY <2>15, FailureType, NothingType DEF SaveFails, Ends, TypeOK
    <3>2. QED
      BY <2>15, <3>1, HappensType DEF SaveFails, TypeOK
  <2>16. CASE UNCHANGED vars
    BY <2>16 DEF vars, TypeOK
  <2>17. QED
    BY <2>1, <2>2, <2>3, <2>4, <2>5, <2>6, <2>7, <2>8, <2>9, <2>10, <2>11, <2>12,
       <2>13, <2>14, <2>15, <2>16 DEF Next, OnLoop, Busy
<1>3. QED
  BY <1>1, <1>2, PTL DEF Spec

-----------------------------------------------------------------------------
(* The record in Redis.                                                    *)

\* The record tells of a save that has happened.
Agrees == record.status = "ok" <=> record.kept

ToldOf(j) == job[j].told

\* Only a sync between its record and its save has a success in Redis that it
\* has not saved; only one job at a time keeps the loop busy.
RecordInv ==
  /\ \A j \in Jobs : ToldOf(j) => job[j].op = "sync" /\ job[j].pc = "save"
  /\ \A i, j \in Jobs : Holds(i) /\ Holds(j) => i = j
  /\ ~lost => IF \E j \in Jobs : ToldOf(j) THEN record.status = "ok" ELSE Agrees

\* A step that takes its job off the loop, or never had one there.
LEMMA RecordEnds ==
  ASSUME TypeOK, RecordInv, NEW j \in Jobs, job' = [job EXCEPT ![j] = NoJob]
  PROVE  /\ \A i \in Jobs : ToldOf(i)'
              => job'[i].op = "sync" /\ job'[i].pc = "save"
         /\ \A h, i \in Jobs : Holds(h)' /\ Holds(i)' => h = i
         /\ ~ToldOf(j)'
         /\ \A i \in Jobs : i # j => (ToldOf(i)' <=> ToldOf(i))
<1>1. \A i \in Jobs : job'[i] = IF i = j THEN NoJob ELSE job[i]
  BY DEF TypeOK
<1>2. ~NoJob.told /\ NoJob.pc = "idle"
  BY DEF NoJob
<1>3. QED
  BY <1>1, <1>2 DEF RecordInv, Holds, ToldOf

\* A job that is not told and holds no one up goes on, still so.
LEMMA RecordGoes ==
  ASSUME TypeOK, RecordInv, NEW j \in Jobs, ~Holds(j), NEW pc, NEW d,
         Goes(j, pc, d),
         ~(job[j].op = "sync" /\ pc = "save"),
         ~(job[j].op = "retry" /\ pc = "record"),
         UNCHANGED <<record, lost>>
  PROVE  RecordInv'
<1>1. ~ToldOf(j)
  BY DEF RecordInv, Holds
<1>2. /\ job'[j].op = job[j].op /\ job'[j].pc = pc /\ job'[j].told = job[j].told
      /\ \A i \in Jobs : i # j => job'[i] = job[i]
  BY DEF Goes, TypeOK, Job
<1>3. ~Holds(j)' /\ ~ToldOf(j)'
  BY <1>1, <1>2 DEF Holds, ToldOf
<1>4. \A i \in Jobs : (Holds(i)' <=> Holds(i)) /\ (ToldOf(i)' <=> ToldOf(i))
  BY <1>1, <1>2, <1>3 DEF Holds, ToldOf
<1>5. QED
  BY <1>1, <1>2, <1>3, <1>4 DEF RecordInv, Agrees

\* What the record tells of the jobs is inductive.
LEMMA RecordStep == TypeOK /\ RecordInv /\ [Next]_vars => RecordInv'
<1> SUFFICES ASSUME TypeOK, RecordInv, [Next]_vars
             PROVE  RecordInv'
  OBVIOUS
<1> USE DEF broker, history
<1>1. CASE UNCHANGED <<job, record, lost>>
  BY <1>1 DEF RecordInv, Holds, ToldOf, Agrees
<1>2. CASE Trade \/ Change \/ GetCapability \/ CapabilityExpires \/ ConfirmIbkrUpload
  BY <1>1, <1>2 DEF Trade, Change, GetCapability, CapabilityExpires,
                    ConfirmIbkrUpload
<1>3. CASE RecordExpires
  <2>1. LoopFree /\ record' = NoAttempt /\ UNCHANGED <<job, lost>>
    BY <1>3 DEF RecordExpires
  <2>2. \A j \in Jobs : ~ToldOf(j)
    BY <2>1 DEF RecordInv, LoopFree, Holds
  <2>3. Agrees'
    BY <2>1 DEF Agrees, NoAttempt
  <2>4. QED
    BY <2>1, <2>2, <2>3 DEF RecordInv, Holds, ToldOf
<1>4. CASE Crash
  <2>1. \A j \in Jobs : job'[j] = NoJob
    BY <1>4 DEF Crash
  <2>2. \A j \in Jobs : ~ToldOf(j)' /\ ~Holds(j)'
    BY <2>1 DEF ToldOf, Holds, NoJob
  <2>3. ~lost' => ~lost /\ LoopFree /\ record' = record
    BY <1>4 DEF Crash, TypeOK
  <2>4. ~lost' => Agrees'
    BY <2>3 DEF RecordInv, LoopFree, Agrees, Holds
  <2>5. QED
    BY <2>2, <2>4 DEF RecordInv
<1>5. CASE \/ AutoSync
           \/ \E j \in Manual : TriggerSync(j) \/ RetryLastUpload(j) \/ PreviewSync(j)
  <2>1. PICK j \in Jobs, op \in {"sync", "retry", "preview"}, back \in Backend,
             prior \in Backend \union {"none"} : Begin(j, op, back, prior)
    BY <1>5, StartBegins
  <2>2. /\ LoopFree /\ UNCHANGED <<record, lost>>
        /\ job'[j].pc = "fetch" /\ job'[j].told = FALSE
        /\ \A i \in Jobs : i # j => job'[i] = job[i]
    BY <2>1 DEF Begin, TypeOK
  <2>3. \A i \in Jobs : ~ToldOf(i) /\ ~Holds(i)
    BY <2>2 DEF RecordInv, LoopFree, Holds
  <2>4. \A i \in Jobs : ~ToldOf(i)' /\ ~Holds(i)'
    BY <2>2, <2>3 DEF ToldOf, Holds
  <2>5. QED
    BY <2>2, <2>3, <2>4 DEF RecordInv, Agrees
<1>6. ASSUME NEW j \in Jobs, FetchPositions(j)
      PROVE  RecordInv'
  <2>1. job[j].pc = "fetch" /\ ~Holds(j) /\ UNCHANGED <<record, lost>>
    BY <1>6 DEF FetchPositions, Holds
  <2>2. CASE job[j].op = "preview"
    <3>1. job' = [job EXCEPT ![j] = NoJob]
      BY <1>6, <2>2 DEF FetchPositions, Ends
    <3>2. ~ToldOf(j)
      BY <2>1 DEF RecordInv
    <3>3. \A i \in Jobs : ToldOf(i)' <=> ToldOf(i)
      BY <3>1, <3>2, RecordEnds
    <3>4. QED
      BY <2>1, <3>1, <3>3, RecordEnds DEF RecordInv, Agrees
  <2>3. CASE job[j].op # "preview"
    BY <1>6, <2>1, <2>3, RecordGoes DEF FetchPositions, Finish
  <2>4. QED
    BY <2>2, <2>3
<1>7. ASSUME NEW j \in Jobs, SyncSynthetic(j)
      PROVE  RecordInv'
  <2>1. job[j].pc = "fetch" /\ ~Holds(j) /\ UNCHANGED <<record, lost>>
    BY <1>7 DEF SyncSynthetic, Holds
  <2>2. PICK d : Goes(j, Finish(job[j].op), d)
    BY <1>7 DEF SyncSynthetic
  <2>3. QED
    BY <2>1, <2>2, RecordGoes DEF Finish
<1>8. ASSUME NEW j \in Jobs, FetchFails(j)
      PROVE  RecordInv'
  <2>1. /\ LoopFree /\ job' = [job EXCEPT ![j] = NoJob]
        /\ record' \in Failure(j) /\ lost' = lost
    BY <1>8 DEF FetchFails, Ends
  <2>2. \A i \in Jobs : ~ToldOf(i)
    BY <2>1 DEF RecordInv, LoopFree, Holds
  <2>3. \A i \in Jobs : ~ToldOf(i)'
    BY <2>1, <2>2, RecordEnds
  <2>4. Agrees => Agrees'
    BY <2>1 DEF Agrees, Failure, Told, TypeOK, Job
  <2>5. QED
    BY <2>1, <2>2, <2>3, <2>4, RecordEnds DEF RecordInv
<1>9. ASSUME NEW j \in Jobs, RecordSync(j)
      PROVE  RecordInv'
  <2>1. PICK told \in BOOLEAN :
          /\ LoopFree
          /\ job[j].op = "sync"
          /\ record' = IF told THEN Told("ok", job[j].back, FALSE) ELSE record
          /\ job' = [job EXCEPT ![j] = [job[j] EXCEPT !.pc = "save", !.told = told]]
          /\ lost' = lost
    BY <1>9 DEF RecordSync
  <2>2. \A i \in Jobs : ~Holds(i) /\ ~ToldOf(i)
    BY <2>1 DEF LoopFree, RecordInv, Holds
  <2>3. /\ job'[j].op = "sync" /\ job'[j].pc = "save" /\ job'[j].told = told
        /\ \A i \in Jobs : i # j => job'[i] = job[i]
    BY <2>1 DEF TypeOK, Job
  <2>4. /\ (ToldOf(j)' <=> told)
        /\ \A i \in Jobs : i # j => ~Holds(i)' /\ ~ToldOf(i)'
    BY <2>2, <2>3 DEF Holds, ToldOf
  <2>5. IF told THEN record'.status = "ok" ELSE record' = record
    BY <2>1 DEF Told
  <2>6. QED
    BY <2>1, <2>2, <2>3, <2>4, <2>5 DEF RecordInv, Agrees
<1>10. ASSUME NEW j \in Jobs, SaveSync(j)
       PROVE  RecordInv'
  <2>1. /\ Holds(j) /\ job' = [job EXCEPT ![j] = NoJob] /\ lost' = lost
        /\ record' = IF job[j].told THEN [record EXCEPT !.kept = TRUE] ELSE record
    BY <1>10 DEF SaveSync, Ends, Holds
  <2>2. \A i \in Jobs : i # j => ~ToldOf(i)
    BY <2>1 DEF RecordInv, Holds
  <2>3. \A i \in Jobs : ~ToldOf(i)'
    BY <2>1, <2>2, RecordEnds
  <2>4. ~lost => Agrees'
    <3>1. CASE ToldOf(j)
      BY <2>1, <3>1 DEF RecordInv, Agrees, ToldOf, TypeOK, Attempt
    <3>2. CASE ~ToldOf(j)
      BY <2>1, <2>2, <3>2 DEF RecordInv, Agrees, ToldOf
    <3>3. QED
      BY <3>1, <3>2
  <2>5. QED
    BY <2>1, <2>3, <2>4, RecordEnds DEF RecordInv
<1>11. ASSUME NEW j \in Jobs, SaveRetry(j)
       PROVE  RecordInv'
  <2>1. /\ LoopFree /\ job[j].op = "retry" /\ UNCHANGED <<record, lost>>
        /\ job' = [job EXCEPT ![j] =
                     [job[j] EXCEPT !.pc = "record", !.data = NoPositions]]
    BY <1>11 DEF SaveRetry, Goes
  <2>2. \A i \in Jobs : ~Holds(i) /\ ~ToldOf(i)
    BY <2>1 DEF LoopFree, RecordInv, Holds
  <2>3. /\ job'[j].told = job[j].told
        /\ \A i \in Jobs : i # j => job'[i] = job[i]
    BY <2>1 DEF TypeOK, Job
  <2>4. /\ \A i \in Jobs : ~ToldOf(i)'
        /\ \A i \in Jobs : i # j => ~Holds(i)'
    BY <2>2, <2>3 DEF Holds, ToldOf
  <2>5. QED
    BY <2>1, <2>2, <2>4 DEF RecordInv, Agrees
<1>12. ASSUME NEW j \in Jobs, RecordRetry(j)
       PROVE  RecordInv'
  <2>1. PICK told \in BOOLEAN :
          /\ job[j].op = "retry" /\ job[j].pc = "record"
          /\ record' = IF told THEN Told("ok", job[j].back, TRUE) ELSE record
          /\ job' = [job EXCEPT ![j] = NoJob]
          /\ lost' = lost
    BY <1>12 DEF RecordRetry, Ends
  <2>2. \A i \in Jobs : ~ToldOf(i)
    BY <2>1 DEF RecordInv, Holds
  <2>3. \A i \in Jobs : ~ToldOf(i)'
    BY <2>1, <2>2, RecordEnds
  <2>4. Agrees => Agrees'
    BY <2>1 DEF Agrees, Told
  <2>5. QED
    BY <2>1, <2>2, <2>3, <2>4, RecordEnds DEF RecordInv
<1>13. ASSUME NEW j \in Jobs, SaveFails(j)
       PROVE  RecordInv'
  <2>1. /\ Holds(j) \/ LoopFree
        /\ job' = [job EXCEPT ![j] = NoJob]
        /\ record' \in Failure(j)
        /\ lost' = (lost \/ (job[j].told /\ record' = record))
    BY <1>13 DEF SaveFails, Ends
  <2>2. \A i \in Jobs : i # j => ~ToldOf(i)
    BY <2>1 DEF RecordInv, LoopFree, Holds
  <2>3. \A i \in Jobs : ~ToldOf(i)'
    BY <2>1, <2>2, RecordEnds
  <2>4. record' = record \/ Agrees'
    BY <2>1 DEF Agrees, Failure, Told, TypeOK, Job
  <2>5. ~lost' => Agrees'
    <3>1. CASE ToldOf(j)
      BY <2>1, <2>4, <3>1 DEF ToldOf, TypeOK
    <3>2. CASE ~ToldOf(j)
      BY <2>1, <2>2, <2>4, <3>2 DEF RecordInv, Agrees, TypeOK
    <3>3. QED
      BY <3>1, <3>2
  <2>6. QED
    BY <2>1, <2>3, <2>5, RecordEnds DEF RecordInv
<1>14. CASE UNCHANGED vars
  BY <1>1, <1>14 DEF vars
<1>15. QED
  BY <1>2, <1>3, <1>4, <1>5, <1>6, <1>7, <1>8, <1>9, <1>10, <1>11, <1>12, <1>13,
     <1>14 DEF Next, OnLoop, Busy

\* Between jobs the record in Redis tells whether the attempt has saved its
\* positions, but for a crash or a result Redis has not taken.
THEOREM RecordIsTrue == Spec => []RecordTellsSaved
<1>1. Init => RecordInv
  BY DEF Init, RecordInv, ToldOf, Holds, NoJob, Agrees, NoAttempt
<1>2. RecordInv => RecordTellsSaved
  BY DEF RecordInv, RecordTellsSaved, LoopFree, Agrees, Holds
<1>3. QED
  BY <1>1, <1>2, RecordStep, TypeCorrect, PTL DEF Spec

-----------------------------------------------------------------------------
(* The rows of MySQL.                                                      *)

\* What came from the broker has its rows: in the file, and in every job.
HasRows(p) == p.origin # {} => p.legs \subseteq db
RowsInv == ~missing => HasRows(file) /\ \A j \in Jobs : HasRows(job[j].data)

\* A step that deletes no row, and whose positions all have their rows.
LEMMA RowsKept ==
  ASSUME RowsInv, missing' = missing, db \subseteq db',
         ~missing => \/ file' = file
                     \/ file'.origin # {} => file'.legs \subseteq db',
         ~missing => \A j \in Jobs :
           \/ job'[j].data = job[j].data
           \/ job'[j].data.origin # {} => job'[j].data.legs \subseteq db'
  PROVE  RowsInv'
BY DEF RowsInv, HasRows

\* That what came from the broker has its rows is inductive.
LEMMA RowsStep == TypeOK /\ RowsInv /\ [Next]_vars => RowsInv'
<1> SUFFICES ASSUME TypeOK, RowsInv, [Next]_vars
             PROVE  RowsInv'
  OBVIOUS
<1> USE DEF broker, history
<1>0. NoJob.data.origin = {} /\ NoPositions.origin = {}
  BY DEF NoJob, NoPositions
<1>1. ASSUME UNCHANGED <<file, db, missing>>,
             \A j \in Jobs : job'[j] = job[j] \/ job'[j].data.origin = {}
      PROVE  RowsInv'
  BY <1>1 DEF RowsInv, HasRows
<1>2. CASE Trade \/ Change \/ GetCapability \/ CapabilityExpires \/ RecordExpires
  BY <1>1, <1>2 DEF Trade, Change, GetCapability, CapabilityExpires, RecordExpires
<1>3. CASE ConfirmIbkrUpload
  <2>1. file'.origin = {} /\ UNCHANGED <<db, job, missing>>
    BY <1>3 DEF ConfirmIbkrUpload, TypeOK, Positions
  <2>2. QED
    BY <2>1 DEF RowsInv, HasRows
<1>4. CASE Crash
  BY <1>0, <1>1, <1>4 DEF Crash
<1>5. CASE \/ AutoSync
           \/ \E j \in Manual : TriggerSync(j) \/ RetryLastUpload(j) \/ PreviewSync(j)
  <2>1. PICK j \in Jobs, op \in {"sync", "retry", "preview"}, back \in Backend,
             prior \in Backend \union {"none"} : Begin(j, op, back, prior)
    BY <1>5, StartBegins
  <2>2. /\ UNCHANGED <<file, db, missing>>
        /\ job'[j].data = Existing(op, back)
        /\ \A i \in Jobs : i # j => job'[i] = job[i]
    BY <2>1 DEF Begin, TypeOK
  <2>3. \/ Existing(op, back).origin = {}
        \/ /\ Existing(op, back).origin = file.origin
           /\ Existing(op, back).legs = file.legs
    BY <1>0 DEF Existing, NoPositions, TypeOK, Positions
  <2>4. QED
    BY <2>2, <2>3 DEF RowsInv, HasRows
<1>6. ASSUME NEW j \in Jobs, FetchPositions(j)
      PROVE  RowsInv'
  <2>1. CASE missing'
    BY <2>1 DEF RowsInv
  <2>2. CASE ~missing'
    <3>1. missing' = missing /\ db' = db \union book /\ file' = file
      BY <1>6, <2>2 DEF FetchPositions, Upserted, Fetched
    <3>2. /\ \A i \in Jobs : i # j => job'[i] = job[i]
          /\ job'[j].data = NoJob.data \/ job'[j].data = Fetched(j)
      BY <1>6 DEF FetchPositions, Ends, Goes, TypeOK, Job
    <3>3. Fetched(j).legs \subseteq db'
      BY <3>1 DEF Fetched
    <3>4. QED
      BY <1>0, <3>1, <3>2, <3>3, RowsKept
  <2>3. QED
    BY <2>1, <2>2
<1>7. ASSUME NEW j \in Jobs, SyncSynthetic(j)
      PROVE  RowsInv'
  <2>1. PICK kept \in {file, job[j].data} :
          Goes(j, Finish(job[j].op), [kept EXCEPT !.asof = file.asof])
    BY <1>7 DEF SyncSynthetic
  <2>2. /\ \A i \in Jobs : i # j => job'[i] = job[i]
        /\ job'[j].data.legs = kept.legs /\ job'[j].data.origin = kept.origin
    BY <2>1 DEF Goes, TypeOK, Job, Positions
  <2>3. UNCHANGED <<file, db, missing>>
    BY <1>7 DEF SyncSynthetic
  <2>4. QED
    BY <2>1, <2>2, <2>3 DEF RowsInv, HasRows
<1>8. ASSUME NEW j \in Jobs, FetchFails(j) \/ RecordRetry(j) \/ SaveFails(j)
      PROVE  RowsInv'
  <2>1. Ends(j) /\ UNCHANGED <<file, db, missing>>
    BY <1>8 DEF FetchFails, RecordRetry, SaveFails
  <2>2. QED
    BY <1>0, <1>1, <2>1 DEF Ends, TypeOK
<1>9. ASSUME NEW j \in Jobs, RecordSync(j)
      PROVE  RowsInv'
  <2>1. PICK told \in BOOLEAN :
          job' = [job EXCEPT ![j] = [job[j] EXCEPT !.pc = "save", !.told = told]]
    BY <1>9 DEF RecordSync
  <2>2. \A i \in Jobs : job'[i].data = job[i].data
    BY <2>1 DEF TypeOK, Job
  <2>3. UNCHANGED <<file, db, missing>>
    BY <1>9 DEF RecordSync
  <2>4. QED
    BY <2>2, <2>3 DEF RowsInv, HasRows
<1>10. ASSUME NEW j \in Jobs, SaveSync(j) \/ SaveRetry(j)
       PROVE  RowsInv'
  <2>1. file' = job[j].data /\ UNCHANGED <<db, missing>>
    BY <1>10 DEF SaveSync, SaveRetry
  <2>2. /\ \A i \in Jobs : i # j => job'[i] = job[i]
        /\ job'[j].data.origin = {}
    BY <1>0, <1>10 DEF SaveSync, SaveRetry, Ends, Goes, TypeOK, Job
  <2>3. QED
    BY <2>1, <2>2 DEF RowsInv, HasRows
<1>11. CASE UNCHANGED vars
  BY <1>1, <1>11 DEF vars
<1>12. QED
  BY <1>2, <1>3, <1>4, <1>5, <1>6, <1>7, <1>8, <1>9, <1>10, <1>11
     DEF Next, OnLoop, Busy

\* As long as MySQL has taken every write, GET /positions leaves out none of the
\* positions a sync has brought from the broker.
THEOREM NoneIsHidden == Spec => []NothingOpenIsHidden
<1>1. Init => RowsInv
  BY DEF Init, RowsInv, HasRows, NoJob, NoPositions
<1>2. RowsInv => NothingOpenIsHidden
  BY DEF RowsInv, HasRows, NothingOpenIsHidden, Shown
<1>3. QED
  BY <1>1, <1>2, RowsStep, TypeCorrect, PTL DEF Spec

-----------------------------------------------------------------------------
(* The notes.                                                              *)

\* A job on its own starts from the notes of the file, and has those of the
\* legs it brings.
NotesKept(j) ==
  LET d == job[j].data IN
  /\ job[j].pc # "idle" /\ job[j].op = "preview" => job[j].back = "web_api"
  /\ job[j].pc = "fetch" /\ job[j].op # "preview" => d.noted = file.noted
  /\ job[j].pc \in {"record", "save"} => file.noted \intersect d.legs \subseteq d.noted

NotesInv ==
  ~overlapped => /\ \A i, j \in Jobs : ~Idle(i) /\ ~Idle(j) => i = j
                 /\ \A j \in Jobs : NotesKept(j)

\* A step of one job, none having overlapped: the others are idle and stay so.
LEMMA NotesOthers ==
  ASSUME TypeOK, NotesInv, ~overlapped, NEW j \in Jobs, ~Idle(j),
         \A i \in Jobs : i # j => job'[i] = job[i],
         NotesKept(j)'
  PROVE  NotesInv'
<1>1. \A i \in Jobs : i # j => job[i].pc = "idle" /\ job'[i].pc = "idle"
  BY DEF NotesInv, Idle
<1>2. QED
  BY <1>1 DEF NotesInv, NotesKept, Idle

\* What a job has of the notes is inductive.
LEMMA NotesStep == TypeOK /\ NotesInv /\ [Next]_vars => NotesInv'
<1> SUFFICES ASSUME TypeOK, NotesInv, [Next]_vars, ~overlapped'
             PROVE  NotesInv'
  BY DEF NotesInv
<1> USE DEF broker, history
<1>0. NoJob.pc = "idle" /\ NoPositions.legs = {}
  BY DEF NoJob, NoPositions
<1>1. CASE UNCHANGED <<file, job, overlapped>>
  BY <1>1 DEF NotesInv, NotesKept, Idle
<1>2. CASE Trade \/ Change \/ GetCapability \/ CapabilityExpires \/ RecordExpires
  BY <1>1, <1>2 DEF Trade, Change, GetCapability, CapabilityExpires, RecordExpires
<1>3. CASE ConfirmIbkrUpload
  <2>1. \A j \in Jobs : job[j].pc = "idle" /\ job'[j].pc = "idle"
    BY <1>3 DEF ConfirmIbkrUpload, Idle
  <2>2. QED
    BY <2>1 DEF NotesInv, NotesKept, Idle
<1>4. CASE Crash
  BY <1>0, <1>4 DEF Crash, NotesInv, NotesKept, Idle
<1>5. CASE \/ AutoSync
           \/ \E j \in Manual : TriggerSync(j) \/ RetryLastUpload(j) \/ PreviewSync(j)
  <2>1. PICK j \in Jobs, op \in {"sync", "retry", "preview"}, back \in Backend,
             prior \in Backend \union {"none"} :
               Begin(j, op, back, prior) /\ (op = "preview" => back = "web_api")
    BY <1>5, StartBegins
  <2>2. /\ \A i \in Jobs : job[i].pc = "idle"
        /\ \A i \in Jobs : i # j => job'[i] = job[i]
        /\ job'[j] = [pc |-> "fetch", op |-> op, back |-> back, prior |-> prior,
                      data |-> Existing(op, back), told |-> FALSE]
        /\ file' = file
    BY <2>1 DEF Begin, TypeOK, Idle
  <2>3. op # "preview" => Existing(op, back).noted = file.noted
    BY DEF Existing, NoPositions, TypeOK, Positions
  <2>4. NotesKept(j)'
    BY <2>1, <2>2, <2>3 DEF NotesKept
  <2>5. \A i \in Jobs : i # j => NotesKept(i)'
    BY <2>2 DEF NotesKept
  <2>6. QED
    BY <2>2, <2>4, <2>5 DEF NotesInv, Idle
<1>6. ASSUME NEW j \in Jobs, FetchPositions(j)
      PROVE  NotesInv'
  <2>1. job[j].pc = "fetch" /\ ~overlapped /\ file' = file
    BY <1>6 DEF FetchPositions
  <2>2. \A i \in Jobs : i # j => job'[i] = job[i]
    BY <1>6 DEF FetchPositions, Ends, Goes, TypeOK
  <2>3. CASE job[j].op = "preview"
    <3>1. job'[j].pc = "idle"
      BY <1>0, <1>6, <2>3 DEF FetchPositions, Ends, TypeOK
    <3>2. QED
      BY <2>1, <2>2, <3>1, NotesOthers DEF NotesKept, Idle
  <2>4. CASE job[j].op # "preview"
    <3>1. job[j].data.noted = file.noted
      BY <2>1, <2>4 DEF NotesInv, NotesKept
    <3>2. /\ job'[j].data = Fetched(j) /\ job'[j].op = job[j].op
          /\ job'[j].pc = Finish(job[j].op)
      BY <1>6, <2>4 DEF FetchPositions, Goes, TypeOK, Job
    <3>3. file.noted \intersect Fetched(j).legs \subseteq Fetched(j).noted
      BY <3>1 DEF Fetched
    <3>4. NotesKept(j)'
      BY <2>1, <2>4, <3>2, <3>3 DEF NotesKept, Finish
    <3>5. QED
      BY <2>1, <2>2, <3>4, NotesOthers DEF Idle
  <2>5. QED
    BY <2>3, <2>4
<1>7. ASSUME NEW j \in Jobs, SyncSynthetic(j)
      PROVE  NotesInv'
  <2>1. /\ job[j].pc = "fetch" /\ job[j].back = "bs_yfinance"
        /\ ~overlapped /\ file' = file
    BY <1>7 DEF SyncSynthetic
  <2>2. job[j].op # "preview" /\ job[j].data.noted = file.noted
    BY <2>1 DEF NotesInv, NotesKept
  <2>3. PICK kept \in {file, job[j].data} :
          Goes(j, Finish(job[j].op), [kept EXCEPT !.asof = file.asof])
    BY <1>7 DEF SyncSynthetic
  <2>4. /\ \A i \in Jobs : i # j => job'[i] = job[i]
        /\ job'[j].data.noted = file.noted
        /\ job'[j].op = job[j].op /\ job'[j].pc = Finish(job[j].op)
    BY <2>2, <2>3 DEF Goes, TypeOK, Job, Positions
  <2>5. NotesKept(j)'
    BY <2>1, <2>2, <2>4 DEF NotesKept, Finish
  <2>6. QED
    BY <2>1, <2>4, <2>5, NotesOthers DEF Idle
<1>8. ASSUME NEW j \in Jobs,
             FetchFails(j) \/ RecordRetry(j) \/ SaveFails(j) \/ SaveSync(j)
      PROVE  NotesInv'
  <2>1. job[j].pc # "idle" /\ Ends(j) /\ overlapped' = overlapped
    <3>1. CASE FetchFails(j)
      BY <3>1 DEF FetchFails
    <3>2. CASE RecordRetry(j)
      BY <3>2 DEF RecordRetry
    <3>3. CASE SaveFails(j)
      BY <3>3 DEF SaveFails
    <3>4. CASE SaveSync(j)
      BY <3>4 DEF SaveSync
    <3>5. QED
      BY <1>8, <3>1, <3>2, <3>3, <3>4
  <2>2. job'[j].pc = "idle" /\ \A i \in Jobs : i # j => job'[i] = job[i]
    BY <1>0, <2>1 DEF Ends, TypeOK
  <2>3. QED
    BY <2>1, <2>2, NotesOthers DEF NotesKept, Idle
<1>9. ASSUME NEW j \in Jobs, RecordSync(j)
      PROVE  NotesInv'
  <2>1. PICK told \in BOOLEAN :
          job' = [job EXCEPT ![j] = [job[j] EXCEPT !.pc = "save", !.told = told]]
    BY <1>9 DEF RecordSync
  <2>2. job[j].pc = "record" /\ job[j].op = "sync" /\ ~overlapped /\ file' = file
    BY <1>9 DEF RecordSync
  <2>3. /\ \A i \in Jobs : i # j => job'[i] = job[i]
        /\ job'[j].data = job[j].data /\ job'[j].op = "sync" /\ job'[j].pc = "save"
    BY <2>1, <2>2 DEF TypeOK, Job
  <2>4. file.noted \intersect job[j].data.legs \subseteq job[j].data.noted
    BY <2>2 DEF NotesInv, NotesKept
  <2>5. NotesKept(j)'
    BY <2>2, <2>3, <2>4 DEF NotesKept
  <2>6. QED
    BY <2>2, <2>3, <2>5, NotesOthers DEF Idle
<1>10. ASSUME NEW j \in Jobs, SaveRetry(j)
       PROVE  NotesInv'
  <2>1. job[j].pc = "save" /\ job[j].op = "retry" /\ ~overlapped
    BY <1>10 DEF SaveRetry
  <2>2. /\ \A i \in Jobs : i # j => job'[i] = job[i]
        /\ job'[j].data = NoPositions /\ job'[j].op = "retry"
        /\ job'[j].pc = "record"
    BY <1>10, <2>1 DEF SaveRetry, Goes, TypeOK, Job
  <2>3. NotesKept(j)'
    BY <1>0, <2>2 DEF NotesKept
  <2>4. QED
    BY <2>1, <2>2, <2>3, NotesOthers DEF Idle
<1>11. CASE UNCHANGED vars
  BY <1>1, <1>11 DEF vars
<1>12. QED
  BY <1>2, <1>3, <1>4, <1>5, <1>6, <1>7, <1>8, <1>9, <1>10, <1>11
     DEF Next, OnLoop, Busy

\* As long as no two jobs have overlapped, a position that stays in the file
\* keeps its notes and strategy through every sync and retry, unless the user
\* confirms another.
THEOREM NotesAreKept == Spec => NotesSurviveSyncs
<1>1. Init => NotesInv
  BY DEF Init, NotesInv, NotesKept, NoJob, Idle
<1>2. TypeOK /\ NotesInv /\ [Next]_vars
        => [~overlapped' /\ ~ConfirmIbkrUpload
              => file.noted \intersect file'.legs \subseteq file'.noted]_vars
  <2> SUFFICES ASSUME TypeOK, NotesInv, Next, ~overlapped', ~ConfirmIbkrUpload
               PROVE  file.noted \intersect file'.legs \subseteq file'.noted
    OBVIOUS
  <2> USE DEF broker, history
  <2>1. CASE \E j \in Jobs : SaveSync(j) \/ SaveRetry(j)
    <3>1. PICK j \in Jobs : SaveSync(j) \/ SaveRetry(j)
      BY <2>1
    <3>2. job[j].pc = "save" /\ file' = job[j].data /\ ~overlapped
      BY <3>1 DEF SaveSync, SaveRetry
    <3>3. QED
      BY <3>2 DEF NotesInv, NotesKept
  <2>2. CASE \/ AutoSync
             \/ \E j \in Manual : TriggerSync(j) \/ RetryLastUpload(j) \/ PreviewSync(j)
    <3>1. file' = file
      BY <2>2, StartBegins DEF Begin
    <3>2. QED
      BY <3>1
  <2>3. CASE Trade \/ Change \/ GetCapability \/ CapabilityExpires
             \/ RecordExpires \/ Crash
    BY <2>3 DEF Trade, Change, GetCapability, CapabilityExpires, RecordExpires,
                Crash
  <2>4. ASSUME NEW j \in Jobs,
               \/ FetchPositions(j) \/ SyncSynthetic(j) \/ FetchFails(j)
               \/ RecordSync(j) \/ RecordRetry(j) \/ SaveFails(j)
        PROVE  file' = file
    BY <2>4 DEF FetchPositions, SyncSynthetic, FetchFails, RecordSync,
                RecordRetry, SaveFails
  <2>5. QED
    BY <2>1, <2>2, <2>3, <2>4 DEF Next, OnLoop, Busy
<1>3. QED
  BY <1>1, <1>2, NotesStep, TypeCorrect, PTL DEF Spec, NotesSurviveSyncs

------------------------------------------------------------------------------
(* The alerts of the positions: what a pass of the monitor may do, proved    *)
(* for any number of tickers, ids, threads, hours, failed saves and damages  *)
(* of the file.                                                              *)
(*                                                                           *)
(* The properties speak of the step in which a pass ends.  What is inductive *)
(* is how the copy of a pass that runs alone differs from the file: by one   *)
(* new, active alert of the monitor for each ticker that was judged in need, *)
(* and by nothing for the tickers the file silenced.                         *)

\* An idle thread is a thread.
LEMMA IdleType == Free \in Thread /\ [i \in Ids |-> NoAlert] \in Table
BY AlertsAssumption DEF Free, Thread, Table, Time, AlertsAssumption

\* What an idle thread holds.
LEMMA IdleFields ==
  /\ Free.pc = "idle" /\ Free.steady = {} /\ ~Free.pass
BY DEF Free

\* An alert made within the bound is an alert.
LEMMA NewAlertType ==
  ASSUME AlertsTypeOK, NEW k \in Tickers, NEW mon \in BOOLEAN
  PROVE  /\ NewAlert(k, mon) \in Alert
         /\ \A table \in Table, i \in Ids :
              [table EXCEPT ![i] = NewAlert(k, mon)] \in Table
<1>1. NewAlert(k, mon) \in Alert
  BY DEF NewAlert, Alert, AlertsTypeOK
<1>2. QED
  BY <1>1 DEF Table

\* A thread with a changed copy is a thread.
LEMMA ReadyType ==
  ASSUME AlertsTypeOK, NEW t \in Threads, NEW table \in Table, Ready(t, table)
  PROVE  th' \in [Threads -> Thread]
<1>1. [Free EXCEPT !.pc = "saving", !.copy = table, !.read = TRUE] \in Thread
  BY IdleType DEF Thread
<1>2. QED
  BY <1>1 DEF Ready, AlertsTypeOK

\* The bookkeeping of a request that begins.
LEMMA BeginsType ==
  ASSUME AlertsTypeOK, NEW t \in Threads, Begins(t)
  PROVE  /\ requests' \in 0 .. MaxRequests /\ overlap' \in BOOLEAN
         /\ alerts' \in Table /\ damaged' \in BOOLEAN /\ need' \subseteq Tickers
         /\ now' \in Time /\ faults' \in 0 .. MaxFaults
BY AlertsAssumption DEF AlertsTypeOK, Begins, AlertsAssumption

\* Thread t after it has judged k: with an alert under id i, or without.
Made(t, k, i) ==
  [th[t] EXCEPT !.left = @ \ {k}, !.made = TRUE,
                !.copy = [th[t].copy EXCEPT ![i] = NewAlert(k, TRUE)]]
Passed(t, k) == [th[t] EXCEPT !.left = @ \ {k}]

\* What judging a ticker does, and that it keeps a thread a thread.
LEMMA JudgeShape ==
  ASSUME AlertsTypeOK, NEW t \in Threads, Judge(t)
  PROVE  /\ \E k \in th[t].left :
              \/ k \in need /\ \E i \in Fresh : th'[t] = Made(t, k, i)
              \/ k \notin need /\ th'[t] = Passed(t, k)
         /\ th'[t] \in Thread /\ th' = [th EXCEPT ![t] = th'[t]]
         /\ th'[t].pc = "judging" /\ th'[t].pass = th[t].pass
         /\ th'[t].read = th[t].read /\ th'[t].since = th[t].since
         /\ th'[t].steady = th[t].steady
<1>1. PICK k \in th[t].left :
        \/ /\ k \in need
           /\ \E i \in Fresh : th' = [th EXCEPT ![t] = Made(t, k, i)]
        \/ k \notin need /\ th' = [th EXCEPT ![t] = Passed(t, k)]
  BY DEF Judge, Made, Passed
<1>2. th[t] \in Thread /\ k \in Tickers /\ th[t].pc = "judging"
  BY DEF AlertsTypeOK, Thread, Judge
<1>3. CASE k \in need /\ \E i \in Fresh : th' = [th EXCEPT ![t] = Made(t, k, i)]
  <2>1. PICK i \in Fresh : th' = [th EXCEPT ![t] = Made(t, k, i)]
    BY <1>3
  <2>2. [th[t].copy EXCEPT ![i] = NewAlert(k, TRUE)] \in Table
    BY <1>2, NewAlertType DEF Thread, Fresh
  <2>3. th'[t] = Made(t, k, i)
    BY <2>1 DEF AlertsTypeOK
  <2>4. /\ Made(t, k, i) \in Thread
        /\ Made(t, k, i).pc = "judging" /\ Made(t, k, i).pass = th[t].pass
        /\ Made(t, k, i).read = th[t].read /\ Made(t, k, i).since = th[t].since
        /\ Made(t, k, i).steady = th[t].steady
    BY <1>2, <2>2 DEF Thread, Made
  <2>5. QED
    BY <1>3, <2>1, <2>3, <2>4
<1>4. CASE k \notin need /\ th' = [th EXCEPT ![t] = Passed(t, k)]
  <2>1. th'[t] = Passed(t, k)
    BY <1>4 DEF AlertsTypeOK
  <2>2. /\ Passed(t, k) \in Thread
        /\ Passed(t, k).pc = "judging" /\ Passed(t, k).pass = th[t].pass
        /\ Passed(t, k).read = th[t].read /\ Passed(t, k).since = th[t].since
        /\ Passed(t, k).steady = th[t].steady
    BY <1>2 DEF Thread, Passed
  <2>3. QED
    BY <1>4, <2>1, <2>2
<1>5. QED
  BY <1>1, <1>3, <1>4

\* The state stays well typed.
LEMMA TypeStep == AlertsTypeOK /\ [AlertsNext]_alertVars => AlertsTypeOK'
<1> SUFFICES ASSUME AlertsTypeOK, [AlertsNext]_alertVars
             PROVE  AlertsTypeOK'
  OBVIOUS
<1> USE AlertsAssumption DEF AlertsAssumption
<1>1. ASSUME NEW t \in Threads, Create(t)
      PROVE  AlertsTypeOK'
  <2>1. PICK i \in Fresh, k \in Tickers, mon \in BOOLEAN :
          Ready(t, [alerts EXCEPT ![i] = NewAlert(k, mon)])
    BY <1>1 DEF Create
  <2>2. [alerts EXCEPT ![i] = NewAlert(k, mon)] \in Table
    BY NewAlertType DEF AlertsTypeOK, Fresh
  <2>3. th' \in [Threads -> Thread]
    BY <2>1, <2>2, ReadyType
  <2>4. QED
    BY <1>1, <2>3, BeginsType DEF Create, AlertsTypeOK
<1>2. ASSUME NEW t \in Threads, Update(t)
      PROVE  AlertsTypeOK'
  <2>1. PICK i \in There(alerts), snooze \in BOOLEAN :
          Ready(t, [alerts EXCEPT ![i].snoozed = snooze,
                                  ![i].snoozedAt = IF snooze THEN now ELSE @])
    BY <1>2 DEF Update
  <2>2. i \in Ids /\ alerts[i] \in Alert
    BY DEF There, AlertsTypeOK, Table
  <2>3. [alerts EXCEPT ![i].snoozed = snooze,
                       ![i].snoozedAt = IF snooze THEN now ELSE @] \in Table
    BY <2>2 DEF AlertsTypeOK, Table, Alert
  <2>4. th' \in [Threads -> Thread]
    BY <2>1, <2>3, ReadyType
  <2>5. QED
    BY <1>2, <2>4, BeginsType DEF Update, AlertsTypeOK
<1>3. ASSUME NEW t \in Threads, Delete(t)
      PROVE  AlertsTypeOK'
  <2>1. PICK i \in There(alerts) : Ready(t, [alerts EXCEPT ![i] = NoAlert])
    BY <1>3 DEF Delete
  <2>2. [alerts EXCEPT ![i] = NoAlert] \in Table
    BY DEF AlertsTypeOK, Table
  <2>3. th' \in [Threads -> Thread]
    BY <2>1, <2>2, ReadyType
  <2>4. QED
    BY <1>3, <2>3, BeginsType DEF Delete, AlertsTypeOK
<1>4. ASSUME NEW t \in Threads, PassBegins(t)
      PROVE  AlertsTypeOK'
  <2>1. th' \in [Threads -> Thread]
    BY <1>4, IdleType DEF PassBegins, AlertsTypeOK, Thread
  <2>2. QED
    BY <1>4, <2>1, BeginsType DEF PassBegins, AlertsTypeOK
<1>5. ASSUME NEW t \in Threads, Judge(t)
      PROVE  AlertsTypeOK'
  <2>1. th' \in [Threads -> Thread]
    BY <1>5, JudgeShape DEF AlertsTypeOK
  <2>2. QED
    BY <1>5, <2>1 DEF Judge, AlertsTypeOK
<1>6. ASSUME NEW t \in Threads, Judged(t)
      PROVE  AlertsTypeOK'
  <2>1. th' \in [Threads -> Thread]
    BY <1>6, IdleType DEF Judged, AlertsTypeOK, Thread
  <2>2. QED
    BY <1>6, <2>1 DEF Judged, AlertsTypeOK
<1>7. ASSUME NEW t \in Threads, Save(t)
      PROVE  AlertsTypeOK'
  BY <1>7, IdleType DEF Save, AlertsTypeOK, Thread
<1>8. ASSUME NEW t \in Threads, AlertsSaveFails(t)
      PROVE  AlertsTypeOK'
  BY <1>8, IdleType DEF AlertsSaveFails, AlertsTypeOK
<1>9. CASE Tick
  BY <1>9 DEF Tick, AlertsTypeOK, Time
<1>10. CASE Drift
  <2>1. need' \subseteq Tickers
    BY <1>10 DEF Drift, AlertsTypeOK
  <2>2. th' \in [Threads -> Thread]
    <3>1. \A t \in Threads : [th[t] EXCEPT !.steady = @ \intersect need'] \in Thread
      BY DEF AlertsTypeOK, Thread
    <3>2. QED
      BY <1>10, <3>1 DEF Drift
  <2>3. QED
    BY <1>10, <2>1, <2>2 DEF Drift, AlertsTypeOK
<1>11. CASE Damage
  BY <1>11 DEF Damage, AlertsTypeOK
<1>12. CASE Repair
  BY <1>12 DEF Repair, AlertsTypeOK
<1>13. CASE UNCHANGED alertVars
  BY <1>13 DEF alertVars, AlertsTypeOK
<1>14. QED
  BY <1>1, <1>2, <1>3, <1>4, <1>5, <1>6, <1>7, <1>8, <1>9, <1>10, <1>11,
     <1>12, <1>13 DEF AlertsNext, Requests

\* The first state is well typed.
LEMMA TypeInit == AlertsInit => AlertsTypeOK
<1> SUFFICES ASSUME AlertsInit
             PROVE  AlertsTypeOK
  OBVIOUS
<1>1. alerts \in Table
  <2>1. [i \in Ids |-> NoAlert] \in Table
    BY IdleType
  <2>2. ASSUME NEW i \in Ids, NEW k \in Tickers, NEW mon \in BOOLEAN,
               NEW s \in BOOLEAN
        PROVE  [j \in Ids |-> IF j = i THEN [NewAlert(k, mon) EXCEPT !.snoozed = s]
                              ELSE NoAlert] \in Table
    <3>1. [NewAlert(k, mon) EXCEPT !.snoozed = s] \in Alert
      BY AlertsAssumption DEF AlertsInit, NewAlert, Alert, Time, AlertsAssumption
    <3>2. QED
      BY <3>1 DEF Table
  <2>3. \/ alerts = [i \in Ids |-> NoAlert]
        \/ \E i \in Ids, k \in Tickers, mon \in BOOLEAN, s \in BOOLEAN :
             alerts = [j \in Ids |-> IF j = i
                                    THEN [NewAlert(k, mon) EXCEPT !.snoozed = s]
                                    ELSE NoAlert]
    BY DEF AlertsInit
  <2>4. QED
    BY <2>1, <2>2, <2>3
<1>2. now \in Time /\ requests \in 0 .. MaxRequests /\ faults \in 0 .. MaxFaults
  BY AlertsAssumption DEF AlertsInit, Time, AlertsAssumption
<1>3. th \in [Threads -> Thread]
  BY IdleType DEF AlertsInit
<1>4. QED
  BY <1>1, <1>2, <1>3 DEF AlertsInit, AlertsTypeOK

\* The file, the clock and the threads stay well typed, for every instance.
THEOREM AlertTypeCorrect == AlertsSpec => []AlertsTypeOK
BY TypeInit, TypeStep, PTL DEF AlertsSpec

------------------------------------------------------------------------------
(* The copy of a pass that runs alone.                                     *)

AlertBusy(t) == th[t].pc # "idle"

\* Requests that have not overlapped are one at a time.
OneAtATime ==
  ~overlap => \A t, u \in Threads : AlertBusy(t) /\ AlertBusy(u) => t = u

\* A thread between requests keeps nothing, one that saves has read the file,
\* a pass saves when it has judged all, and knows who is in need.
Discipline ==
  \A t \in Threads :
    /\ ~AlertBusy(t) => th[t] = Free
    /\ th[t].pc = "saving" => th[t].read /\ th[t].left = {}
    /\ th[t].pc = "judging" => th[t].pass
    /\ th[t].steady \subseteq need

\* The ids a copy adds to the file, if it only adds.
New(t) == {i \in Ids : th[t].copy[i] # alerts[i]}
Quiet(t) == Silenced(alerts, th[t].since)

\* The copy of a pass adds one active alert of the monitor for each ticker
\* judged in need, and none for the tickers the file silences.
CopyOf(t) ==
  /\ th[t].since <= now
  /\ \A i \in New(t) :
       /\ alerts[i] = NoAlert
       /\ th[t].copy[i].monitor /\ ~th[t].copy[i].snoozed
       /\ th[t].copy[i].ticker \notin th[t].left \union Quiet(t)
  /\ \A i, j \in New(t) : th[t].copy[i].ticker = th[t].copy[j].ticker => i = j
  /\ \A k \in th[t].steady :
       \/ k \in th[t].left \union Quiet(t)
       \/ \E i \in New(t) : th[t].copy[i].ticker = k
  /\ th[t].left \intersect Quiet(t) = {}
  /\ ~th[t].made => New(t) = {}

PassAlone(t) ==
  ~overlap /\ AlertBusy(t) /\ th[t].pass /\ th[t].read => CopyOf(t)

PassInv == \A t \in Threads : PassAlone(t)

AlertIInv == AlertsTypeOK /\ OneAtATime /\ Discipline /\ PassInv

\* A pass that a step of another thread leaves alone.
LEMMA Kept ==
  ASSUME AlertsTypeOK, NEW u \in Threads, PassAlone(u), th'[u] = th[u],
         alerts' = alerts, now' \in Time, now' >= now, overlap => overlap'
  PROVE  PassAlone(u)'
BY DEF PassAlone, CopyOf, AlertBusy, New, Quiet, AlertsTypeOK, Time, Thread

\* Requests that begin when none is under way do not overlap.
LEMMA OneAtATimeStep ==
  ASSUME AlertIInv, [AlertsNext]_alertVars
  PROVE  OneAtATime'
<1> USE DEF AlertIInv, OneAtATime, AlertBusy
<1>1. ASSUME NEW t \in Threads, Begins(t),
             \A u \in Threads \ {t} : th'[u] = th[u]
      PROVE  OneAtATime'
  <2> SUFFICES ASSUME ~overlap', NEW u \in Threads, th'[u].pc # "idle"
               PROVE  u = t
    OBVIOUS
  <2>1. \A v \in Threads \ {t} : th[v].pc = "idle"
    BY <1>1 DEF Begins
  <2>2. QED
    BY <1>1, <2>1
<1>2. ASSUME NEW t \in Threads, NEW x, th' = [th EXCEPT ![t] = x], AlertBusy(t),
             overlap' = overlap
      PROVE  OneAtATime'
  BY <1>2 DEF AlertsTypeOK
<1>3. ASSUME NEW t \in Threads, Requests(t)
      PROVE  OneAtATime'
  <2>1. CASE Create(t) \/ Update(t) \/ Delete(t) \/ PassBegins(t)
    BY <1>1, <2>1 DEF Create, Update, Delete, PassBegins, Ready, AlertsTypeOK
  <2>2. CASE Judge(t)
    <3>1. th'[t].pc = th[t].pc /\ th' = [th EXCEPT ![t] = th'[t]]
      BY <2>2, JudgeShape DEF Judge
    <3>a. \A u \in Threads : th'[u].pc = th[u].pc
      BY <3>1 DEF AlertsTypeOK
    <3>2. QED
      BY <2>2, <3>a DEF Judge
  <2>3. CASE Judged(t)
    BY <1>2, <2>3 DEF Judged
  <2>4. CASE Save(t) \/ AlertsSaveFails(t)
    BY <1>2, <2>4 DEF Save, AlertsSaveFails
  <2>5. QED
    BY <1>3, <2>1, <2>2, <2>3, <2>4 DEF Requests
<1>4. CASE Drift
  <2>1. \A u \in Threads : th'[u].pc = th[u].pc
    BY <1>4 DEF Drift, AlertsTypeOK, Thread
  <2>2. UNCHANGED overlap
    BY <1>4 DEF Drift
  <2>3. QED
    BY <2>1, <2>2
<1>5. CASE Tick \/ Damage \/ Repair \/ UNCHANGED alertVars
  BY <1>5 DEF Tick, Damage, Repair, alertVars
<1>6. QED
  BY <1>3, <1>4, <1>5 DEF AlertsNext

\* Threads keep their discipline.
LEMMA DisciplineStep ==
  ASSUME AlertIInv, [AlertsNext]_alertVars
  PROVE  Discipline'
<1> USE DEF AlertIInv, Discipline, AlertBusy
<1>1. ASSUME NEW t \in Threads, NEW table, Ready(t, table), UNCHANGED need
      PROVE  Discipline'
  BY <1>1 DEF Ready, AlertsTypeOK, Free
<1>2. ASSUME NEW t \in Threads, Requests(t)
      PROVE  Discipline'
  <2>1. CASE Create(t) \/ Update(t) \/ Delete(t)
    BY <1>1, <2>1 DEF Create, Update, Delete, Begins
  <2>2. CASE PassBegins(t)
    <3>1. \A u \in Threads \ {t} : th'[u] = th[u]
      BY <2>2 DEF PassBegins, AlertsTypeOK
    <3>2. /\ th'[t].pc = "judging" /\ th'[t].pass
          /\ th'[t].steady = need /\ need' = need
      BY <2>2 DEF PassBegins, Begins, AlertsTypeOK, Free
    <3>3. QED
      BY <3>1, <3>2
  <2>3. CASE Judge(t)
    <3>1. \A u \in Threads \ {t} : th'[u] = th[u]
      BY <2>3, JudgeShape DEF AlertsTypeOK
    <3>2. /\ th'[t].pc = "judging" /\ th'[t].pass
          /\ th'[t].steady = th[t].steady
      BY <2>3, JudgeShape DEF Judge
    <3>3. QED
      BY <2>3, <3>1, <3>2 DEF Judge
  <2>4. CASE Judged(t)
    <3>1. \/ th' = [th EXCEPT ![t] = Free]
          \/ /\ th' = [th EXCEPT ![t] = [th[t] EXCEPT !.pc = "saving"]]
             /\ th[t].read /\ th[t].left = {}
      BY <2>4 DEF Judged, AlertsTypeOK
    <3>2. th[t] \in Thread
      BY DEF AlertsTypeOK
    <3>3. QED
      BY <2>4, <3>1, <3>2, IdleFields DEF Judged, AlertsTypeOK, Thread
  <2>5. CASE Save(t) \/ AlertsSaveFails(t)
    BY <2>5, IdleFields DEF Save, AlertsSaveFails, AlertsTypeOK
  <2>6. QED
    BY <1>2, <2>1, <2>2, <2>3, <2>4, <2>5 DEF Requests
<1>3. CASE Drift
  <2> SUFFICES ASSUME NEW t \in Threads
               PROVE  /\ th'[t].pc = "idle" => th'[t] = Free
                      /\ th'[t].pc = "saving" => th'[t].read /\ th'[t].left = {}
                      /\ th'[t].pc = "judging" => th'[t].pass
                      /\ th'[t].steady \subseteq need'
    OBVIOUS
  <2>1. th[t] \in Thread /\ th'[t] = [th[t] EXCEPT !.steady = @ \intersect need']
    BY <1>3 DEF Drift, AlertsTypeOK
  <2>2. th[t] = Free => th'[t] = Free
    <3>1. Free.steady \intersect need' = {}
      BY IdleFields
    <3>2. [Free EXCEPT !.steady = Free.steady] = Free
      BY IdleType DEF Thread
    <3>3. QED
      BY <2>1, <3>1, <3>2, IdleFields
  <2>3. QED
    BY <2>1, <2>2 DEF Thread
<1>4. CASE Tick \/ Damage \/ Repair \/ UNCHANGED alertVars
  BY <1>4 DEF Tick, Damage, Repair, alertVars
<1>5. QED
  BY <1>2, <1>3, <1>4 DEF AlertsNext

\* A pass that judges a ticker keeps its copy right.
LEMMA JudgeKeepsCopy ==
  ASSUME AlertsTypeOK, Discipline, NEW t \in Threads, Judge(t), CopyOf(t)
  PROVE  CopyOf(t)'
<1>1. /\ alerts' = alerts /\ now' = now
      /\ th'[t].since = th[t].since /\ th'[t].steady = th[t].steady
  BY JudgeShape DEF Judge
<1>2. Quiet(t)' = Quiet(t)
  BY <1>1 DEF Quiet, Silenced, There, Dismissed
<1>3. th[t] \in Thread /\ th[t].copy \in Table /\ alerts \in Table
  BY DEF AlertsTypeOK, Thread
<1>4. PICK k \in th[t].left :
        \/ k \in need /\ \E i \in Fresh : th'[t] = Made(t, k, i)
        \/ k \notin need /\ th'[t] = Passed(t, k)
  BY JudgeShape
<1>5. CASE k \in need /\ \E i \in Fresh : th'[t] = Made(t, k, i)
  <2>1. PICK i \in Fresh : th'[t] = Made(t, k, i)
    BY <1>5
  <2>2. i \in Ids /\ alerts[i] = NoAlert /\ th[t].copy[i] = NoAlert
    BY DEF Fresh
  <2>3. /\ NewAlert(k, TRUE) # NoAlert
        /\ NewAlert(k, TRUE).monitor /\ ~NewAlert(k, TRUE).snoozed
        /\ NewAlert(k, TRUE).ticker = k
    <3>1. NewAlert(k, TRUE) \in Alert
      BY <1>3, NewAlertType DEF Thread
    <3>2. QED
      BY <3>1, AlertsAssumption DEF AlertsAssumption, NewAlert
  <2>4. /\ th'[t].copy = [th[t].copy EXCEPT ![i] = NewAlert(k, TRUE)]
        /\ th'[t].left = th[t].left \ {k} /\ th'[t].made
    BY <1>3, <2>1 DEF Made, Thread
  <2>5. /\ th'[t].copy[i] = NewAlert(k, TRUE)
        /\ \A j \in Ids \ {i} : th'[t].copy[j] = th[t].copy[j]
    BY <1>3, <2>2, <2>4 DEF Table
  <2>6. New(t)' = New(t) \union {i} /\ i \notin New(t)
    BY <1>1, <2>2, <2>3, <2>5 DEF New
  <2>7. k \notin Quiet(t) /\ \A j \in New(t) : th[t].copy[j].ticker # k
    BY DEF CopyOf
  <2>a. \A j \in New(t) : th'[t].copy[j] = th[t].copy[j] /\ alerts'[j] = NoAlert
    BY <1>1, <2>5, <2>6 DEF New, CopyOf
  <2>8. \A j \in New(t)' :
          /\ alerts'[j] = NoAlert
          /\ th'[t].copy[j].monitor /\ ~th'[t].copy[j].snoozed
          /\ th'[t].copy[j].ticker \notin th'[t].left \union Quiet(t)'
    <3> SUFFICES ASSUME NEW j \in New(t)'
                 PROVE  /\ alerts'[j] = NoAlert
                        /\ th'[t].copy[j].monitor /\ ~th'[t].copy[j].snoozed
                        /\ th'[t].copy[j].ticker
                             \notin th'[t].left \union Quiet(t)'
      OBVIOUS
    <3>1. CASE j = i
      <4>1. /\ alerts'[i] = NoAlert /\ th'[t].copy[i].ticker = k
            /\ th'[t].copy[i].monitor /\ ~th'[t].copy[i].snoozed
        BY <1>1, <2>2, <2>3, <2>5
      <4>2. k \notin th'[t].left \union Quiet(t)'
        BY <1>2, <2>4, <2>7
      <4>3. QED
        BY <3>1, <4>1, <4>2
    <3>2. CASE j \in New(t)
      <4>1. /\ th[t].copy[j].monitor /\ ~th[t].copy[j].snoozed
            /\ th[t].copy[j].ticker \notin th[t].left \union Quiet(t)
        BY <3>2 DEF CopyOf
      <4>2. QED
        BY <3>2, <4>1, <1>2, <2>4, <2>a
    <3>3. QED
      BY <3>1, <3>2, <2>6
  <2>9. \A j, l \in New(t)' : th'[t].copy[j].ticker = th'[t].copy[l].ticker => j = l
    <3> SUFFICES ASSUME NEW j \in New(t)', NEW l \in New(t)',
                        th'[t].copy[j].ticker = th'[t].copy[l].ticker
                 PROVE  j = l
      OBVIOUS
    <3>1. CASE j \in New(t) /\ l \in New(t)
      BY <3>1, <2>a DEF CopyOf
    <3>2. CASE j = i \/ l = i
      <4>1. \A m \in New(t) : th'[t].copy[m].ticker # th'[t].copy[i].ticker
        BY <2>3, <2>5, <2>7, <2>a
      <4>2. QED
        BY <2>6, <3>2, <4>1
    <3>3. QED
      BY <3>1, <3>2, <2>6
  <2>10. \A m \in th'[t].steady :
           \/ m \in th'[t].left \union Quiet(t)'
           \/ \E j \in New(t)' : th'[t].copy[j].ticker = m
    <3> SUFFICES ASSUME NEW m \in th[t].steady
                 PROVE  \/ m \in th'[t].left \union Quiet(t)'
                        \/ \E j \in New(t)' : th'[t].copy[j].ticker = m
      BY <1>1
    <3>1. CASE m = k
      BY <3>1, <2>3, <2>5, <2>6
    <3>2. CASE m # k /\ m \in th[t].left \union Quiet(t)
      BY <3>2, <1>2, <2>4
    <3>3. CASE \E j \in New(t) : th[t].copy[j].ticker = m
      BY <3>3, <2>6, <2>a
    <3>4. QED
      BY <3>1, <3>2, <3>3 DEF CopyOf
  <2>11. /\ th'[t].since <= now'
         /\ th'[t].left \intersect Quiet(t)' = {}
    BY <1>1, <1>2, <2>4 DEF CopyOf
  <2>12. QED
    BY <2>4, <2>8, <2>9, <2>10, <2>11 DEF CopyOf
<1>6. CASE k \notin need /\ th'[t] = Passed(t, k)
  <2>1. /\ th'[t].copy = th[t].copy /\ th'[t].made = th[t].made
        /\ th'[t].left = th[t].left \ {k}
    BY <1>3, <1>6 DEF Passed, Thread
  <2>2. New(t)' = New(t)
    BY <1>1, <2>1 DEF New
  <2>3. k \notin th[t].steady
    BY <1>6 DEF Discipline
  <2>4. QED
    BY <1>1, <1>2, <2>1, <2>2, <2>3 DEF CopyOf
<1>7. QED
  BY <1>4, <1>5, <1>6

\* A pass begins with a copy that is the file.
LEMMA PassBeginsCopy ==
  ASSUME AlertsTypeOK, NEW t \in Threads, PassBegins(t), th'[t].read
  PROVE  CopyOf(t)'
<1>1. /\ alerts' = alerts /\ now' = now /\ th'[t].copy = alerts
      /\ th'[t].since = now /\ th'[t].steady = need
      /\ th'[t].left = Tickers \ Silenced(alerts, now)
  BY DEF PassBegins, Begins, AlertsTypeOK, Free
<1>2. New(t)' = {}
  BY <1>1 DEF New
<1>3. Quiet(t)' = Silenced(alerts, now)
  BY <1>1 DEF Quiet, Silenced, There, Dismissed
<1>4. need \subseteq Tickers /\ now \in Nat
  BY DEF AlertsTypeOK, Time
<1>5. QED
  BY <1>1, <1>2, <1>3, <1>4 DEF CopyOf

\* The copies of lonely passes stay right.
LEMMA PassStep ==
  ASSUME AlertIInv, [AlertsNext]_alertVars, AlertsTypeOK'
  PROVE  PassInv'
<1> SUFFICES ASSUME NEW u \in Threads
             PROVE  PassAlone(u)'
  BY DEF PassInv
<1>a. PassAlone(u) /\ AlertsTypeOK /\ Discipline /\ OneAtATime
  BY DEF AlertIInv, PassInv
<1>b. now' \in Time /\ now \in Time
  BY <1>a DEF AlertsTypeOK
<1>c. now >= now
  BY <1>b, AlertsAssumption DEF Time, AlertsAssumption
<1>1. ASSUME th'[u] = th[u], alerts' = alerts, now' >= now, overlap => overlap'
      PROVE  PassAlone(u)'
  BY <1>1, <1>a, <1>b, Kept
<1>2. ASSUME th'[u] = Free
      PROVE  PassAlone(u)'
  BY <1>2, IdleFields DEF PassAlone, AlertBusy
<1>3. ASSUME NEW t \in Threads, Create(t) \/ Update(t) \/ Delete(t)
      PROVE  PassAlone(u)'
  <2>1. /\ u # t => th'[u] = th[u]
        /\ ~th'[t].pass
    <3>1. PICK table : Ready(t, table)
      BY <1>3 DEF Create, Update, Delete
    <3>2. QED
      BY <1>a, <3>1 DEF Ready, AlertsTypeOK, Free
  <2>2. CASE u = t
    BY <2>1, <2>2 DEF PassAlone
  <2>3. CASE u # t
    <3>1. Begins(t)
      BY <1>3 DEF Create, Update, Delete
    <3>2. QED
      BY <1>1, <1>c, <2>1, <2>3, <3>1 DEF Begins
  <2>4. QED
    BY <2>2, <2>3
<1>4. ASSUME NEW t \in Threads, PassBegins(t)
      PROVE  PassAlone(u)'
  <2>1. CASE u = t
    BY <1>4, <1>a, <2>1, PassBeginsCopy DEF PassAlone
  <2>2. CASE u # t
    BY <1>1, <1>4, <1>a, <1>b, <2>2 DEF PassBegins, Begins, AlertsTypeOK, Time
  <2>3. QED
    BY <2>1, <2>2
<1>5. ASSUME NEW t \in Threads, Judge(t)
      PROVE  PassAlone(u)'
  <2>1. CASE u = t
    <3>1. /\ th[t].pc = "judging" /\ th'[t].read = th[t].read
          /\ th'[t].pass = th[t].pass /\ overlap' = overlap
      BY <1>5, <1>a, JudgeShape DEF Judge
    <3>2. QED
      BY <1>5, <1>a, <2>1, <3>1, JudgeKeepsCopy DEF PassAlone, AlertBusy
  <2>2. CASE u # t
    <3>1. th'[u] = th[u]
      BY <1>5, <1>a, <2>2, JudgeShape DEF AlertsTypeOK
    <3>2. QED
      BY <1>1, <1>5, <1>c, <3>1 DEF Judge
  <2>3. QED
    BY <2>1, <2>2
<1>6. ASSUME NEW t \in Threads, Judged(t)
      PROVE  PassAlone(u)'
  <2>1. CASE u = t
    <3>1. \/ th'[t] = Free
          \/ th'[t] = [th[t] EXCEPT !.pc = "saving"]
      BY <1>6, <1>a DEF Judged, AlertsTypeOK
    <3>2. th[t] \in Thread /\ th[t].pc = "judging"
      BY <1>6, <1>a DEF Judged, AlertsTypeOK
    <3>3. CASE th'[t] = [th[t] EXCEPT !.pc = "saving"]
      <4>1. /\ th'[t].copy = th[t].copy /\ th'[t].since = th[t].since
            /\ th'[t].left = th[t].left /\ th'[t].steady = th[t].steady
            /\ th'[t].made = th[t].made /\ th'[t].pass = th[t].pass
            /\ th'[t].read = th[t].read
        BY <3>2, <3>3 DEF Thread
      <4>2. alerts' = alerts /\ now' = now /\ overlap' = overlap
        BY <1>6 DEF Judged
      <4>3. New(t)' = New(t) /\ Quiet(t)' = Quiet(t)
        BY <4>1, <4>2 DEF New, Quiet, Silenced, There, Dismissed
      <4>4. QED
        BY <1>a, <2>1, <3>2, <4>1, <4>2, <4>3 DEF PassAlone, CopyOf, AlertBusy
    <3>4. QED
      BY <1>2, <2>1, <3>1, <3>3
  <2>2. CASE u # t
    BY <1>1, <1>6, <1>a, <1>b, <2>2 DEF Judged, AlertsTypeOK, Time
  <2>3. QED
    BY <2>1, <2>2
<1>7. ASSUME NEW t \in Threads, Save(t) \/ AlertsSaveFails(t)
      PROVE  PassAlone(u)'
  <2>1. CASE u = t
    BY <1>2, <1>7, <1>a, <2>1 DEF Save, AlertsSaveFails, AlertsTypeOK
  <2>2. CASE u # t
    <3>1. AlertBusy(t) /\ overlap' = overlap /\ th'[u] = th[u]
      BY <1>7, <1>a, <2>2 DEF Save, AlertsSaveFails, AlertBusy, AlertsTypeOK
    <3>2. QED
      BY <1>a, <2>2, <3>1 DEF OneAtATime, PassAlone, AlertBusy
  <2>3. QED
    BY <2>1, <2>2
<1>8. CASE Drift
  <2>1. th[u] \in Thread /\ th'[u] = [th[u] EXCEPT !.steady = @ \intersect need']
    BY <1>8, <1>a DEF Drift, AlertsTypeOK
  <2>2. /\ th'[u].copy = th[u].copy /\ th'[u].since = th[u].since
        /\ th'[u].left = th[u].left /\ th'[u].steady \subseteq th[u].steady
        /\ th'[u].made = th[u].made /\ th'[u].pass = th[u].pass
        /\ th'[u].read = th[u].read /\ th'[u].pc = th[u].pc
    BY <2>1 DEF Thread
  <2>3. alerts' = alerts /\ now' = now /\ overlap' = overlap
    BY <1>8 DEF Drift
  <2>4. New(u)' = New(u) /\ Quiet(u)' = Quiet(u)
    BY <2>2, <2>3 DEF New, Quiet, Silenced, There, Dismissed
  <2>5. QED
    BY <1>a, <2>2, <2>3, <2>4 DEF PassAlone, CopyOf, AlertBusy
<1>9. CASE Tick
  BY <1>1, <1>9, <1>b DEF Tick, Time
<1>10. CASE Damage \/ Repair \/ UNCHANGED alertVars
  BY <1>1, <1>10, <1>b DEF Damage, Repair, alertVars, Time
<1>11. QED
  BY <1>3, <1>4, <1>5, <1>6, <1>7, <1>8, <1>9, <1>10 DEF AlertsNext, Requests

\* The invariant holds.
LEMMA AlertInductive == AlertsSpec => []AlertIInv
<1>1. AlertsInit => AlertIInv
  <2> SUFFICES ASSUME AlertsInit
               PROVE  AlertIInv
    OBVIOUS
  <2>1. \A t \in Threads : th[t] = Free
    BY DEF AlertsInit
  <2>2. QED
    BY <2>1, TypeInit, IdleFields
       DEF AlertsInit, AlertIInv, OneAtATime, Discipline, PassInv, PassAlone, AlertBusy
<1>2. AlertIInv /\ [AlertsNext]_alertVars => AlertIInv'
  BY TypeStep, OneAtATimeStep, DisciplineStep, PassStep DEF AlertIInv
<1>3. QED
  BY <1>1, <1>2, PTL DEF AlertsSpec

------------------------------------------------------------------------------
(* What a pass leaves behind.                                              *)

\* The steps in which a request ends.
LEMMA Ending ==
  ASSUME AlertIInv, [AlertsNext]_alertVars, NEW t \in Threads, AlertBusy(t), th'[t].pc = "idle"
  PROVE  \/ Save(t)
         \/ AlertsSaveFails(t)
         \/ /\ Judged(t) /\ ~(th[t].made /\ th[t].read)
<1> USE DEF AlertIInv, AlertBusy
<1>1. ASSUME NEW u \in Threads, Requests(u), u # t
      PROVE  FALSE
  <2>1. th'[t] = th[t]
    <3>1. CASE Judge(u)
      BY <1>1, <3>1, JudgeShape DEF AlertsTypeOK
    <3>2. CASE ~Judge(u)
      BY <1>1, <3>2 DEF Requests, Create, Update, Delete, Ready, PassBegins,
         Judged, Save, AlertsSaveFails, AlertsTypeOK
    <3>3. QED
      BY <3>1, <3>2
  <2>2. QED
    BY <2>1
<1>2. ASSUME Requests(t)
      PROVE  \/ Save(t) \/ AlertsSaveFails(t)
             \/ Judged(t) /\ ~(th[t].made /\ th[t].read)
  <2>1. ~Judge(t)
    BY JudgeShape
  <2>2. Judged(t) => ~(th[t].made /\ th[t].read)
    <3> SUFFICES ASSUME Judged(t), th[t].made, th[t].read
                 PROVE  FALSE
      OBVIOUS
    <3>1. th'[t] = [th[t] EXCEPT !.pc = "saving"] /\ th[t] \in Thread
      BY DEF Judged, AlertsTypeOK
    <3>2. QED
      BY <3>1 DEF Thread
  <2>3. ~Begins(t)
    BY DEF Begins
  <2>4. QED
    BY <1>2, <2>1, <2>2, <2>3 DEF Requests, Create, Update, Delete, PassBegins
<1>3. CASE Drift
  <2>1. th'[t].pc = th[t].pc
    BY <1>3 DEF Drift, AlertsTypeOK, Thread
  <2>2. QED
    BY <2>1
<1>4. CASE Tick \/ Damage \/ Repair \/ UNCHANGED alertVars
  BY <1>4 DEF Tick, Damage, Repair, alertVars
<1>5. QED
  BY <1>1, <1>2, <1>3, <1>4 DEF AlertsNext

\* Only a save changes the file.
LEMMA OnlySaves ==
  ASSUME [AlertsNext]_alertVars, alerts' # alerts
  PROVE  \E t \in Threads : Save(t)
BY DEF AlertsNext, Requests, Create, Update, Delete, Begins, PassBegins, Judge, Judged,
   AlertsSaveFails, Tick, Drift, Damage, Repair, alertVars

\* No request that could not read the alerts saves them, however requests
\* interleave: save_alerts is never reached by a pass on a damaged file.
THEOREM NoBlindSave == AlertsSpec => BlindNeverSaves
<1>1. AlertIInv => [\A t \in Threads :
                 th[t].pc = "saving" /\ th'[t].pc = "idle" /\ alerts' # alerts
                 => th[t].read]_alertVars
  BY DEF AlertIInv, Discipline
<1>2. QED
  BY <1>1, AlertInductive, PTL DEF BlindNeverSaves

\* A pass that runs alone adds no alert for a ticker with an active alert of the
\* monitor, or with one snoozed within the cooldown.
THEOREM SilenceKept == AlertsSpec => SilenceHolds
<1>1. AlertIInv /\ [AlertsNext]_alertVars =>
        [~overlap => \A t \in Threads, i, j \in There(alerts') :
           /\ th[t].pass /\ th'[t].pc = "idle"
           /\ alerts[i] = NoAlert /\ j # i /\ alerts'[j].monitor
           /\ alerts'[j].ticker = alerts'[i].ticker
           => /\ alerts'[j].snoozed
              /\ alerts'[j].snoozedAt # Never =>
                   now - alerts'[j].snoozedAt >= Cooldown]_alertVars
  <2> SUFFICES ASSUME AlertIInv, [AlertsNext]_alertVars, ~overlap, NEW t \in Threads,
                      NEW i \in There(alerts'), NEW j \in There(alerts'),
                      th[t].pass, th'[t].pc = "idle",
                      alerts[i] = NoAlert, j # i, alerts'[j].monitor,
                      alerts'[j].ticker = alerts'[i].ticker
               PROVE  /\ alerts'[j].snoozed
                      /\ alerts'[j].snoozedAt # Never =>
                           now - alerts'[j].snoozedAt >= Cooldown
    OBVIOUS
  <2>1. i \in Ids /\ j \in Ids /\ alerts'[i] # NoAlert /\ alerts'[j] # NoAlert
    BY DEF There
  <2>2. PICK u \in Threads : Save(u)
    BY <2>1, OnlySaves
  <2>3. AlertBusy(t) /\ u = t
    BY <2>2, IdleFields DEF AlertIInv, Discipline, OneAtATime, AlertBusy, Save
  <2>4. alerts' = th[t].copy /\ CopyOf(t)
    BY <2>2, <2>3 DEF Save, AlertIInv, PassInv, PassAlone, Discipline
  <2>5. i \in New(t)
    BY <2>1, <2>4 DEF New
  <2>6. j \notin New(t)
    BY <2>4, <2>5 DEF CopyOf
  <2>7. alerts'[j] = alerts[j] /\ j \in There(alerts)
    BY <2>1, <2>4, <2>6 DEF New, There
  <2>8. alerts[j].ticker \notin Silenced(alerts, th[t].since)
    BY <2>4, <2>5, <2>7 DEF CopyOf, Quiet
  <2>9. alerts[j].snoozed /\ ~(th[t].since - Dismissed(alerts[j]) < Cooldown)
    BY <2>7, <2>8 DEF Silenced
  <2>10. /\ th[t].since \in Nat /\ now \in Nat /\ Cooldown \in Nat
         /\ alerts[j].snoozedAt \in Nat \union {Never} /\ th[t].since <= now
    <3>1. th[t] \in Thread /\ alerts[j] \in Alert
      BY <2>1, <2>7 DEF AlertIInv, AlertsTypeOK, Table
    <3>2. QED
      BY <2>4, <3>1, AlertsAssumption
         DEF AlertIInv, AlertsTypeOK, Thread, Alert, Time, CopyOf, AlertsAssumption
  <2>11. QED
    BY <2>7, <2>9, <2>10 DEF Dismissed
<1>2. QED
  BY <1>1, AlertInductive, PTL DEF AlertsSpec, SilenceHolds

\* A pass that runs alone, has read the file and can save it leaves an alert for
\* every ticker that was in need all along, unless it was silenced.
THEOREM NoneMissed == AlertsSpec => NothingMissed
<1>1. AlertIInv /\ [AlertsNext]_alertVars =>
        [\A t \in Threads :
           /\ ~overlap /\ faults = 0
           /\ th[t].pass /\ th[t].read /\ th[t].pc # "idle" /\ th'[t].pc = "idle"
           /\ faults' = 0
           => \A k \in th[t].steady : \E i \in There(alerts') :
                /\ alerts'[i].monitor /\ alerts'[i].ticker = k
                /\ ~alerts'[i].snoozed
                   \/ th[t].since - Dismissed(alerts'[i]) < Cooldown]_alertVars
  <2> SUFFICES ASSUME AlertIInv, [AlertsNext]_alertVars, NEW t \in Threads,
                      ~overlap, faults = 0, th[t].pass, th[t].read,
                      th[t].pc # "idle", th'[t].pc = "idle", faults' = 0,
                      NEW k \in th[t].steady
               PROVE  \E i \in There(alerts') :
                        /\ alerts'[i].monitor /\ alerts'[i].ticker = k
                        /\ ~alerts'[i].snoozed
                           \/ th[t].since - Dismissed(alerts'[i]) < Cooldown
    OBVIOUS
  <2>1. CopyOf(t) /\ AlertBusy(t)
    BY DEF AlertIInv, PassInv, PassAlone, AlertBusy
  <2>2. \/ Save(t)
        \/ Judged(t) /\ ~th[t].made
    BY <2>1, Ending DEF AlertsSaveFails
  <2>3. th[t].left = {}
    BY <2>2 DEF Save, Judged, AlertIInv, Discipline
  <2>4. \/ alerts' = th[t].copy
        \/ alerts' = alerts /\ New(t) = {}
    <3>1. CASE Save(t)
      BY <3>1 DEF Save
    <3>2. CASE Judged(t) /\ ~th[t].made
      <4>1. New(t) = {}
        BY <2>1, <3>2 DEF CopyOf
      <4>2. QED
        BY <3>2, <4>1 DEF Judged
    <3>3. QED
      BY <2>2, <3>1, <3>2
  <2>5. \A i \in Ids : i \notin New(t) => alerts'[i] = alerts[i]
    BY <2>4 DEF New
  <2>6. CASE k \in Quiet(t)
    <3>1. PICK i \in There(alerts) :
            /\ alerts[i].monitor /\ alerts[i].ticker = k
            /\ ~alerts[i].snoozed
               \/ th[t].since - Dismissed(alerts[i]) < Cooldown
      BY <2>6 DEF Quiet, Silenced
    <3>2. i \in Ids /\ i \notin New(t)
      BY <2>1 DEF There, CopyOf
    <3>3. QED
      BY <2>5, <3>1, <3>2 DEF There
  <2>7. CASE \E i \in New(t) : th[t].copy[i].ticker = k
    <3>1. PICK i \in New(t) : th[t].copy[i].ticker = k
      BY <2>7
    <3>2. alerts' = th[t].copy
      BY <2>4, <3>1
    <3>3. i \in There(alerts') /\ alerts'[i].monitor /\ ~alerts'[i].snoozed
      BY <2>1, <3>1, <3>2 DEF CopyOf, New, There
    <3>4. QED
      BY <3>1, <3>2, <3>3
  <2>8. QED
    BY <2>1, <2>3, <2>6, <2>7 DEF CopyOf
<1>2. QED
  BY <1>1, AlertInductive, PTL DEF AlertsSpec, NothingMissed

==============================================================================
