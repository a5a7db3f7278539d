----------------------------- MODULE StoresProofs -----------------------------
(***************************************************************************)
(* Theorems about the stores, for any threads, payloads, tickers, entries  *)
(* and horizons.  Each store is alone in its scope: its invariant speaks   *)
(* of its own variables, a step of MCStores is one of its steps or leaves  *)
(* them unchanged, and its theorem follows.                                *)
(***************************************************************************)
EXTENDS MCStores, Sequences, FiniteSetTheorems, WellFoundedInduction, TLAPS

-----------------------------------------------------------------------------
(* The curated calendars.  The file says what was stored whole last, or says *)
(* nothing and carries no stamp.                                             *)

CuratedInv ==
  file # Torn => file = C!Empty \/ file = [rows |-> posted, stamped |-> TRUE]

LEMMA CuratedStep == CuratedInv /\ [C!Next]_(C!vars) => CuratedInv'
BY DEF CuratedInv, C!Next, C!vars, C!OpenStore, C!FillStore, C!FillFails, C!Crash,
       C!NextDay, C!BookMoves

\* A behaviour of the stores is one of the curated calendars.
LEMMA CuratedOfStores ==
  /\ Init => CuratedInv
  /\ [Next]_vars => [C!Next]_(C!vars)
BY DEF Init, C!Init, CuratedInv, Next, vars, cVars, C!vars

\* A gate on macro events, headlines or ex-dates warns of what the last post
\* that was stored says, or tells that its calendar is stale: no crash, failed
\* dump or overlap of posts silences it.
THEOREM SilenceInformed == Spec => []SilenceIsInformed
<1>1. ASSUME CuratedInv PROVE SilenceIsInformed
  <2>1. CASE file = Torn \/ file = C!Empty
    BY <2>1 DEF SilenceIsInformed, C!SilenceIsInformed, C!Stale, C!Load, C!Empty
  <2>2. CASE file # Torn /\ file = [rows |-> posted, stamped |-> TRUE]
    <3>1. C!Load(file).rows = posted
      BY <2>2 DEF C!Load
    <3> QED BY <3>1 DEF SilenceIsInformed, C!SilenceIsInformed
  <2> QED BY <1>1, <2>1, <2>2 DEF CuratedInv
<1>2. CuratedInv => SilenceIsInformed
  BY <1>1
<1> QED BY <1>2, CuratedStep, CuratedOfStores, PTL DEF Spec

-----------------------------------------------------------------------------
(* The history of volatilities.  What keeps a value is that a call carries   *)
(* the newest ones through the time the file is empty.                       *)

Quiet(t) == ivProc[t].at = Idle
Days == 0 .. IvDays

IvTypes ==
  /\ ivToday \in Days
  /\ kept \subseteq Tickers \X Days
  /\ ivProc \in [Threads -> [at: {Idle, "opening", "filling"},
                             hist: SUBSET (Tickers \X Days \X BOOLEAN),
                             adds: SUBSET (Tickers \X Days)]]
  /\ ivFile = Torn \/ ivFile \subseteq Tickers \X Days \X BOOLEAN

\* A history holds the newest of the values taken, and no other sane value.
Holds(hist, taken) ==
  /\ \A s \in hist : s[3] => <<s[1], s[2]>> \in taken
  /\ \A ticker \in Tickers :
       \A d \in I!Newest(I!DaysOf(taken, ticker)) : <<ticker, d, TRUE>> \in hist

\* One call at a time is at work.
OneCall == \A t, u \in Threads : ~Quiet(t) /\ ~Quiet(u) => t = u

\* The file is empty while that call fills it, and holds the newest values else.
FileInv ==
  /\ (\E t \in Threads : ivProc[t].at = "filling") => ivFile = Torn
  /\ (\A t \in Threads : ivProc[t].at # "filling") => ivFile # Torn /\ Holds(ivFile, kept)

\* The call is about to write the newest values, its own among them.
CallInv ==
  \A t \in Threads : ~Quiet(t) => Holds(ivProc[t].hist, kept \union ivProc[t].adds)

HistoryInv == IvTypes /\ (excuse \/ (OneCall /\ FileInv /\ CallInv))

LEMMA SameCardinality == \A S : I!Cardinality(S) = Cardinality(S)
BY DEF I!Cardinality, Cardinality

\* A day among the newest of a set is among the newest of every part it is in.
LEMMA NewestOfPart ==
  ASSUME NEW A, NEW B \in SUBSET Days, A \subseteq B,
         NEW d \in A, d \in I!Newest(B)
  PROVE  d \in I!Newest(A)
<1> DEFINE later(S) == {e \in S : e > d}
<1>1. IsFiniteSet(later(B)) /\ later(A) \subseteq later(B)
  <2>1. IvDays \in Nat
    BY StoresAssumption DEF I!HistoryAssumption
  <2>2. IsFiniteSet(0 .. IvDays)
    BY <2>1, FS_Interval
  <2> QED BY <2>2, FS_Subset DEF Days
<1> HIDE DEF later
<1>2. /\ Cardinality(later(A)) \in Nat /\ Cardinality(later(B)) \in Nat
      /\ Cardinality(later(A)) <= Cardinality(later(B))
  BY <1>1, FS_Subset, FS_CardinalityType
<1>3. Cardinality(later(B)) < Keep
  BY SameCardinality DEF I!Newest, later
<1>4. Cardinality(later(A)) < Keep
  BY <1>2, <1>3, StoresAssumption DEF I!HistoryAssumption
<1> QED BY <1>4, SameCardinality DEF I!Newest, later

\* A value of a ticker is of one of its days.
LEMMA DayHeld ==
  ASSUME NEW hist, NEW ticker, NEW d, <<ticker, d, TRUE>> \in hist
  PROVE  d \in I!DaysOf(hist, ticker)
<1> PICK s : s = <<ticker, d, TRUE>>
  OBVIOUS
<1>1. s \in hist /\ s[1] = ticker /\ s[2] = d
  OBVIOUS
<1> QED BY <1>1 DEF I!DaysOf

\* A history that holds the newest values holds them with today's value added.
LEMMA SnapshotHolds ==
  ASSUME NEW hist \in SUBSET (Tickers \X Days \X BOOLEAN),
         NEW taken \in SUBSET (Tickers \X Days), Holds(hist, taken),
         NEW ticker \in Tickers, NEW sane \in BOOLEAN, ivToday \in Days
  PROVE  Holds(I!Snapshot(hist, ticker, sane),
               taken \union (IF sane THEN {<<ticker, ivToday>>} ELSE {}))
<1> DEFINE new == IF sane THEN {<<ticker, ivToday>>} ELSE {}
           added == {s \in hist : s[1] = ticker => s[3]}
                      \union (IF sane THEN {<<ticker, ivToday, TRUE>>} ELSE {})
<1>1. I!Snapshot(hist, ticker, sane)
        = {s \in added : s[1] = ticker => s[2] \in I!Newest(I!DaysOf(added, ticker))}
  BY DEF I!Snapshot
<1>2. \A s \in added : s[3] => <<s[1], s[2]>> \in taken \union new
  <2> SUFFICES ASSUME NEW s \in added, s[3]
               PROVE  <<s[1], s[2]>> \in taken \union new
    OBVIOUS
  <2>1. CASE s \in hist
    BY <2>1 DEF Holds
  <2>2. CASE sane /\ s = <<ticker, ivToday, TRUE>>
    BY <2>2
  <2> QED BY <2>1, <2>2
<1>3. I!DaysOf(added, ticker) \subseteq I!DaysOf(taken \union new, ticker)
  <2> SUFFICES ASSUME NEW s \in added, s[1] = ticker
               PROVE  s[2] \in I!DaysOf(taken \union new, ticker)
    BY DEF I!DaysOf
  <2>1. s[3]
    <3>1. CASE s[1] = ticker => s[3]
      BY <3>1
    <3>2. CASE s = <<ticker, ivToday, TRUE>>
      BY <3>2
    <3> QED BY <3>1, <3>2
  <2>2. <<s[1], s[2]>> \in taken \union new
    BY <1>2, <2>1
  <2> QED BY <2>2 DEF I!DaysOf
<1>4. \A t \in Tickers : I!DaysOf(taken \union new, t) \subseteq Days
  BY DEF I!DaysOf
<1>5. ASSUME NEW t \in Tickers, NEW d \in I!Newest(I!DaysOf(taken \union new, t))
      PROVE  <<t, d, TRUE>> \in I!Snapshot(hist, ticker, sane)
  <2>1. d \in I!DaysOf(taken \union new, t)
    BY <1>5 DEF I!Newest
  <2>2. CASE t = ticker /\ sane /\ d = ivToday
    <3>1. <<t, d, TRUE>> \in added
      BY <2>2
    <3>2. d \in I!DaysOf(added, ticker)
      BY <2>2, <3>1, DayHeld
    <3>3. d \in I!Newest(I!DaysOf(added, ticker))
      BY <1>3, <1>4, <1>5, <2>2, <3>2, NewestOfPart
    <3> QED BY <1>1, <2>2, <3>1, <3>3
  <2>3. CASE ~(t = ticker /\ sane /\ d = ivToday)
    <3>1. d \in I!DaysOf(taken, t)
      BY <2>1, <2>3 DEF I!DaysOf
    <3>2. I!DaysOf(taken, t) \subseteq I!DaysOf(taken \union new, t)
      BY DEF I!DaysOf
    <3>3. d \in I!Newest(I!DaysOf(taken, t))
      BY <1>4, <1>5, <3>1, <3>2, NewestOfPart
    <3>4. <<t, d, TRUE>> \in added
      BY <3>3 DEF Holds
    <3>5. CASE t # ticker
      BY <1>1, <3>4, <3>5
    <3>6. CASE t = ticker
      <4>1. d \in I!DaysOf(added, ticker)
        BY <3>4, <3>6, DayHeld
      <4>2. d \in I!Newest(I!DaysOf(added, ticker))
        BY <1>3, <1>4, <1>5, <3>6, <4>1, NewestOfPart
      <4> QED BY <1>1, <3>4, <3>6, <4>2
    <3> QED BY <3>5, <3>6
  <2> QED BY <2>2, <2>3
<1> QED BY <1>1, <1>2, <1>5 DEF Holds

\* The histories that calls write hold the newest values.
LEMMA HistoryStep == HistoryInv /\ [I!Next]_(I!vars) => HistoryInv'
<1> SUFFICES ASSUME HistoryInv, [I!Next]_(I!vars)
             PROVE  HistoryInv'
  OBVIOUS
<1> USE DEF HistoryInv
<1>1. ASSUME NEW t \in Threads, I!GetIvRank(t)
      PROVE  HistoryInv'
  <2>1. PICK ticker \in Tickers, sane \in BOOLEAN :
          ivProc' = [ivProc EXCEPT ![t] =
                       [at |-> "opening",
                        hist |-> I!Snapshot(I!Load, ticker, sane),
                        adds |-> IF sane THEN {<<ticker, ivToday>>} ELSE {}]]
    BY <1>1 DEF I!GetIvRank
  <2>2. /\ ivProc[t].at = Idle
        /\ excuse' = (excuse \/ \E u \in Threads : ~Quiet(u))
        /\ UNCHANGED <<ivFile, ivToday, kept>>
    BY <1>1 DEF I!GetIvRank, Quiet
  <2>3. I!Load \subseteq Tickers \X Days \X BOOLEAN
    BY DEF IvTypes, I!Load
  <2>4. I!Snapshot(I!Load, ticker, sane) \subseteq Tickers \X Days \X BOOLEAN
    <3>1. I!Snapshot(I!Load, ticker, sane) \subseteq I!Load \union {<<ticker, ivToday, TRUE>>}
      BY DEF I!Snapshot
    <3>2. <<ticker, ivToday, TRUE>> \in Tickers \X Days \X BOOLEAN
      BY DEF IvTypes
    <3> QED BY <2>3, <3>1, <3>2
  <2>5. (IF sane THEN {<<ticker, ivToday>>} ELSE {}) \subseteq Tickers \X Days
    BY DEF IvTypes
  <2>6. IvTypes'
    BY <2>1, <2>2, <2>4, <2>5 DEF IvTypes
  <2>7. ASSUME ~excuse'
        PROVE  OneCall' /\ FileInv' /\ CallInv'
    <3>1. ~excuse /\ \A u \in Threads : ivProc[u].at = Idle
      BY <2>2, <2>7 DEF Quiet
    <3>2. /\ ivProc'[t].at = "opening"
          /\ \A u \in Threads : u # t => ivProc'[u] = ivProc[u]
      BY <2>1 DEF IvTypes
    <3>3. OneCall'
      BY <3>1, <3>2 DEF OneCall, Quiet
    <3>4. \A u \in Threads : ivProc[u].at # "filling" /\ ivProc'[u].at # "filling"
      BY <3>1, <3>2, StoresAssumption DEF I!HistoryAssumption
    <3>5. ivFile # Torn /\ Holds(ivFile, kept)
      BY <3>1, <3>4 DEF FileInv
    <3>6. FileInv'
      BY <2>2, <3>4, <3>5 DEF FileInv, Holds
    <3>7. /\ ivProc'[t].hist = I!Snapshot(ivFile, ticker, sane)
          /\ ivProc'[t].adds = IF sane THEN {<<ticker, ivToday>>} ELSE {}
      BY <2>1, <3>5 DEF IvTypes, I!Load
    <3>8. Holds(I!Snapshot(ivFile, ticker, sane),
                kept \union (IF sane THEN {<<ticker, ivToday>>} ELSE {}))
      BY <3>5, SnapshotHolds DEF IvTypes
    <3>9. \A u \in Threads : u # t => Quiet(u)'
      BY <3>1, <3>2 DEF Quiet
    <3>10. Holds(ivProc'[t].hist, kept' \union ivProc'[t].adds)
      BY <2>2, <3>7, <3>8
    <3>11. CallInv'
      BY <3>9, <3>10 DEF CallInv, Holds
    <3> QED BY <3>3, <3>6, <3>11
  <2> QED BY <2>6, <2>7
<1>2. ASSUME NEW t \in Threads, I!OpenHistory(t)
      PROVE  HistoryInv'
  <2>1. /\ ivProc[t].at = "opening" /\ ivFile' = Torn
        /\ ivProc' = [ivProc EXCEPT ![t].at = "filling"]
        /\ UNCHANGED <<ivToday, kept, excuse>>
    BY <1>2 DEF I!OpenHistory
  <2>2. /\ ivProc'[t].at = "filling"
        /\ ivProc'[t].hist = ivProc[t].hist /\ ivProc'[t].adds = ivProc[t].adds
        /\ \A u \in Threads : u # t => ivProc'[u] = ivProc[u]
    BY <2>1 DEF IvTypes
  <2>3. IvTypes'
    BY <2>1 DEF IvTypes
  <2>4. \A u \in Threads : Quiet(u)' => Quiet(u)
    BY <2>1, <2>2, StoresAssumption DEF Quiet, I!HistoryAssumption
  <2>5. \A u \in Threads : Quiet(u) => Quiet(u)'
    BY <2>1, <2>2, StoresAssumption DEF Quiet, I!HistoryAssumption
  <2>6. OneCall => OneCall'
    BY <2>5 DEF OneCall
  <2>7. FileInv'
    BY <2>1, <2>2 DEF FileInv
  <2>8. CallInv => CallInv'
    BY <2>1, <2>2, <2>5 DEF CallInv, Holds
  <2> QED BY <2>1, <2>3, <2>6, <2>7, <2>8
<1>3. ASSUME NEW t \in Threads, I!FillHistory(t)
      PROVE  HistoryInv'
  <2>1. /\ ivProc[t].at = "filling"
        /\ ivFile' \in {ivProc[t].hist} \union (IF ivFile = Torn THEN {} ELSE {Torn})
        /\ kept' = kept \union ivProc[t].adds
        /\ ivProc' = [ivProc EXCEPT ![t] = I!Rest]
        /\ UNCHANGED <<ivToday, excuse>>
    BY <1>3 DEF I!FillHistory
  <2>2. I!Rest = [at |-> Idle, hist |-> {}, adds |-> {}]
    BY DEF I!Rest
  <2>3. /\ ivProc[t].hist \subseteq Tickers \X Days \X BOOLEAN
        /\ ivProc[t].adds \subseteq Tickers \X Days
    BY DEF IvTypes
  <2>4. IvTypes'
    BY <2>1, <2>2, <2>3 DEF IvTypes
  <2>5. ASSUME ~excuse
        PROVE  OneCall' /\ FileInv' /\ CallInv'
    <3>1. ~Quiet(t)
      BY <2>1, StoresAssumption DEF Quiet, I!HistoryAssumption
    <3>2. \A u \in Threads : ivProc'[u].at = Idle
      BY <2>1, <2>2, <2>5, <3>1 DEF OneCall, Quiet, IvTypes
    <3>3. OneCall' /\ CallInv'
      BY <3>2 DEF OneCall, CallInv, Quiet
    <3>4. ivFile' = ivProc[t].hist
      BY <2>1, <2>5 DEF FileInv
    <3>5. ivFile' # Torn
      BY <2>3, <3>4, StoresAssumption DEF I!HistoryAssumption, Days
    <3>6. Holds(ivFile', kept')
      BY <2>1, <2>5, <3>1, <3>4 DEF CallInv
    <3>7. \A u \in Threads : ivProc'[u].at # "filling"
      BY <3>2, StoresAssumption DEF I!HistoryAssumption
    <3>8. FileInv'
      BY <3>5, <3>6, <3>7 DEF FileInv, Holds
    <3> QED BY <3>3, <3>8
  <2> QED BY <2>1, <2>4, <2>5
<1>4. CASE I!CutOff
  <2>1. PICK dead \in SUBSET Threads :
          ivProc' = [t \in Threads |-> IF t \in dead THEN I!Rest ELSE ivProc[t]]
    BY <1>4 DEF I!CutOff
  <2>2. excuse' /\ UNCHANGED <<ivFile, ivToday, kept>>
    BY <1>4 DEF I!CutOff
  <2> QED BY <2>1, <2>2 DEF IvTypes, I!Rest
<1>5. CASE I!NextDay
  <2>1. ivToday' = ivToday + 1 /\ ivToday < IvDays
        /\ UNCHANGED <<ivFile, ivProc, kept, excuse>>
    BY <1>5 DEF I!NextDay
  <2>2. IvTypes'
    BY <2>1, StoresAssumption DEF IvTypes, Days, I!HistoryAssumption
  <2> QED BY <2>1, <2>2 DEF OneCall, FileInv, CallInv, Holds, Quiet
<1>6. CASE UNCHANGED I!vars
  BY <1>6 DEF I!vars, IvTypes, OneCall, FileInv, CallInv, Holds, Quiet
<1> QED BY <1>1, <1>2, <1>3, <1>4, <1>5, <1>6 DEF I!Next

\* A behaviour of the stores is one of the history.
LEMMA HistoryOfStores ==
  /\ Init => HistoryInv
  /\ [Next]_vars => [I!Next]_(I!vars)
<1>1. ASSUME Init PROVE HistoryInv
  <2>1. /\ ivFile \in {{}} \union {{<<t, 0, FALSE>>} : t \in Tickers}
        /\ ivProc = [t \in Threads |-> [at |-> Idle, hist |-> {}, adds |-> {}]]
        /\ ivToday = 0 /\ kept = {} /\ excuse = FALSE
    BY <1>1 DEF Init, I!Init, I!Rest
  <2>2. 0 \in Days
    BY StoresAssumption DEF Days, I!HistoryAssumption
  <2>3. ivFile \subseteq Tickers \X Days \X BOOLEAN /\ \A s \in ivFile : ~s[3]
    <3>1. CASE ivFile = {}
      BY <3>1
    <3>2. ASSUME NEW t \in Tickers, ivFile = {<<t, 0, FALSE>>}
          PROVE  ivFile \subseteq Tickers \X Days \X BOOLEAN /\ \A s \in ivFile : ~s[3]
      <4>1. <<t, 0, FALSE>> \in Tickers \X Days \X BOOLEAN /\ ~<<t, 0, FALSE>>[3]
        BY <2>2
      <4> QED BY <3>2, <4>1
    <3> QED BY <2>1, <3>1, <3>2
  <2>4. IvTypes
    BY <2>1, <2>2, <2>3 DEF IvTypes
  <2>5. OneCall /\ CallInv
    BY <2>1 DEF OneCall, CallInv, Quiet
  <2>6. ivFile # Torn
    BY <2>3, StoresAssumption DEF I!HistoryAssumption, Days
  <2>7. Holds(ivFile, kept)
    BY <2>1, <2>3 DEF Holds, I!Newest, I!DaysOf
  <2>8. FileInv
    <3>1. \A t \in Threads : ivProc[t].at # "filling"
      BY <2>1, StoresAssumption DEF I!HistoryAssumption
    <3> QED BY <2>6, <2>7, <3>1 DEF FileInv
  <2> QED BY <2>4, <2>5, <2>8 DEF HistoryInv
<1>2. [Next]_vars => [I!Next]_(I!vars)
  BY DEF Next, vars, iVars, I!vars
<1> QED BY <1>1, <1>2

\* GET /options/iv-rank rewrites the whole history of all tickers on each call,
\* cleaned and cut to length; while its calls neither overlap nor are cut off,
\* it loses no value that is not older than Keep others of its ticker.
THEOREM NewestAreKept == Spec => []HistoryKept
<1>1. HistoryInv => HistoryKept
  BY DEF HistoryInv, FileInv, Holds, HistoryKept, I!HistoryKept
<1> QED BY <1>1, HistoryStep, HistoryOfStores, PTL DEF Spec

-----------------------------------------------------------------------------
(* The earnings calendar.  Requests save what they read when they began, or   *)
(* the object in memory that all of them change.  What relates that to the    *)
(* calendar shown is that the two agree on every confirmed date ahead whose   *)
(* entry the request is not about and nobody has saved differently since.     *)

\* As TypeOK; a request that has read the file has it there, and began no later
\* than today.
Requests ==
  \A t \in Threads : calProc[t].at # "idle" =>
    calProc[t].day <= calToday /\ (~calProc[t].shared => present)

\* What thread t will save says of the entry of k what is shown.
Agrees(t, k) == E!Doc(t)[k] = E!Shown[k]

\* A request will save every confirmed date ahead that it has seen and is not
\* about.
ReadInv ==
  \A t \in Threads, k \in Tickers :
    /\ calProc[t].at # "idle"
    /\ k \notin calProc[t].about \union missed[t]
    /\ E!ConfirmedAhead(k)
    => Agrees(t, k)

CalendarInv == E!TypeOK /\ Requests /\ ReadInv

\* What is shown, what a thread will save and its request have their types.
LEMMA CalendarTyped ==
  E!TypeOK => /\ E!Shown \in E!Calendar
              /\ \A t \in Threads : E!Doc(t) \in E!Calendar /\ calProc[t] \in E!Proc
<1> SUFFICES ASSUME E!TypeOK
             PROVE  /\ E!Shown \in E!Calendar
                    /\ \A t \in Threads : E!Doc(t) \in E!Calendar /\ calProc[t] \in E!Proc
  OBVIOUS
<1>1. \A t \in Threads : calProc[t] \in E!Proc /\ calProc[t].copy \in E!Calendar
  BY DEF E!TypeOK, E!Proc
<1> QED BY <1>1 DEF E!TypeOK, E!Shown, E!Doc

\* No entries, and no request.
LEMMA NoneTyped == E!Empty \in E!Calendar /\ E!NoRequest \in E!Proc
<1>1. E!Empty \in E!Calendar
  BY DEF E!Empty, E!Calendar
<1>2. 0 \in 0 .. CalendarDays
  BY StoresAssumption DEF E!CalendarAssumption
<1> QED BY <1>1, <1>2 DEF E!NoRequest, E!Proc

\* What the fetch makes of an entry is an entry, if it was one or there was none;
\* a confirmed date that is not past stays.
LEMMA MergedType ==
  ASSUME NEW e \in E!Entry \union {NoEntry}, NEW a \in E!Dates \union {NoDate}, NEW from
  PROVE  /\ E!Merged(e, a, from) \in E!Entry \union {NoEntry}
         /\ e # NoEntry /\ e.confirmed /\ e.date >= from => E!Merged(e, a, from) = e
BY DEF E!Merged, E!Entry

\* A request that starts changes no entry but those it is about, in what it has
\* read and in what is shown.
LEMMA StartKeeps ==
  ASSUME CalendarInv, NEW t \in Threads, NEW at \in {"fetch", "save"},
         NEW about \in SUBSET Tickers, NEW data \in E!Calendar,
         NEW todo \in SUBSET Tickers, E!Start(t, at, about, data, todo),
         \A k \in Tickers \ about : data[k] = E!Shown[k]
  PROVE  /\ CalendarInv'
         /\ \A k \in Tickers : E!Shown'[k] # E!Shown[k] =>
              k \in about /\ calProc'[t].about = about /\ calProc'[t] # calProc[t]
<1> DEFINE p == [at |-> at, about |-> about, shared |-> ~present,
                 copy |-> IF present THEN data ELSE E!Empty,
                 day |-> calToday, todo |-> todo]
<1>1. /\ calProc' = [calProc EXCEPT ![t] = p] /\ calProc[t].at = "idle"
      /\ default' = IF present THEN default ELSE data
      /\ UNCHANGED <<calendar, present, missed, calToday>>
      /\ calRequests < CalendarRequests /\ calRequests' = calRequests + 1
  BY DEF E!Start
<1>2. p \in E!Proc
  BY NoneTyped DEF E!Proc, CalendarInv, E!TypeOK
<1>3. E!TypeOK'
  BY <1>1, <1>2, StoresAssumption DEF CalendarInv, E!TypeOK, E!CalendarAssumption
<1>4. calProc'[t] = p /\ \A u \in Threads \ {t} : calProc'[u] = calProc[u]
  BY <1>1 DEF CalendarInv, E!TypeOK
<1> HIDE DEF p
<1>5. p.at = at /\ p.about = about /\ p.shared = ~present /\ p.day = calToday
      /\ (present => p.copy = data)
  BY DEF p
<1>6. E!Shown' = IF present THEN E!Shown ELSE data
  BY <1>1 DEF E!Shown
<1>7. Requests'
  <2>1. calToday <= calToday
    BY StoresAssumption DEF CalendarInv, E!TypeOK, E!CalendarAssumption
  <2> QED BY <1>1, <1>4, <1>5, <2>1 DEF CalendarInv, Requests
<1>8. ASSUME NEW k \in Tickers, E!Shown'[k] # E!Shown[k] PROVE k \in about
  BY <1>6, <1>8
<1>9. ASSUME NEW u \in Threads, NEW k \in Tickers,
             calProc'[u].at # "idle", k \notin calProc'[u].about \union missed'[u],
             E!ConfirmedAhead(k)'
      PROVE  E!Doc(u)'[k] = E!Shown'[k]
  <2>1. CASE u = t
    <3>1. E!Doc(u)' = IF p.shared THEN default' ELSE p.copy
      BY <1>4, <2>1 DEF E!Doc
    <3>2. E!Doc(u)' = data
      BY <1>1, <1>5, <3>1
    <3> QED BY <1>4, <1>5, <1>6, <1>9, <2>1, <3>2
  <2>2. CASE u # t
    <3>1. calProc'[u] = calProc[u] /\ missed'[u] = missed[u]
      BY <1>1, <1>4, <2>2
    <3>2. CASE present
      <4>1. E!Shown' = E!Shown /\ default' = default
        BY <1>1, <1>6, <3>2
      <4>2. E!ConfirmedAhead(k)
        BY <1>1, <1>9, <4>1 DEF E!ConfirmedAhead
      <4>3. E!Doc(u)' = E!Doc(u)
        BY <3>1, <4>1 DEF E!Doc
      <4> QED BY <1>9, <3>1, <4>1, <4>2, <4>3 DEF CalendarInv, ReadInv, Agrees
    <3>3. CASE ~present
      <4>1. calProc'[u].shared
        BY <1>9, <3>1, <3>3 DEF CalendarInv, Requests
      <4>2. E!Doc(u)' = default' /\ E!Shown' = default'
        BY <1>1, <3>3, <4>1 DEF E!Doc, E!Shown
      <4> QED BY <4>2
    <3> QED BY <3>2, <3>3
  <2> QED BY <2>1, <2>2
<1>10. ReadInv'
  BY <1>9 DEF ReadInv, Agrees
<1>11. calProc'[t] # calProc[t]
  BY <1>1, <1>4, <1>5
<1> QED BY <1>3, <1>4, <1>5, <1>7, <1>8, <1>10, <1>11 DEF CalendarInv

\* The edits and the start of a fetch change nothing but the entry of the ticker
\* the user names.
Starts(t, k) ==
  E!UpsertEntry(t, k) \/ E!ConfirmDate(t, k) \/ E!DeleteEntry(t, k) \/ E!BeginFetch(t)

\* What the property says of a ticker in a step.
KeptOf(k) ==
  E!ConfirmedAhead(k) /\ E!Shown'[k] # E!Shown[k] =>
    \/ \E t \in Threads :
         /\ calProc'[t] # calProc[t]
         /\ k \in calProc[t].about \union calProc'[t].about \union missed[t]
    \/ ~present /\ default' = E!Empty

\* So an edit or a fetch that starts takes no confirmed date away that it is not
\* about.
LEMMA StartsKeep ==
  ASSUME CalendarInv, NEW t \in Threads, NEW k \in Tickers, Starts(t, k)
  PROVE  CalendarInv' /\ \A s \in Tickers : KeptOf(s)
<1>1. E!Shown \in E!Calendar
  BY CalendarTyped DEF CalendarInv
<1>2. ASSUME NEW e \in E!Entry \union {NoEntry}, E!Edit(t, k, e)
      PROVE  CalendarInv' /\ \A s \in Tickers : KeptOf(s)
  <2>1. PICK data, about, todo :
          data = [E!Shown EXCEPT ![k] = e] /\ about = {k} /\ todo = {}
    OBVIOUS
  <2>2. E!Start(t, "save", about, data, todo)
    BY <1>2, <2>1 DEF E!Edit
  <2>3. data \in E!Calendar /\ about \in SUBSET Tickers /\ todo \in SUBSET Tickers
    BY <1>1, <2>1 DEF E!Calendar
  <2>4. \A s \in Tickers \ about : data[s] = E!Shown[s]
    BY <1>1, <2>1 DEF E!Calendar
  <2>5. /\ CalendarInv'
        /\ \A s \in Tickers : E!Shown'[s] # E!Shown[s] =>
             s \in about /\ calProc'[t].about = about /\ calProc'[t] # calProc[t]
    BY <2>2, <2>3, <2>4, StartKeeps
  <2> QED BY <2>5 DEF KeptOf
<1>3. CASE E!BeginFetch(t)
  <2>1. E!Start(t, "fetch", {}, E!Shown, Tickers)
    BY <1>3 DEF E!BeginFetch
  <2>2. {} \in SUBSET Tickers /\ Tickers \in SUBSET Tickers /\ "fetch" \in {"fetch", "save"}
    OBVIOUS
  <2> QED BY <1>1, <2>1, <2>2, StartKeeps DEF KeptOf
<1>4. CASE E!UpsertEntry(t, k)
  <2>1. PICK d \in E!Dates, c \in BOOLEAN : E!Edit(t, k, [date |-> d, confirmed |-> c])
    BY <1>4 DEF E!UpsertEntry
  <2>2. [date |-> d, confirmed |-> c] \in E!Entry
    BY DEF E!Entry
  <2> QED BY <1>2, <2>1, <2>2
<1>5. CASE E!ConfirmDate(t, k)
  <2>1. E!Shown[k] \in E!Entry
    BY <1>1, <1>5 DEF E!ConfirmDate, E!Calendar
  <2>2. [E!Shown[k] EXCEPT !.confirmed = TRUE] \in E!Entry
    BY <2>1 DEF E!Entry
  <2> QED BY <1>2, <1>5, <2>2 DEF E!ConfirmDate
<1>6. CASE E!DeleteEntry(t, k)
  BY <1>2, <1>6 DEF E!DeleteEntry
<1> QED BY <1>3, <1>4, <1>5, <1>6 DEF Starts

\* The answer on one ticker leaves a confirmed date ahead as it is, in the copy of
\* the fetch and in the default object.
LEMMA FetchKeeps ==
  ASSUME CalendarInv, NEW t \in Threads, NEW k \in Tickers, E!FetchTicker(t, k)
  PROVE  CalendarInv' /\ \A s \in Tickers : KeptOf(s)
<1>1. E!Shown \in E!Calendar /\ E!Doc(t) \in E!Calendar /\ calProc[t] \in E!Proc
  BY CalendarTyped DEF CalendarInv
<1>2. PICK answer \in E!Dates \union {NoDate} :
        LET p == calProc[t]
            data == [E!Doc(t) EXCEPT ![k] = E!Merged(E!Doc(t)[k], answer, p.day)]
        IN /\ calProc' = [calProc EXCEPT ![t] = [p EXCEPT
                            !.copy = IF p.shared THEN p.copy ELSE data,
                            !.todo = p.todo \ {k},
                            !.at = IF p.todo = {k} THEN "save" ELSE "fetch"]]
           /\ default' = IF p.shared THEN data ELSE default
  BY DEF E!FetchTicker
<1> DEFINE p == calProc[t]
           data == [E!Doc(t) EXCEPT ![k] = E!Merged(E!Doc(t)[k], answer, p.day)]
           q == [p EXCEPT !.copy = IF p.shared THEN p.copy ELSE data,
                          !.todo = p.todo \ {k},
                          !.at = IF p.todo = {k} THEN "save" ELSE "fetch"]
<1>3. /\ p.at = "fetch"
      /\ UNCHANGED <<calendar, present, missed, calToday, calRequests>>
  BY DEF E!FetchTicker
<1>4. data \in E!Calendar /\ \A s \in Tickers \ {k} : data[s] = E!Doc(t)[s]
  <2>1. E!Doc(t)[k] \in E!Entry \union {NoEntry}
    BY <1>1 DEF E!Calendar
  <2>2. E!Merged(E!Doc(t)[k], answer, p.day) \in E!Entry \union {NoEntry}
    BY <2>1, MergedType
  <2> QED BY <1>1, <2>2 DEF E!Calendar
<1>5. data[k] = E!Merged(E!Doc(t)[k], answer, p.day)
  BY <1>1 DEF E!Calendar
<1>6. calProc' = [calProc EXCEPT ![t] = q] /\ default' = IF p.shared THEN data ELSE default
  BY <1>2
<1> HIDE DEF data
<1>7. /\ q \in E!Proc
      /\ q.about = p.about /\ q.shared = p.shared /\ q.day = p.day /\ q.at # "idle"
      /\ q.copy = IF p.shared THEN p.copy ELSE data
  BY <1>1, <1>4 DEF E!Proc
<1> HIDE DEF q
<1>8. calProc'[t] = q /\ \A u \in Threads \ {t} : calProc'[u] = calProc[u]
  BY <1>6 DEF CalendarInv, E!TypeOK
<1>9. E!TypeOK'
  BY <1>3, <1>4, <1>6, <1>7 DEF CalendarInv, E!TypeOK
<1>10. Requests'
  BY <1>3, <1>7, <1>8 DEF CalendarInv, Requests
<1>11. E!Shown' = IF present THEN E!Shown ELSE default'
  BY <1>3 DEF E!Shown
<1>12. ASSUME NEW s \in Tickers, E!ConfirmedAhead(s), Agrees(t, s)
       PROVE  data[s] = E!Shown[s]
  <2>1. E!Shown[s] \in E!Entry /\ E!Shown[s].confirmed /\ E!Shown[s].date >= p.day
    <3>1. E!Shown[s] \in E!Entry /\ E!Shown[s] # NoEntry
      BY <1>1, <1>12 DEF E!ConfirmedAhead, E!Calendar
    <3>2. p.day <= calToday /\ E!Shown[s].date >= calToday /\ E!Shown[s].confirmed
      BY <1>3, <1>12 DEF E!ConfirmedAhead, CalendarInv, Requests
    <3>3. p.day \in Int /\ calToday \in Int /\ E!Shown[s].date \in Int
      BY <1>1, <3>1, StoresAssumption
      DEF E!Proc, CalendarInv, E!TypeOK, E!Entry, E!Dates, E!CalendarAssumption
    <3> QED BY <3>1, <3>2, <3>3
  <2>2. CASE s = k
    <3>1. E!Shown[s] # NoEntry
      BY <1>12 DEF E!ConfirmedAhead
    <3>2. E!Doc(t)[k] = E!Shown[s]
      BY <1>12, <2>2 DEF Agrees
    <3> QED BY <1>5, <2>1, <2>2, <3>1, <3>2, MergedType
  <2>3. CASE s # k
    BY <1>4, <1>12, <2>3 DEF Agrees
  <2> QED BY <2>2, <2>3
<1>13. ASSUME NEW s \in Tickers, E!ConfirmedAhead(s), ~present
       PROVE  E!Shown'[s] = E!Shown[s]
  <2>1. CASE p.shared
    <3>1. Agrees(t, s)
      BY <1>13, <2>1 DEF Agrees, E!Doc, E!Shown
    <3> QED BY <1>6, <1>11, <1>12, <1>13, <2>1, <3>1
  <2>2. CASE ~p.shared
    BY <1>3, <1>13, <2>2 DEF CalendarInv, Requests
  <2> QED BY <2>1, <2>2
<1>14. ASSUME NEW u \in Threads, NEW s \in Tickers,
              calProc'[u].at # "idle", s \notin calProc'[u].about \union missed'[u],
              E!ConfirmedAhead(s)'
       PROVE  E!Doc(u)'[s] = E!Shown'[s]
  <2>1. CASE ~present
    <3>1. calProc'[u].shared /\ ~present'
      BY <1>3, <1>10, <1>14, <2>1 DEF Requests
    <3> QED BY <3>1 DEF E!Doc, E!Shown
  <2>2. CASE present
    <3>1. E!Shown' = E!Shown /\ E!ConfirmedAhead(s)
      BY <1>3, <1>11, <1>14, <2>2 DEF E!ConfirmedAhead
    <3>2. calProc[u].at # "idle" /\ s \notin calProc[u].about \union missed[u]
          /\ calProc'[u].shared = calProc[u].shared
      BY <1>3, <1>7, <1>8, <1>14
    <3>3. Agrees(u, s)
      BY <3>1, <3>2 DEF CalendarInv, ReadInv
    <3>4. CASE u = t
      <4>1. E!Doc(t)' = data
        BY <1>6, <1>7, <1>8 DEF E!Doc
      <4> QED BY <1>12, <3>1, <3>3, <3>4, <4>1
    <3>5. CASE u # t /\ calProc[u].shared /\ p.shared
      <4>1. E!Doc(u)' = data /\ E!Doc(u) = E!Doc(t)
        BY <1>6, <1>8, <3>5 DEF E!Doc
      <4>2. Agrees(t, s)
        BY <3>3, <4>1 DEF Agrees
      <4> QED BY <1>12, <3>1, <4>1, <4>2
    <3>6. CASE u # t /\ ~(calProc[u].shared /\ p.shared)
      <4>1. E!Doc(u)' = E!Doc(u)
        BY <1>6, <1>8, <3>6 DEF E!Doc
      <4> QED BY <3>1, <3>3, <4>1 DEF Agrees
    <3> QED BY <3>4, <3>5, <3>6
  <2> QED BY <2>1, <2>2
<1>15. ReadInv'
  BY <1>14 DEF ReadInv, Agrees
<1>16. \A s \in Tickers : KeptOf(s)
  BY <1>11, <1>13 DEF KeptOf
<1> QED BY <1>9, <1>10, <1>15, <1>16 DEF CalendarInv

\* A save replaces entries, which everybody else has then missed.
LEMMA SaveKeeps ==
  ASSUME CalendarInv, NEW t \in Threads, E!Save(t)
  PROVE  CalendarInv' /\ \A s \in Tickers : KeptOf(s)
<1>1. E!Shown \in E!Calendar /\ E!Doc(t) \in E!Calendar
  BY CalendarTyped DEF CalendarInv
<1>2. /\ calProc[t].at = "save" /\ calendar' = E!Doc(t) /\ present'
      /\ calProc' = [calProc EXCEPT ![t] = E!NoRequest]
      /\ missed' = [u \in Threads |->
                      IF u = t \/ calProc[u].at = "idle" THEN {}
                      ELSE missed[u] \union {k \in Tickers : E!Doc(t)[k] # E!Shown[k]}]
      /\ UNCHANGED <<default, calToday, calRequests>>
  BY DEF E!Save
<1>3. calProc'[t] = E!NoRequest /\ \A u \in Threads \ {t} : calProc'[u] = calProc[u]
  BY <1>2 DEF CalendarInv, E!TypeOK
<1>4. calProc'[t].at = "idle"
  BY <1>3 DEF E!NoRequest
<1>5. E!TypeOK'
  BY <1>1, <1>2, NoneTyped DEF CalendarInv, E!TypeOK
<1>6. Requests'
  BY <1>2, <1>3, <1>4 DEF CalendarInv, Requests
<1>7. E!Shown' = E!Doc(t)
  BY <1>2 DEF E!Shown
<1>8. ASSUME NEW u \in Threads, NEW s \in Tickers,
             calProc'[u].at # "idle", s \notin calProc'[u].about \union missed'[u],
             E!ConfirmedAhead(s)'
      PROVE  E!Doc(u)'[s] = E!Shown'[s]
  <2>1. u # t /\ calProc'[u] = calProc[u]
    BY <1>3, <1>4, <1>8
  <2>2. s \notin missed[u] /\ E!Doc(t)[s] = E!Shown[s]
    BY <1>2, <1>8, <2>1
  <2>3. E!Shown'[s] = E!Shown[s] /\ E!ConfirmedAhead(s)
    BY <1>2, <1>7, <1>8, <2>2 DEF E!ConfirmedAhead
  <2>4. Agrees(u, s)
    BY <1>8, <2>1, <2>2, <2>3 DEF CalendarInv, ReadInv
  <2>5. E!Doc(u)' = E!Doc(u)
    BY <1>2, <2>1 DEF E!Doc
  <2> QED BY <2>3, <2>4, <2>5 DEF Agrees
<1>9. ReadInv'
  BY <1>8 DEF ReadInv, Agrees
<1>10. calProc'[t] # calProc[t]
  BY <1>2, <1>4
<1>11. ASSUME NEW s \in Tickers PROVE KeptOf(s)
  <2>1. CASE s \in calProc[t].about \union missed[t]
    BY <1>10, <2>1 DEF KeptOf
  <2>2. CASE s \notin calProc[t].about \union missed[t]
    BY <1>2, <1>7, <2>2 DEF KeptOf, CalendarInv, ReadInv, Agrees
  <2> QED BY <2>1, <2>2
<1> QED BY <1>5, <1>6, <1>9, <1>11 DEF CalendarInv

\* A request that fails leaves the others what they had; a restart leaves none.
LEMMA StopKeeps ==
  ASSUME CalendarInv, E!Crash \/ \E t \in Threads : E!RequestFails(t)
  PROVE  CalendarInv' /\ \A s \in Tickers : KeptOf(s)
<1>1. CASE E!Crash
  <2>1. /\ default' = E!Empty /\ calProc' = [t \in Threads |-> E!NoRequest]
        /\ missed' = [t \in Threads |-> {}]
        /\ UNCHANGED <<calendar, present, calToday, calRequests>>
    BY <1>1 DEF E!Crash
  <2>2. \A t \in Threads : calProc'[t].at = "idle"
    BY <2>1 DEF E!NoRequest
  <2>3. E!TypeOK'
    BY <2>1, NoneTyped DEF CalendarInv, E!TypeOK
  <2>4. CalendarInv'
    BY <2>2, <2>3 DEF CalendarInv, Requests, ReadInv
  <2>5. present => E!Shown' = E!Shown
    BY <2>1 DEF E!Shown
  <2> QED BY <2>1, <2>4, <2>5 DEF KeptOf
<1>2. ASSUME NEW t \in Threads, E!RequestFails(t)
      PROVE  CalendarInv' /\ \A s \in Tickers : KeptOf(s)
  <2>1. /\ calProc' = [calProc EXCEPT ![t] = E!NoRequest]
        /\ missed' = [missed EXCEPT ![t] = {}]
        /\ UNCHANGED <<calendar, present, default, calToday, calRequests>>
    BY <1>2 DEF E!RequestFails
  <2>2. E!Shown' = E!Shown
    BY <2>1 DEF E!Shown
  <2>3. E!TypeOK'
    BY <2>1, NoneTyped DEF CalendarInv, E!TypeOK
  <2>4. calProc'[t].at = "idle"
    BY <2>1 DEF E!NoRequest, CalendarInv, E!TypeOK
  <2>5. \A u \in Threads \ {t} : calProc'[u] = calProc[u] /\ missed'[u] = missed[u]
    BY <2>1 DEF CalendarInv, E!TypeOK
  <2>6. Requests'
    BY <2>1, <2>4, <2>5 DEF CalendarInv, Requests
  <2>7. ASSUME NEW u \in Threads, NEW s \in Tickers,
               calProc'[u].at # "idle", s \notin calProc'[u].about \union missed'[u],
               E!ConfirmedAhead(s)'
        PROVE  E!Doc(u)'[s] = E!Shown'[s]
    <3>1. u \in Threads \ {t}
      BY <2>4, <2>7
    <3>2. E!ConfirmedAhead(s) /\ E!Doc(u)' = E!Doc(u)
      BY <2>1, <2>2, <2>5, <2>7, <3>1 DEF E!ConfirmedAhead, E!Doc
    <3> QED BY <2>2, <2>5, <2>7, <3>1, <3>2 DEF CalendarInv, ReadInv, Agrees
  <2>8. ReadInv'
    BY <2>7 DEF ReadInv, Agrees
  <2> QED BY <2>2, <2>3, <2>6, <2>8 DEF KeptOf, CalendarInv
<1> QED BY <1>1, <1>2

\* A day that passes makes dates past, none ahead.
LEMMA DayKeeps ==
  ASSUME CalendarInv, E!NextDay
  PROVE  CalendarInv' /\ \A s \in Tickers : KeptOf(s)
<1>1. /\ calToday < CalendarDays /\ calToday' = calToday + 1
      /\ UNCHANGED <<calendar, present, default, calProc, missed, calRequests>>
  BY DEF E!NextDay
<1>2. CalendarDays \in Nat /\ calToday \in 0 .. CalendarDays
      /\ \A t \in Threads : calProc[t].day \in 0 .. CalendarDays
  BY StoresAssumption, CalendarTyped DEF E!CalendarAssumption, CalendarInv, E!TypeOK, E!Proc
<1>3. E!TypeOK'
  BY <1>1, <1>2 DEF CalendarInv, E!TypeOK
<1>4. Requests'
  <2>1. \A t \in Threads : calProc[t].day <= calToday => calProc[t].day <= calToday + 1
    BY <1>2
  <2> QED BY <1>1, <2>1 DEF CalendarInv, Requests
<1>5. E!Shown' = E!Shown /\ \A t \in Threads : E!Doc(t)' = E!Doc(t)
  BY <1>1 DEF E!Shown, E!Doc
<1>6. ASSUME NEW k \in Tickers, E!ConfirmedAhead(k)' PROVE E!ConfirmedAhead(k)
  <2>1. E!Shown[k] # NoEntry /\ E!Shown[k].confirmed /\ E!Shown[k].date >= calToday + 1
    BY <1>1, <1>5, <1>6 DEF E!ConfirmedAhead
  <2>2. E!Shown[k] \in E!Entry
    BY <2>1, CalendarTyped DEF CalendarInv, E!Calendar
  <2>3. E!Shown[k].date \in Int
    BY <2>2, StoresAssumption DEF E!Entry, E!Dates, E!CalendarAssumption
  <2> QED BY <1>2, <2>1, <2>3 DEF E!ConfirmedAhead
<1>7. ReadInv'
  BY <1>1, <1>5, <1>6 DEF CalendarInv, ReadInv, Agrees
<1> QED BY <1>3, <1>4, <1>5, <1>7 DEF CalendarInv, KeptOf

\* Every step of the calendar.
LEMMA CalendarKept ==
  ASSUME CalendarInv, [E!Next]_(E!vars)
  PROVE  CalendarInv' /\ [\A s \in Tickers : KeptOf(s)]_(E!vars)
<1>1. ASSUME NEW t \in Threads, NEW k \in Tickers,
             E!UpsertEntry(t, k) \/ E!ConfirmDate(t, k) \/ E!DeleteEntry(t, k)
      PROVE  CalendarInv' /\ \A s \in Tickers : KeptOf(s)
  BY <1>1, StartsKeep DEF Starts
<1>2. ASSUME NEW t \in Threads, E!BeginFetch(t)
      PROVE  CalendarInv' /\ \A s \in Tickers : KeptOf(s)
  <2>1. E!Shown \in E!Calendar
    BY CalendarTyped DEF CalendarInv
  <2>2. E!Start(t, "fetch", {}, E!Shown, Tickers)
    BY <1>2 DEF E!BeginFetch
  <2>3. {} \in SUBSET Tickers /\ Tickers \in SUBSET Tickers /\ "fetch" \in {"fetch", "save"}
    OBVIOUS
  <2> QED BY <2>1, <2>2, <2>3, StartKeeps DEF KeptOf
<1>3. CASE UNCHANGED E!vars
  <2>1. CalendarInv'
    BY <1>3 DEF E!vars, CalendarInv, E!TypeOK, Requests, ReadInv, Agrees, E!Doc,
                E!Shown, E!ConfirmedAhead
  <2> QED BY <1>3, <2>1
<1>4. CASE E!Next
  <2>1. CalendarInv' /\ \A s \in Tickers : KeptOf(s)
    BY <1>1, <1>2, <1>4, FetchKeeps, SaveKeeps, StopKeeps, DayKeeps DEF E!Next
  <2> QED BY <2>1
<1> QED BY <1>3, <1>4

\* The invariant is inductive.
LEMMA CalendarStep == CalendarInv /\ [E!Next]_(E!vars) => CalendarInv'
BY CalendarKept

\* A behaviour of the stores is one of the calendar.
LEMMA CalendarOfStores ==
  /\ Init => CalendarInv
  /\ [Next]_vars => [E!Next]_(E!vars)
<1>1. ASSUME Init PROVE CalendarInv
  <2>1. E!TypeOK
    BY <1>1, NoneTyped, StoresAssumption
    DEF Init, E!Init, E!CalendarAssumption, E!TypeOK
  <2>2. \A t \in Threads : calProc[t].at = "idle"
    BY <1>1 DEF Init, E!Init, E!NoRequest
  <2> QED BY <2>1, <2>2 DEF CalendarInv, Requests, ReadInv
<1> QED BY <1>1 DEF Next, vars, eVars, E!vars

\* The file, the default object, the requests and the day keep their types.
THEOREM CalendarTypes == Spec => []E!TypeOK
<1>1. CalendarInv => E!TypeOK
  BY DEF CalendarInv
<1> QED BY <1>1, CalendarStep, CalendarOfStores, PTL DEF Spec

\* For every calendar, blackout and horizon: unknown, past and barred dates are
\* never clear, and the judgements of services/state.py and routes/calendar.py
\* bar the same tickers.
THEOREM NeverClear == Spec => []NeverClearByMistake
<1>1. ASSUME CalendarInv PROVE NeverClearByMistake
  <2> SUFFICES ASSUME NEW t \in Tickers,
                      NEW e, e = E!Shown[t], NEW d, d = E!DaysToEarnings(e)
               PROVE  /\ "clear" \in {E!EarningsState(d), E!Status(d)}
                           => e # NoEntry /\ e.date > calToday + Approaching
                      /\ E!IsBlackout(d) <=> E!EarningsState(d) = "blackout"
                      /\ E!IsBlackout(d) <=> E!Status(d) = "blackout"
    BY DEF NeverClearByMistake, E!NeverClearByMistake
  <2>1. calToday \in Nat
    BY <1>1, StoresAssumption DEF CalendarInv, E!TypeOK, E!CalendarAssumption
  <2>2. CASE d = NoDate
    BY <2>2 DEF E!EarningsState, E!Status, E!IsBlackout
  <2>3. CASE d # NoDate
    <3>1. e \in E!Entry /\ e # NoEntry
      BY <1>1, <2>3, CalendarTyped DEF CalendarInv, E!Calendar, E!DaysToEarnings
    <3>2. e.date \in Nat
      BY <1>1, <3>1, StoresAssumption DEF E!Entry, E!Dates, E!CalendarAssumption
    <3>3. d = e.date - calToday /\ d \in Nat
      BY <2>1, <2>3, <3>1, <3>2 DEF E!DaysToEarnings
    <3> QED BY <1>1, <2>1, <2>3, <3>1, <3>2, <3>3, StoresAssumption
            DEF E!EarningsState, E!Status, E!IsBlackout, E!CalendarAssumption
  <2> QED BY <2>2, <2>3
<1>2. CalendarInv => NeverClearByMistake
  BY <1>1
<1> QED BY <1>2, CalendarStep, CalendarOfStores, PTL DEF Spec

\* However edits and fetches of routes/calendar.py and earnings_fetch.py overlap,
\* fail or are cut off, before the first save or after it: no request takes a
\* confirmed date that lies ahead away which it has seen, of a ticker the user did
\* not name.
THEOREM ConfirmedStays == Spec => ConfirmedKept
<1> DEFINE Kept == \A k \in Tickers :
                     E!ConfirmedAhead(k) /\ E!Shown'[k] # E!Shown[k] =>
                       \/ \E t \in Threads :
                            /\ calProc'[t] # calProc[t]
                            /\ k \in calProc[t].about \union calProc'[t].about
                                     \union missed[t]
                       \/ ~present /\ default' = E!Empty
<1>1. CalendarInv /\ [E!Next]_(E!vars) => [Kept]_(E!vars)
  BY CalendarKept DEF KeptOf
<1> QED
  BY <1>1, CalendarStep, CalendarOfStores, PTL
  DEF Spec, ConfirmedKept, E!ConfirmedKept

-----------------------------------------------------------------------------
(* Facts about finite sets and sums over them. *)

\* A set of subsets of a finite set has a minimal one: the principle by which
\* facts about finite sets are proved here by induction.
LEMMA MinimalSet ==
  ASSUME NEW S, NEW F, IsFiniteSet(S), \A x \in F : x \subseteq S, F # {}
  PROVE  \E x \in F : \A y \in F : y \subseteq x => y = x
<1>1. IsWellFoundedOn(StrictSubsetOrdering(S), FiniteSubsetsOf(S))
  BY FS_StrictSubsetOrderingWellFounded
<1>2. F \subseteq FiniteSubsetsOf(S)
  BY FS_Subset DEF FiniteSubsetsOf
<1>3. PICK x \in F : \A y \in F : ~(<<y, x>> \in StrictSubsetOrdering(S))
  BY <1>1, <1>2, WFMin
<1> QED BY <1>3 DEF StrictSubsetOrdering

\* A finite set of numbers has a least and a greatest one.
LEMMA ExtremesExist ==
  ASSUME NEW S \in SUBSET Nat, IsFiniteSet(S), S # {}
  PROVE  /\ L!Max(S) \in S /\ \A y \in S : L!Max(S) >= y
         /\ L!Min(S) \in S /\ \A y \in S : L!Min(S) <= y
<1>1. \E x \in S : \A y \in S : x >= y
  <2>1. PICK F : F = {{y \in S : y >= x} : x \in S}
    OBVIOUS
  <2>2. F # {} /\ \A u \in F : u \subseteq S
    BY <2>1
  <2>3. \E u \in F : \A v \in F : v \subseteq u => v = u
    <3>1. IsFiniteSet(S) => \E u \in F : \A v \in F : v \subseteq u => v = u
      BY <2>2, MinimalSet
    <3>2. IsFiniteSet(S)
      OBVIOUS
    <3> QED BY <3>1, <3>2
  <2>4. PICK x \in S : \A v \in F : v \subseteq {y \in S : y >= x} => v = {y \in S : y >= x}
    BY <2>1, <2>3
  <2>5. ASSUME NEW z \in S, z > x
        PROVE  FALSE
    <3>1. {y \in S : y >= z} \in F
      BY <2>1
    <3>2. \A y \in S : y >= z => y >= x
      BY <2>5
    <3>3. {y \in S : y >= z} = {y \in S : y >= x}
      BY <2>4, <3>1, <3>2
    <3>4. x \in {y \in S : y >= z}
      BY <3>3
    <3> QED BY <2>5, <3>4
  <2> QED BY <2>5
<1>2. \E x \in S : \A y \in S : x <= y
  <2>1. PICK F : F = {{y \in S : y <= x} : x \in S}
    OBVIOUS
  <2>2. F # {} /\ \A u \in F : u \subseteq S
    BY <2>1
  <2>3. \E u \in F : \A v \in F : v \subseteq u => v = u
    <3>1. IsFiniteSet(S) => \E u \in F : \A v \in F : v \subseteq u => v = u
      BY <2>2, MinimalSet
    <3>2. IsFiniteSet(S)
      OBVIOUS
    <3> QED BY <3>1, <3>2
  <2>4. PICK x \in S : \A v \in F : v \subseteq {y \in S : y <= x} => v = {y \in S : y <= x}
    BY <2>1, <2>3
  <2>5. ASSUME NEW z \in S, z < x
        PROVE  FALSE
    <3>1. {y \in S : y <= z} \in F
      BY <2>1
    <3>2. \A y \in S : y <= z => y <= x
      BY <2>5
    <3>3. {y \in S : y <= z} = {y \in S : y <= x}
      BY <2>4, <3>1, <3>2
    <3>4. x \in {y \in S : y <= z}
      BY <3>3
    <3> QED BY <2>5, <3>4
  <2> QED BY <2>5
<1>3. L!Max(S) = CHOOSE x \in S : \A y \in S : x >= y
  BY DEF L!Max
<1>4. L!Min(S) = CHOOSE x \in S : \A y \in S : x <= y
  BY DEF L!Min
<1> QED BY <1>1, <1>2, <1>3, <1>4

\* The recursion that SumFunctionOnSet names.
IsSum(g, f, S) ==
  g = [s \in SUBSET S |->
         IF s = {} THEN 0
         ELSE f[CHOOSE x \in s : TRUE] + g[s \ {CHOOSE x \in s : TRUE}]]

LEMMA SumByRecursion ==
  \A f, S : L!SumFunctionOnSet(f, S) = (CHOOSE g : IsSum(g, f, S))[S]
BY DEF L!SumFunctionOnSet, L!FoldFunctionOnSet, L!MapThenFoldSet, IsSum

\* Two sums of f agree where both are defined.
LEMMA SumsAgree ==
  ASSUME NEW f, NEW S, NEW T, IsFiniteSet(S), NEW g, NEW h, IsSum(g, f, S), IsSum(h, f, T),
         NEW u \in SUBSET S, u \in SUBSET T
  PROVE  g[u] = h[u]
<1>1. PICK F : F = {v \in SUBSET S : v \in SUBSET T /\ g[v] # h[v]}
  OBVIOUS
<1>2. SUFFICES ASSUME F # {} PROVE FALSE
  BY <1>1
<1>3. \A v \in F : v \subseteq S
  BY <1>1
<1>4. PICK v \in F : \A w \in F : w \subseteq v => w = v
  BY <1>2, <1>3, MinimalSet
<1>5. v \in SUBSET S /\ v \in SUBSET T /\ g[v] # h[v]
  BY <1>1
<1>6. CASE v = {}
  BY <1>5, <1>6 DEF IsSum
<1>7. CASE v # {}
  <2>1. PICK x : x = (CHOOSE y \in v : TRUE)
    OBVIOUS
  <2>2. x \in v
    BY <1>7, <2>1
  <2>3. g[v] = f[x] + g[v \ {x}] /\ h[v] = f[x] + h[v \ {x}]
    BY <1>5, <1>7, <2>1 DEF IsSum
  <2>4. v \ {x} \notin F
    BY <1>4, <2>2
  <2>5. g[v \ {x}] = h[v \ {x}]
    BY <1>1, <1>5, <2>4
  <2> QED BY <1>5, <2>3, <2>5
<1> QED BY <1>6, <1>7

LEMMA SumExists ==
  ASSUME NEW f, NEW S, IsFiniteSet(S)
  PROVE  \E g : IsSum(g, f, S)
<1>1. PICK F : F = {T \in SUBSET S : ~ \E g : IsSum(g, f, T)}
  OBVIOUS
<1>2. SUFFICES ASSUME F # {} PROVE FALSE
  BY <1>1
<1>3. PICK T \in F : \A U \in F : U \subseteq T => U = T
  <2>1. \A U \in F : U \subseteq S
    BY <1>1
  <2> QED BY <1>2, <2>1, MinimalSet
<1>4. T \subseteq S /\ \A U \in SUBSET T : U # T => \E g : IsSum(g, f, U)
  BY <1>1, <1>3
<1> DEFINE H(U) == CHOOSE g : IsSum(g, f, U)
           c(U) == CHOOSE x \in U : TRUE
           g(U) == IF U = {} THEN 0 ELSE f[c(U)] + H(U \ {c(U)})[U \ {c(U)}]
<1>5. \A U \in SUBSET T : U # T => IsSum(H(U), f, U)
  BY <1>4
<1>6. \A U \in SUBSET T : U # {} => U \ {c(U)} \in SUBSET T /\ U \ {c(U)} # T /\ c(U) \in U
  OBVIOUS
<1>7. ASSUME NEW U \in SUBSET T, U # T
      PROVE  H(U)[U] = g(U)
  <2>1. IsSum(H(U), f, U)
    BY <1>5, <1>7
  <2>2. CASE U = {}
    <3>1. H(U)[U] = 0
      BY <2>1, <2>2 DEF IsSum
    <3> QED BY <2>2, <3>1
  <2>3. CASE U # {}
    <3>1. PICK x, V : x = c(U) /\ V = U \ {x}
      OBVIOUS
    <3>2. x \in U /\ V \in SUBSET T /\ V # T /\ V \in SUBSET U
      BY <1>6, <2>3, <3>1
    <3>3. IsSum(H(V), f, V) /\ IsFiniteSet(U)
      BY <1>4, <1>5, <3>2, FS_Subset
    <3>4. H(U)[U] = f[x] + H(U)[V]
      BY <2>1, <2>3, <3>1 DEF IsSum
    <3>5. H(U)[V] = H(V)[V]
      <4> HIDE DEF H
      <4> QED BY <2>1, <3>2, <3>3, SumsAgree
    <3> QED BY <2>3, <3>1, <3>4, <3>5
  <2> QED BY <2>2, <2>3
<1>8. IsSum([U \in SUBSET T |-> g(U)], f, T)
  <2> HIDE DEF H
  <2>1. \A U \in SUBSET T : g(U) = IF U = {} THEN 0 ELSE f[c(U)] + g(U \ {c(U)})
    <3>1. ASSUME NEW U \in SUBSET T, U # {}
          PROVE  H(U \ {c(U)})[U \ {c(U)}] = g(U \ {c(U)})
      <4> HIDE DEF g, c
      <4> QED BY <1>6, <1>7, <3>1
    <3> QED BY <3>1
  <2>2. PICK G : G = [U \in SUBSET T |-> g(U)]
    OBVIOUS
  <2>3. \A U \in SUBSET T : G[U] = g(U)
    BY <2>2
  <2>4. \A U \in SUBSET T : g(U) = IF U = {} THEN 0 ELSE f[c(U)] + G[U \ {c(U)}]
    <3> HIDE DEF g
    <3> QED BY <1>6, <2>1, <2>3
  <2>5. G = [U \in SUBSET T |-> IF U = {} THEN 0 ELSE f[c(U)] + G[U \ {c(U)}]]
    <3> HIDE DEF g
    <3> QED BY <2>2, <2>4
  <2> HIDE DEF g
  <2> QED BY <2>2, <2>5 DEF IsSum
<1> QED BY <1>1, <1>3, <1>8

LEMMA SumUnfolds ==
  ASSUME NEW f, NEW S, IsFiniteSet(S)
  PROVE  /\ S = {} => L!SumFunctionOnSet(f, S) = 0
         /\ S # {} => \E x \in S :
              L!SumFunctionOnSet(f, S) = f[x] + L!SumFunctionOnSet(f, S \ {x})
<1>1. PICK g : g = (CHOOSE h : IsSum(h, f, S))
  OBVIOUS
<1>2. IsSum(g, f, S) /\ L!SumFunctionOnSet(f, S) = g[S]
  BY <1>1, SumExists, SumByRecursion
<1>3. CASE S = {}
  BY <1>2, <1>3 DEF IsSum
<1>4. CASE S # {}
  <2>1. PICK x : x = CHOOSE y \in S : TRUE
    OBVIOUS
  <2>2. x \in S /\ g[S] = f[x] + g[S \ {x}]
    BY <1>2, <1>4, <2>1 DEF IsSum
  <2>3. PICK T : T = S \ {x}
    OBVIOUS
  <2>4. PICK h : h = (CHOOSE k : IsSum(k, f, T))
    OBVIOUS
  <2>5. T \in SUBSET S /\ IsFiniteSet(T)
    BY <2>3, FS_Subset
  <2>6. IsSum(h, f, T) /\ L!SumFunctionOnSet(f, T) = h[T]
    BY <2>4, <2>5, SumExists, SumByRecursion
  <2>7. g[T] = h[T]
    BY <1>2, <2>5, <2>6, SumsAgree
  <2> QED BY <1>2, <1>4, <2>2, <2>3, <2>6, <2>7
<1> QED BY <1>3, <1>4

LEMMA SumType ==
  ASSUME NEW S, IsFiniteSet(S), NEW f, \A x \in S : f[x] \in Int
  PROVE  L!SumFunctionOnSet(f, S) \in Int
<1>1. PICK F : F = {T \in SUBSET S : L!SumFunctionOnSet(f, T) \notin Int}
  OBVIOUS
<1>2. SUFFICES ASSUME F # {} PROVE FALSE
  BY <1>1
<1>3. PICK T \in F : \A U \in F : U \subseteq T => U = T
  <2>1. \A U \in F : U \subseteq S
    BY <1>1
  <2> QED BY <1>2, <2>1, MinimalSet
<1>4. T \in SUBSET S /\ IsFiniteSet(T)
  BY <1>1, FS_Subset
<1>5. T # {}
  BY <1>1, <1>4, SumUnfolds
<1>6. PICK x \in T : L!SumFunctionOnSet(f, T) = f[x] + L!SumFunctionOnSet(f, T \ {x})
  BY <1>4, <1>5, SumUnfolds
<1>7. L!SumFunctionOnSet(f, T \ {x}) \in Int /\ f[x] \in Int
  BY <1>1, <1>3, <1>4
<1> QED BY <1>1, <1>6, <1>7

\* A sum takes its elements in any order.
LEMMA SumSplit ==
  ASSUME NEW S, IsFiniteSet(S), NEW f, \A x \in S : f[x] \in Int, NEW z \in S
  PROVE  L!SumFunctionOnSet(f, S) = f[z] + L!SumFunctionOnSet(f, S \ {z})
<1>1. PICK F : F = {T \in SUBSET S : \E x \in T :
                 L!SumFunctionOnSet(f, T) # f[x] + L!SumFunctionOnSet(f, T \ {x})}
  OBVIOUS
<1>2. SUFFICES ASSUME F # {} PROVE FALSE
  BY <1>1
<1>3. PICK T \in F : \A U \in F : U \subseteq T => U = T
  <2>1. \A U \in F : U \subseteq S
    BY <1>1
  <2> QED BY <1>2, <2>1, MinimalSet
<1>4. T \in SUBSET S /\ IsFiniteSet(T)
  BY <1>1, FS_Subset
<1>5. PICK x \in T : L!SumFunctionOnSet(f, T) # f[x] + L!SumFunctionOnSet(f, T \ {x})
  BY <1>1
<1>6. PICK y \in T : L!SumFunctionOnSet(f, T) = f[y] + L!SumFunctionOnSet(f, T \ {y})
  BY <1>4, SumUnfolds
<1>7. x # y
  BY <1>5, <1>6
<1>8. /\ L!SumFunctionOnSet(f, T \ {y}) = f[x] + L!SumFunctionOnSet(f, (T \ {y}) \ {x})
      /\ L!SumFunctionOnSet(f, T \ {x}) = f[y] + L!SumFunctionOnSet(f, (T \ {x}) \ {y})
  <2>1. T \ {y} \notin F /\ T \ {x} \notin F
    BY <1>3
  <2>2. T \ {y} \in SUBSET S /\ T \ {x} \in SUBSET S /\ x \in T \ {y} /\ y \in T \ {x}
    BY <1>4, <1>7
  <2> QED BY <1>1, <2>1, <2>2
<1>9. PICK r : r = L!SumFunctionOnSet(f, (T \ {y}) \ {x})
  OBVIOUS
<1>10. (T \ {x}) \ {y} = (T \ {y}) \ {x}
  OBVIOUS
<1>11. r \in Int /\ f[x] \in Int /\ f[y] \in Int
  <2>1. (T \ {y}) \ {x} \in SUBSET S /\ IsFiniteSet((T \ {y}) \ {x})
    BY <1>4, FS_Subset
  <2> QED BY <1>4, <1>9, <2>1, SumType
<1>12. L!SumFunctionOnSet(f, T \ {y}) = f[x] + r /\ L!SumFunctionOnSet(f, T \ {x}) = f[y] + r
  BY <1>8, <1>9, <1>10
<1>13. L!SumFunctionOnSet(f, T) = f[y] + (f[x] + r)
  BY <1>6, <1>12
<1>14. f[y] + (f[x] + r) = f[x] + (f[y] + r)
  BY <1>11
<1> QED BY <1>5, <1>12, <1>13, <1>14

\* What bounds the terms bounds the sums.
LEMMA SumSubadditive ==
  ASSUME NEW S, IsFiniteSet(S), NEW f, NEW g, NEW h,
         \A x \in S : f[x] \in Int /\ g[x] \in Int /\ h[x] \in Int /\ h[x] <= f[x] + g[x]
  PROVE  L!SumFunctionOnSet(h, S) <= L!SumFunctionOnSet(f, S) + L!SumFunctionOnSet(g, S)
<1>1. PICK F : F = {T \in SUBSET S :
        ~(L!SumFunctionOnSet(h, T) <= L!SumFunctionOnSet(f, T) + L!SumFunctionOnSet(g, T))}
  OBVIOUS
<1>2. SUFFICES ASSUME F # {} PROVE FALSE
  BY <1>1
<1>3. PICK T \in F : \A U \in F : U \subseteq T => U = T
  <2>1. \A U \in F : U \subseteq S
    BY <1>1
  <2> QED BY <1>2, <2>1, MinimalSet
<1>4. T \in SUBSET S /\ IsFiniteSet(T)
  BY <1>1, FS_Subset
<1>5. T # {}
  <2>1. SUFFICES ASSUME T = {} PROVE FALSE
    OBVIOUS
  <2>2. /\ L!SumFunctionOnSet(f, T) = 0 /\ L!SumFunctionOnSet(g, T) = 0
        /\ L!SumFunctionOnSet(h, T) = 0
    BY <1>4, <2>1, SumUnfolds
  <2> QED BY <1>1, <2>2
<1>6. PICK x \in T : TRUE
  BY <1>5
<1>7. /\ L!SumFunctionOnSet(f, T) = f[x] + L!SumFunctionOnSet(f, T \ {x})
      /\ L!SumFunctionOnSet(g, T) = g[x] + L!SumFunctionOnSet(g, T \ {x})
      /\ L!SumFunctionOnSet(h, T) = h[x] + L!SumFunctionOnSet(h, T \ {x})
  BY <1>4, SumSplit
<1>8. T \ {x} \notin F /\ T \ {x} \in SUBSET S /\ IsFiniteSet(T \ {x})
  BY <1>3, <1>4, FS_Subset
<1>9. /\ L!SumFunctionOnSet(f, T \ {x}) \in Int /\ L!SumFunctionOnSet(g, T \ {x}) \in Int
      /\ L!SumFunctionOnSet(h, T \ {x}) \in Int
  BY <1>8, SumType
<1>10. L!SumFunctionOnSet(h, T \ {x}) <=
         L!SumFunctionOnSet(f, T \ {x}) + L!SumFunctionOnSet(g, T \ {x})
  BY <1>1, <1>8
<1>11. f[x] \in Int /\ g[x] \in Int /\ h[x] \in Int /\ h[x] <= f[x] + g[x]
  BY <1>4
<1>12. L!SumFunctionOnSet(h, T) <= L!SumFunctionOnSet(f, T) + L!SumFunctionOnSet(g, T)
  BY <1>7, <1>9, <1>10, <1>11
<1> QED BY <1>1, <1>12

\* The sizes of disjoint sets add up to no more than that of a set they are in.
LEMMA SumOfSizes ==
  ASSUME NEW S, IsFiniteSet(S), NEW W, IsFiniteSet(W), NEW A, NEW f,
         \A x \in S : A[x] \subseteq W /\ f[x] \in Int /\ f[x] <= Cardinality(A[x]),
         \A x, y \in S : x # y => A[x] \intersect A[y] = {}
  PROVE  L!SumFunctionOnSet(f, S) <= Cardinality(W)
<1> DEFINE Part(T) == UNION {A[x] : x \in T}
<1>0. \A T \in SUBSET S : IsFiniteSet(Part(T)) /\ Part(T) \subseteq W /\ Cardinality(Part(T)) \in Nat
  <2>1. \A T \in SUBSET S : Part(T) \subseteq W
    OBVIOUS
  <2> HIDE DEF Part
  <2> QED BY <2>1, FS_Subset, FS_CardinalityType
<1>1. PICK F : F = {T \in SUBSET S : ~(L!SumFunctionOnSet(f, T) <= Cardinality(Part(T)))}
  OBVIOUS
<1>2. ASSUME F # {} PROVE FALSE
  <2>3. PICK T \in F : \A U \in F : U \subseteq T => U = T
    <3>1. \A U \in F : U \subseteq S
      BY <1>1
    <3> QED BY <1>2, <3>1, MinimalSet
  <2>4. T \in SUBSET S /\ IsFiniteSet(T)
    BY <1>1, FS_Subset
  <2>5. T # {}
    <3>1. SUFFICES ASSUME T = {} PROVE FALSE
      OBVIOUS
    <3>2. L!SumFunctionOnSet(f, T) = 0 /\ Cardinality(Part(T)) \in Nat
      BY <1>0, <2>4, <3>1, SumUnfolds
    <3> QED BY <1>1, <3>2
  <2>6. PICK x \in T : TRUE
    BY <2>5
  <2>7. L!SumFunctionOnSet(f, T) = f[x] + L!SumFunctionOnSet(f, T \ {x})
    BY <2>4, SumSplit
  <2>8. T \ {x} \notin F /\ T \ {x} \in SUBSET S /\ IsFiniteSet(T \ {x})
    BY <2>3, <2>4, FS_Subset
  <2>9. L!SumFunctionOnSet(f, T \ {x}) <= Cardinality(Part(T \ {x}))
    BY <1>1, <2>8
  <2>10. Part(T) = A[x] \union Part(T \ {x}) /\ A[x] \intersect Part(T \ {x}) = {}
    BY <2>4
  <2>11. IsFiniteSet(A[x]) /\ Cardinality(A[x]) \in Nat
    BY <2>4, FS_Subset, FS_CardinalityType
  <2> HIDE DEF Part
  <2>12. Cardinality(Part(T)) = Cardinality(A[x]) + Cardinality(Part(T \ {x}))
    <3>1. IsFiniteSet(Part(T \ {x}))
      BY <1>0, <2>8
    <3>2. Cardinality(A[x] \union Part(T \ {x})) =
            Cardinality(A[x]) + Cardinality(Part(T \ {x})) - Cardinality(A[x] \intersect Part(T \ {x}))
      BY <2>11, <3>1, FS_Union
    <3>3. Cardinality(A[x] \intersect Part(T \ {x})) = 0
      BY <2>10, FS_EmptySet
    <3>4. Cardinality(Part(T \ {x})) \in Nat
      BY <1>0, <2>8
    <3> QED BY <2>10, <2>11, <3>2, <3>3, <3>4
  <2>13. L!SumFunctionOnSet(f, T \ {x}) \in Int /\ f[x] \in Int /\ f[x] <= Cardinality(A[x])
           /\ Cardinality(Part(T \ {x})) \in Nat
    BY <1>0, <2>4, <2>8, SumType
  <2>14. L!SumFunctionOnSet(f, T) <= Cardinality(Part(T))
    BY <2>7, <2>9, <2>11, <2>12, <2>13
  <2> QED BY <1>1, <2>14
<1>3. L!SumFunctionOnSet(f, S) <= Cardinality(Part(S))
  BY <1>1, <1>2
<1>4. Cardinality(Part(S)) <= Cardinality(W) /\ Cardinality(Part(S)) \in Nat /\ Cardinality(W) \in Nat
  <2> HIDE DEF Part
  <2> QED BY <1>0, FS_Subset, FS_CardinalityType
<1> QED BY <1>3, <1>4, SumType

-----------------------------------------------------------------------------
(* The ledger.  Every snapshot in the store, or in the hands of a capture,   *)
(* accounts for the book: a leg that is shorter than it shows was opened or  *)
(* enlarged since.  And a record that a trade has used is gone from the      *)
(* store and from every document on its way there.                           *)

\* Leg l was opened or enlarged after trade from, and by trade to; it was opened.
Grew(l, from, to) == \E g \in growths : g.leg = l /\ from < g.at /\ g.at <= to
BecameShort(l, from, to) ==
  \E g \in growths : g.leg = l /\ g.fresh /\ from < g.at /\ g.at <= to

\* The short legs of book b, as of trade n, that snapshot s does not explain
\* have grown since, and those that were not short in it have been opened.
Accounts(s, b, n) ==
  /\ s.at <= n
  /\ \/ s.blind
     \/ \A l \in Legs : b[l] < 0 =>
          /\ L!Abs(b[l]) > L!Abs(s.legs[l]) => Grew(l, s.at, n)
          /\ s.legs[l] >= 0 => BecameShort(l, s.at, n)

\* Every snapshot of a store accounts for the later ones.
Chained(s) == \A d, e \in L!Taken(s) : d < e => Accounts(s[d], s[e].legs, s[e].at)

\* A record of a leg that has grown between the two snapshots compared.
Justified(e) == e.prior.blind \/ Grew(e.leg, e.prior.at, e.at)

Store == [L!Days -> L!Snapshot \union {None}]
Request ==
  [pc: {"idle", "loaded", "opened", "priced", "captured", "consumed", "removed",
        "logged", "dumping"},
   day: L!Days, snap: L!Snapshot \union {None}, snaps: Store, new: SUBSET Legs,
   doc: SUBSET L!Entry, out: Seq(L!Outcome), log: L!Outcome \union {None}]

LedgerTypes ==
  /\ day \in L!Days /\ held \in L!Book
  /\ snaps \in Store
  /\ entries \subseteq SUBSET L!Entry /\ (entries = {} \/ \E doc : entries = {doc})
  /\ outcomes \subseteq Seq(L!Outcome) /\ (outcomes = {} \/ \E doc : outcomes = {doc})
  /\ requesting \in [Threads -> Request]
  /\ growths \subseteq L!Growth /\ IsFiniteSet(growths)
  /\ captures \in Nat /\ trades \in 0 .. MaxTrades

\* What a request holds, by its step.
Held(c) ==
  /\ c.pc \in {"loaded", "opened"} =>
       /\ c.snap \in L!Snapshot
       /\ \A d \in L!Taken(c.snaps) : Accounts(c.snaps[d], c.snap.legs, c.snap.at)
  /\ c.pc = "loaded" =>
       /\ c.day <= day /\ L!Taken(c.snaps) \subseteq 0 .. c.day
       /\ Chained(c.snaps)
       /\ Accounts(c.snap, held, trades)
       /\ \A d \in L!Taken(c.snaps) : Accounts(c.snaps[d], held, trades)
  /\ c.pc = "opened" => c.new = L!NewShort(c)
  /\ c.pc \in {"logged", "consumed", "removed"} => c.log \in L!Outcome
  /\ \A e \in c.doc : Justified(e)

AccountsInv ==
  /\ \A t \in Threads : Held(requesting[t])
  /\ L!Taken(snaps) \subseteq 0 .. day
  /\ Chained(snaps)
  /\ \A d \in L!Taken(snaps) : Accounts(snaps[d], held, trades)
  /\ \A e \in UNION entries : Justified(e)

\* Record e has an old number, and no closed trade of document d has used it.
Unused(e, d) == \A i \in DOMAIN d : d[i].entry # e
Old(e) == e.id <= captures

\* The records that the trades of document d have used are old, differ, and are
\* no longer in the store.
UsedOnce(d) ==
  \A i \in DOMAIN d : d[i].entry # None =>
    /\ Old(d[i].entry) /\ d[i].entry \notin UNION entries
    /\ \A j \in DOMAIN d : d[i].entry = d[j].entry => i = j

\* What a request without others carries to the store and to the outcomes.
Carried(c) ==
  /\ c.pc \in {"priced", "captured", "consumed", "removed"} =>
       \A e \in c.doc : Old(e) /\ \A d \in outcomes : Unused(e, d)
  /\ c.pc \in {"consumed", "removed", "logged"} /\ c.log.entry # None =>
       Old(c.log.entry) /\ \A d \in outcomes : Unused(c.log.entry, d)
  /\ c.pc \in {"consumed", "removed"} => c.log.entry \notin c.doc
  /\ c.pc = "logged" => c.log.entry \notin UNION entries
  /\ c.pc = "dumping" => UsedOnce(c.out)

RecordsInv ==
  ~overlapped =>
    /\ \A t, u \in Threads :
         requesting[t].pc # "idle" /\ requesting[u].pc # "idle" => t = u
    /\ \A e \in UNION entries : Old(e)
    /\ \A d \in outcomes : UsedOnce(d)
    /\ \A t \in Threads : Carried(requesting[t])

LedgerInv == LedgerTypes /\ AccountsInv /\ RecordsInv

LEMMA LedgerFacts ==
  /\ L!NoSnaps \in Store /\ L!NoRequest \in Request /\ L!NoLegs \in L!Book
  /\ 0 \in L!Days /\ MaxTrades \in Nat /\ MaxDay \in Nat /\ IsFiniteSet(Legs)
  /\ FirstBooks \subseteq L!Book
  /\ \A b \in L!Book : \A l \in Legs : b[l] \in Int
<1> USE StoresAssumption DEF L!LedgerAssumption
<1>1. MaxTrades \in Nat /\ MaxDay \in Nat /\ FirstBooks \subseteq L!Book
  OBVIOUS
<1>a. IsFiniteSet(Legs)
  BY DEF L!IsFiniteSet, IsFiniteSet
<1>2. 0 \in L!Days
  BY <1>1 DEF L!Days
<1>3. L!NoLegs \in L!Book
  BY DEF L!NoLegs, L!Book
<1>4. \A b \in L!Book : \A l \in Legs : b[l] \in Int
  BY DEF L!Book
<1>5. L!NoSnaps \in Store
  BY DEF L!NoSnaps, Store
<1>6. L!NoRequest \in Request
  BY <1>2, <1>5 DEF L!NoRequest, Request
<1> QED BY <1>1, <1>2, <1>3, <1>4, <1>5, <1>6, <1>a

LEMMA DaysFinite == \A D \in SUBSET L!Days : IsFiniteSet(D) /\ D \subseteq Nat
<1>1. MaxDay \in Nat
  BY LedgerFacts
<1>2. IsFiniteSet(0 .. MaxDay)
  BY <1>1, FS_Interval
<1>3. L!Days = 0 .. MaxDay /\ 0 .. MaxDay \subseteq Nat
  BY <1>1 DEF L!Days
<1> QED BY <1>2, <1>3, FS_Subset

\* A request that has found newly opened legs compared with a snapshot.
LEMMA PriorTaken ==
  ASSUME NEW c \in Request, L!NewShort(c) # {}
  PROVE  /\ L!Prior(c) \in L!Snapshot
         /\ \E d \in L!Taken(c.snaps) : L!Prior(c) = c.snaps[d]
         /\ L!NewShort(c) = L!Opened(L!Prior(c).legs, c.snap.legs) \intersect L!Short(c.snap.legs)
<1>1. /\ L!Prior(c) # None
      /\ L!NewShort(c) = L!Opened(L!Prior(c).legs, c.snap.legs) \intersect L!Short(c.snap.legs)
  BY DEF L!NewShort
<1>2. PICK others : others = L!Taken(c.snaps) \ {c.day}
  OBVIOUS
<1>3. others # {} /\ L!Prior(c) = c.snaps[L!Max(others)]
  BY <1>1, <1>2 DEF L!Prior
<1>4. L!Max(others) \in others
  BY <1>2, <1>3, DaysFinite, ExtremesExist DEF L!Taken
<1>5. c.snaps \in Store
  BY DEF Request
<1> QED BY <1>1, <1>2, <1>3, <1>4, <1>5 DEF L!Taken, Store

\* What a call computes keeps its type.
LEMMA RequestTypes ==
  ASSUME NEW c \in Request
  PROVE  /\ L!Pruned([c.snaps EXCEPT ![c.day] = c.snap]) \in Store
         /\ L!NewShort(c) \in SUBSET Legs
         /\ \A pc \in {"priced", "captured", "consumed", "removed", "logged", "dumping"} :
              [c EXCEPT !.pc = pc] \in Request
<1>1. [c.snaps EXCEPT ![c.day] = c.snap] \in Store
  BY DEF Request, Store
<1>2. L!Pruned([c.snaps EXCEPT ![c.day] = c.snap]) \in Store
  BY <1>1 DEF L!Pruned, Store
<1>3. L!NewShort(c) \in SUBSET Legs
  BY DEF L!NewShort, L!Opened
<1>4. \A pc \in {"priced", "captured", "consumed", "removed", "logged", "dumping"} :
        [c EXCEPT !.pc = pc] \in Request
  BY DEF Request
<1> QED BY <1>2, <1>3, <1>4

LEMMA TickersAreLegs == L!Underlyings \subseteq Legs
<1>1. \A k \in Legs : k \in L!TickerLegs(k)
  BY StoresAssumption DEF L!LedgerAssumption, L!TickerLegs
<1>2. \A k \in Legs : (CHOOSE l \in L!TickerLegs(k) : TRUE) \in L!TickerLegs(k)
  BY <1>1
<1>3. \A k \in Legs : L!TickerLegs(k) \subseteq Legs
  BY DEF L!TickerLegs
<1> QED BY <1>2, <1>3 DEF L!Underlyings

\* What EntriesLoad makes of the records that a capture has read.
LEMMA EntriesLoadAdds ==
  ASSUME LedgerTypes, NEW t \in Threads, Held(requesting[t]), L!EntriesLoad(t)
  PROVE  \/ requesting' = [requesting EXCEPT ![t] = L!NoRequest] /\ captures' = captures
         \/ \E c \in Request :
              /\ requesting' = [requesting EXCEPT ![t] = c]
              /\ c.pc = "priced" /\ captures' \in Nat /\ captures <= captures'
              /\ \A e \in c.doc :
                   \/ e \in UNION entries
                   \/ /\ captures < e.id /\ e.id <= captures'
                      /\ e.leg \in L!NewShort(requesting[t])
                      /\ e.prior = L!Prior(requesting[t]) /\ e.at = requesting[t].snap.at
<1> USE DEF LedgerTypes
<1>c. PICK c \in Request : c = requesting[t]
  OBVIOUS
<1>1. PICK doc, missing : doc = UNION entries /\ missing = c.new \ L!Recorded(doc)
  OBVIOUS
<1>2. /\ missing \subseteq c.new /\ missing \subseteq Legs /\ doc \subseteq L!Entry
      /\ Cardinality(missing) \in Nat
  <2>1. missing \subseteq c.new /\ missing \subseteq Legs /\ doc \subseteq L!Entry
    BY <1>1 DEF Request
  <2> QED BY <2>1, LedgerFacts, FS_Subset, FS_CardinalityType
<1>3. CASE missing = {}
  BY <1>c, <1>1, <1>3 DEF L!EntriesLoad
<1>4. CASE missing # {}
  <2>1. captures' = captures + Cardinality(missing)
    BY <1>c, <1>1, <1>4 DEF L!EntriesLoad, L!Cardinality, Cardinality
  <2>2. captures' \in Nat /\ captures <= captures'
    BY <1>2, <2>1
  <2>3. PICK id \in [missing -> (captures + 1) .. captures'] :
          requesting' = [requesting EXCEPT ![t] =
            [c EXCEPT !.pc = "priced", !.doc = doc \union L!NewRecords(c, id)]]
    BY <1>c, <1>1, <1>4 DEF L!EntriesLoad
  <2>4. c.pc = "opened" /\ c.new = L!NewShort(c)
    BY <1>c DEF L!EntriesLoad, Held
  <2>5. L!NewShort(c) # {} /\ c.snap \in L!Snapshot
    BY <1>c, <1>2, <1>4, <2>4 DEF Held
  <2>6. L!Prior(c) \in L!Snapshot /\ c.snap.at \in 0 .. MaxTrades
    BY <2>5, PriorTaken DEF L!Snapshot
  <2>7. \A l \in missing : /\ l \in Legs /\ l \in L!NewShort(c) /\ c.day \in L!Days
                           /\ id[l] \in Nat /\ captures < id[l] /\ id[l] <= captures'
    BY <1>2, <2>2, <2>3, <2>4 DEF Request
  <2>8. \A e \in L!NewRecords(c, id) :
          /\ e \in L!Entry /\ captures < e.id /\ e.id <= captures'
          /\ e.leg \in L!NewShort(c) /\ e.prior = L!Prior(c) /\ e.at = c.snap.at
    BY <2>3, <2>6, <2>7 DEF L!NewRecords, L!Entry
  <2>9. PICK r : r = [c EXCEPT !.pc = "priced", !.doc = doc \union L!NewRecords(c, id)]
    OBVIOUS
  <2>10. r \in Request /\ r.pc = "priced" /\ r.doc = doc \union L!NewRecords(c, id)
    <3>1. doc \union L!NewRecords(c, id) \in SUBSET L!Entry
      BY <1>2, <2>8
    <3> QED BY <2>9, <3>1 DEF Request
  <2>11. requesting' = [requesting EXCEPT ![t] = r]
    BY <2>3, <2>9
  <2> QED BY <1>c, <1>1, <2>2, <2>8, <2>10, <2>11
<1> QED BY <1>3, <1>4

\* What a request to log a closed trade takes from the store.
LEMMA LogTradeOutcomeTakes ==
  ASSUME LedgerTypes, NEW t \in Threads, L!LogTradeOutcome(t)
  PROVE  \E c \in Request :
           /\ requesting' = [requesting EXCEPT ![t] = c]
           /\ c.log \in L!Outcome
           /\ \/ c.pc = "logged" /\ c.log.entry = None /\ c.doc = {}
              \/ /\ c.pc = "consumed" /\ c.log.entry \in UNION entries
                 /\ c.doc = (UNION entries) \ {c.log.entry}
<1> USE DEF LedgerTypes
<1>1. PICK l \in L!Underlyings :
        \/ requesting' = [requesting EXCEPT ![t] =
             [L!NoRequest EXCEPT !.pc = "logged", !.log = [ticker |-> l, entry |-> None]]]
        \/ \E e \in UNION entries :
             requesting' = [requesting EXCEPT ![t] =
               [L!NoRequest EXCEPT !.pc = "consumed", !.doc = (UNION entries) \ {e},
                              !.log = [[ticker |-> l, entry |-> None] EXCEPT !.entry = e]]]
  BY DEF L!LogTradeOutcome
<1>2. PICK log : log = [ticker |-> l, entry |-> None]
  OBVIOUS
<1>3. \A e \in L!Entry \union {None} :
        [log EXCEPT !.entry = e] \in L!Outcome /\ [log EXCEPT !.entry = e].entry = e
  BY <1>2, TickersAreLegs DEF L!Outcome
<1>4. log \in L!Outcome /\ log.entry = None
  BY <1>2, TickersAreLegs DEF L!Outcome
<1>5. \A o \in L!Outcome, d \in SUBSET L!Entry :
        /\ [L!NoRequest EXCEPT !.pc = "logged", !.log = o] \in Request
        /\ [L!NoRequest EXCEPT !.pc = "consumed", !.doc = d, !.log = o] \in Request
  BY LedgerFacts DEF Request, L!NoRequest
<1>6. CASE requesting' = [requesting EXCEPT ![t] = [L!NoRequest EXCEPT !.pc = "logged", !.log = log]]
  <2>1. PICK c : c = [L!NoRequest EXCEPT !.pc = "logged", !.log = log]
    OBVIOUS
  <2>2. c \in Request /\ c.log = log /\ c.pc = "logged" /\ c.doc = {}
    BY <1>4, <1>5, <2>1 DEF L!NoRequest
  <2> QED BY <1>4, <1>6, <2>1, <2>2
<1>7. ASSUME NEW e \in UNION entries,
             requesting' = [requesting EXCEPT ![t] =
               [L!NoRequest EXCEPT !.pc = "consumed", !.doc = (UNION entries) \ {e},
                              !.log = [log EXCEPT !.entry = e]]]
      PROVE  \E c \in Request :
               /\ requesting' = [requesting EXCEPT ![t] = c]
               /\ c.log \in L!Outcome
               /\ c.pc = "consumed" /\ c.log.entry \in UNION entries
               /\ c.doc = (UNION entries) \ {c.log.entry}
  <2>1. e \in L!Entry /\ (UNION entries) \ {e} \in SUBSET L!Entry
    OBVIOUS
  <2>2. PICK o \in L!Outcome : o = [log EXCEPT !.entry = e] /\ o.entry = e
    BY <1>3, <2>1
  <2>3. PICK c : c = [L!NoRequest EXCEPT !.pc = "consumed", !.doc = (UNION entries) \ {e}, !.log = o]
    OBVIOUS
  <2>4. c \in Request /\ c.log = o /\ c.pc = "consumed" /\ c.doc = (UNION entries) \ {e}
    BY <1>5, <2>1, <2>3 DEF L!NoRequest
  <2> QED BY ZenonT(30), <1>7, <2>2, <2>3, <2>4
<1> QED BY <1>1, <1>2, <1>6, <1>7

LEMMA LedgerTypesStep ==
  ASSUME LedgerTypes, \A t \in Threads : Held(requesting[t]), L!Next
  PROVE  LedgerTypes'
<1> USE DEF LedgerTypes, L!ledger, L!history, L!vars
<1>1. CASE L!Trade
  <2>0. PICK l \in Legs : \E q \in Qtys[l] :
          /\ held' = [held EXCEPT ![l] = q]
          /\ growths' \subseteq growths \union
               {[leg |-> l, at |-> trades', fresh |-> held[l] >= 0 /\ q < 0]}
    BY <1>1 DEF L!Trade
  <2>1. PICK q \in Qtys[l] :
          /\ held' = [held EXCEPT ![l] = q]
          /\ growths' \subseteq growths \union
               {[leg |-> l, at |-> trades', fresh |-> held[l] >= 0 /\ q < 0]}
    BY <2>0
  <2>2. held' \in L!Book
    BY <2>1 DEF L!Book
  <2>3. trades' \in 1 .. MaxTrades /\ trades' \in 0 .. MaxTrades
    BY <1>1, LedgerFacts DEF L!Trade
  <2>4. PICK fresh \in BOOLEAN :
          growths' \subseteq growths \union {[leg |-> l, at |-> trades', fresh |-> fresh]}
    BY <2>1
  <2>5. [leg |-> l, at |-> trades', fresh |-> fresh] \in L!Growth
    BY <2>3 DEF L!Growth
  <2>6. growths' \subseteq L!Growth /\ IsFiniteSet(growths')
    <3>1. IsFiniteSet(growths \union {[leg |-> l, at |-> trades', fresh |-> fresh]})
      BY FS_AddElement
    <3> QED BY <2>4, <2>5, <3>1, FS_Subset
  <2> QED BY <1>1, <2>2, <2>3, <2>6 DEF L!Trade
<1>2. CASE L!Midnight
  <2>1. day' \in L!Days
    BY <1>2, LedgerFacts DEF L!Midnight, L!Days
  <2> QED BY <1>2, <2>1 DEF L!Midnight
<1>3. CASE L!Aborts
  <2>1. requesting' \in [Threads -> Request]
    BY <1>3, LedgerFacts DEF L!Aborts
  <2> QED BY <1>3, <2>1 DEF L!Aborts
<1>4. ASSUME NEW t \in Threads, L!Handle(t)
      PROVE  LedgerTypes'
  <2>c. PICK c \in Request : c = requesting[t]
    OBVIOUS
  <2>h. Held(c)
    BY <2>c
  <2>1. CASE L!CaptureLoad(t)
    <3>1. PICK unreadable \in BOOLEAN :
            requesting' = [requesting EXCEPT ![t] =
              [L!NoRequest EXCEPT !.pc = "loaded", !.day = day, !.snaps = snaps,
                 !.snap = [legs |-> IF unreadable THEN L!NoLegs ELSE held,
                           at |-> trades, blind |-> unreadable]]]
      BY <2>1 DEF L!CaptureLoad
    <3>2. [legs |-> IF unreadable THEN L!NoLegs ELSE held,
           at |-> trades, blind |-> unreadable] \in L!Snapshot
      BY LedgerFacts DEF L!Snapshot
    <3>3. \A s \in L!Snapshot :
            [L!NoRequest EXCEPT !.pc = "loaded", !.day = day, !.snaps = snaps, !.snap = s] \in Request
      BY LedgerFacts DEF Request, L!NoRequest
    <3>4. requesting' \in [Threads -> Request]
      BY <3>1, <3>2, <3>3
    <3> QED BY <2>1, <3>4 DEF L!CaptureLoad
  <2>2. CASE L!CaptureRefused(t)
    BY <2>2, LedgerFacts DEF L!CaptureRefused
  <2>3. CASE L!CaptureSave(t)
    <3>1. [c EXCEPT !.pc = "opened", !.new = L!NewShort(c)] \in Request
      BY ZenonT(30), RequestTypes DEF Request
    <3>2. requesting' \in [Threads -> Request]
      BY <2>3, <2>c, <3>1, LedgerFacts DEF L!CaptureSave
    <3>3. snaps' \in Store
      BY <2>3, <2>c, RequestTypes DEF L!CaptureSave
    <3> QED BY <2>3, <3>2, <3>3 DEF L!CaptureSave
  <2>4. CASE L!EntriesLoad(t)
    <3>1. requesting' \in [Threads -> Request] /\ captures' \in Nat
      BY <2>4, <2>c, <2>h, EntriesLoadAdds, LedgerFacts
    <3> QED BY <2>4, <3>1 DEF L!EntriesLoad
  <2>5. CASE L!LogTradeOutcome(t)
    <3>1. requesting' \in [Threads -> Request]
      BY <2>5, LogTradeOutcomeTakes
    <3> QED BY <2>5, <3>1 DEF L!LogTradeOutcome
  <2>6. CASE L!EntriesOpen(t)
    <3>1. requesting'[t] \in Request /\ requesting' = [requesting EXCEPT ![t] = requesting'[t]]
      <4>1. PICK pc \in {"captured", "removed"} :
              requesting' = [requesting EXCEPT ![t] = [c EXCEPT !.pc = pc]]
        BY <2>6, <2>c DEF L!EntriesOpen
      <4> QED BY <4>1, RequestTypes
    <3>2. requesting' \in [Threads -> Request]
      BY <3>1
    <3> QED BY <2>6, <3>2 DEF L!EntriesOpen
  <2>7. CASE L!EntriesFill(t)
    <3>1. [c EXCEPT !.pc = "logged"] \in Request
      BY RequestTypes
    <3>2. requesting' \in [Threads -> Request]
      BY <2>7, <2>c, <3>1, LedgerFacts DEF L!EntriesFill
    <3>3. (entries' = {c.doc} \/ entries' = {}) /\ c.doc \subseteq L!Entry
      BY <2>7, <2>c DEF L!EntriesFill, Request
    <3> QED BY <2>7, <3>2, <3>3 DEF L!EntriesFill
  <2>8. CASE L!OutcomesOpen(t)
    <3>1. PICK doc : doc = IF outcomes = {} THEN <<>> ELSE CHOOSE d \in outcomes : TRUE
      OBVIOUS
    <3>2. doc \in Seq(L!Outcome)
      BY <3>1
    <3>3. c.log \in L!Outcome
      BY <2>8, <2>c, <2>h DEF L!OutcomesOpen, Held
    <3>4. Append(doc, c.log) \in Seq(L!Outcome)
      BY <3>2, <3>3
    <3>5. requesting' = [requesting EXCEPT ![t] =
                           [c EXCEPT !.pc = "dumping", !.out = Append(doc, c.log)]]
      BY <2>8, <2>c, <3>1 DEF L!OutcomesOpen
    <3>6. [c EXCEPT !.pc = "dumping", !.out = Append(doc, c.log)] \in Request
      BY <3>4 DEF Request
    <3>7. requesting' \in [Threads -> Request]
      BY <3>5, <3>6
    <3> QED BY <2>8, <3>7 DEF L!OutcomesOpen
  <2>9. CASE L!OutcomesFill(t)
    <3>1. requesting' \in [Threads -> Request]
      BY <2>9, LedgerFacts DEF L!OutcomesFill
    <3>2. (outcomes' = {c.out} \/ outcomes' = {}) /\ c.out \in Seq(L!Outcome)
      BY <2>9, <2>c DEF L!OutcomesFill, Request
    <3> QED BY <2>9, <3>1, <3>2 DEF L!OutcomesFill
  <2> QED BY <1>4, <2>1, <2>2, <2>3, <2>4, <2>5, <2>6, <2>7, <2>8, <2>9 DEF L!Handle
<1> QED BY <1>1, <1>2, <1>3, <1>4 DEF L!Next

\* What is accounted for stays so when trades are added to the history.
LEMMA AccountsKept ==
  ASSUME growths \subseteq growths'
  PROVE  /\ \A l, from, to : Grew(l, from, to) => Grew(l, from, to)'
         /\ \A s, b, n : Accounts(s, b, n) => Accounts(s, b, n)'
         /\ \A s : Chained(s) => Chained(s)'
         /\ \A e : Justified(e) => Justified(e)'
<1>1. \A l, from, to : Grew(l, from, to) => Grew(l, from, to)'
  BY DEF Grew
<1>2. \A l, from, to : BecameShort(l, from, to) => BecameShort(l, from, to)'
  BY DEF BecameShort
<1>3. \A s, b, n : Accounts(s, b, n) => Accounts(s, b, n)'
  BY <1>1, <1>2 DEF Accounts
<1>4. \A s : Chained(s) => Chained(s)'
  BY <1>3 DEF Chained
<1>5. \A e : Justified(e) => Justified(e)'
  BY <1>1 DEF Justified
<1> QED BY <1>1, <1>3, <1>4, <1>5

\* A trade leaves what accounted for the book accounting for it.
LEMMA TradeAccountedFor ==
  ASSUME LedgerTypes, L!Trade, NEW s \in L!Snapshot, Accounts(s, held, trades)
  PROVE  /\ s.at <= trades'
         /\ \/ s.blind
            \/ \A k \in Legs : held'[k] < 0 =>
                 /\ L!Abs(held'[k]) > L!Abs(s.legs[k]) =>
                      \E g \in growths' : g.leg = k /\ s.at < g.at /\ g.at <= trades'
                 /\ s.legs[k] >= 0 =>
                      \E g \in growths' : g.leg = k /\ g.fresh /\ s.at < g.at /\ g.at <= trades'
<1> USE DEF LedgerTypes
<1>1. PICK l \in Legs : \E q \in Qtys[l] :
        /\ held' = [held EXCEPT ![l] = q]
        /\ growths' = growths \union
             (IF (q < 0 /\ L!Abs(q) > L!Abs(held[l])) \/ (held[l] >= 0 /\ q < 0)
              THEN {[leg |-> l, at |-> trades', fresh |-> held[l] >= 0 /\ q < 0]} ELSE {})
  BY DEF L!Trade
<1>2. PICK q \in Qtys[l] :
        /\ held' = [held EXCEPT ![l] = q]
        /\ growths' = growths \union
             (IF (q < 0 /\ L!Abs(q) > L!Abs(held[l])) \/ (held[l] >= 0 /\ q < 0)
              THEN {[leg |-> l, at |-> trades', fresh |-> held[l] >= 0 /\ q < 0]} ELSE {})
  BY <1>1
<1>3. trades' = trades + 1 /\ trades \in Nat /\ s.at <= trades /\ s.at \in Nat
  BY LedgerFacts DEF L!Trade, Accounts, L!Snapshot
<1>4. growths \subseteq growths'
  BY <1>2
<1>5. q \in Int /\ held[l] \in Int /\ held'[l] = q /\ s.legs[l] \in Int
        /\ \A k \in Legs : k # l => held'[k] = held[k]
  BY <1>2, LedgerFacts, StoresAssumption DEF L!LedgerAssumption, L!Book, L!Snapshot
<1>6. \A g \in growths : g \in growths' /\ (g.at <= trades => g.at <= trades')
  BY <1>3, <1>4, LedgerFacts DEF L!Growth
<1>7. ASSUME (q < 0 /\ L!Abs(q) > L!Abs(held[l])) \/ (held[l] >= 0 /\ q < 0)
      PROVE  \E g \in growths' : /\ g.leg = l /\ s.at < g.at /\ g.at <= trades'
                                 /\ held[l] >= 0 => g.fresh
  <2>1. PICK g : /\ g = [leg |-> l, at |-> trades', fresh |-> held[l] >= 0 /\ q < 0]
                 /\ g \in growths'
    BY <1>2, <1>7
  <2>2. g.leg = l /\ g.at = trades'
    BY <2>1
  <2>3. held[l] >= 0 => g.fresh
    <3>1. q < 0
      BY <1>7
    <3> QED BY <2>1, <3>1
  <2> QED BY <1>3, <2>1, <2>2, <2>3
<1>8. ASSUME ~s.blind, NEW k \in Legs, held'[k] < 0, L!Abs(held'[k]) > L!Abs(s.legs[k])
      PROVE  \E g \in growths' : g.leg = k /\ s.at < g.at /\ g.at <= trades'
  <2>1. CASE held[k] < 0 /\ L!Abs(held[k]) > L!Abs(s.legs[k])
    BY <1>6, <1>8, <2>1 DEF Accounts, Grew
  <2>2. CASE ~(held[k] < 0 /\ L!Abs(held[k]) > L!Abs(s.legs[k]))
    <3>1. k = l
      BY <1>5, <1>8, <2>2
    <3>2. q < 0 /\ L!Abs(q) > L!Abs(s.legs[l])
            /\ ~(held[l] < 0 /\ L!Abs(held[l]) > L!Abs(s.legs[l]))
      BY <1>5, <1>8, <2>2, <3>1
    <3>3. q \in Int /\ held[l] \in Int /\ s.legs[l] \in Int
      BY <1>5
    <3>4. (q < 0 /\ L!Abs(q) > L!Abs(held[l])) \/ (held[l] >= 0 /\ q < 0)
      BY <3>2, <3>3 DEF L!Abs
    <3> QED BY <1>7, <3>1, <3>4
  <2> QED BY <2>1, <2>2
<1>9. ASSUME ~s.blind, NEW k \in Legs, held'[k] < 0, s.legs[k] >= 0
      PROVE  \E g \in growths' : g.leg = k /\ g.fresh /\ s.at < g.at /\ g.at <= trades'
  <2>1. CASE held[k] < 0
    BY <1>6, <1>9, <2>1 DEF Accounts, BecameShort
  <2>2. CASE ~(held[k] < 0)
    <3>1. k = l
      BY <1>5, <1>9, <2>2
    <3>2. held[l] >= 0 /\ q < 0
      BY <1>5, <1>9, <2>2, <3>1
    <3> QED BY <1>7, <3>1, <3>2
  <2> QED BY <2>1, <2>2
<1> QED BY <1>3, <1>8, <1>9

LEMMA AccountsStep ==
  ASSUME LedgerTypes, AccountsInv, L!Next
  PROVE  AccountsInv'
<1> USE DEF LedgerTypes, AccountsInv, L!ledger, L!history, L!vars
<1>0. /\ Held(L!NoRequest) /\ Held(L!NoRequest)'
      /\ \A s \in Store : \A d \in L!Taken(s) : s[d] \in L!Snapshot
  BY DEF Held, L!NoRequest, Store, L!Taken
<1>1. CASE L!Trade
  <2>1. /\ UNCHANGED <<day, snaps, entries, requesting>>
        /\ growths \subseteq growths'
    BY <1>1 DEF L!Trade
  <2>2. \A s \in L!Snapshot : Accounts(s, held, trades) => Accounts(s, held, trades)'
    BY <1>1, TradeAccountedFor DEF Accounts, Grew, BecameShort
  <2>3. \A d \in L!Taken(snaps') : Accounts(snaps[d], held, trades)'
    BY <1>0, <2>1, <2>2
  <2>4. \A e \in UNION entries' : Justified(e)'
    BY <2>1, AccountsKept
  <2>5. ASSUME NEW t \in Threads, NEW c \in Request, c = requesting[t]
        PROVE  Held(c)'
    <3>1. Held(c)
      BY <2>5
    <3>2. c.pc \in {"loaded", "opened"} =>
            \A d \in L!Taken(c.snaps) : Accounts(c.snaps[d], c.snap.legs, c.snap.at)'
      BY <2>1, <3>1, AccountsKept DEF Held
    <3>3. c.pc = "loaded" =>
            /\ c.day <= day' /\ L!Taken(c.snaps) \subseteq 0 .. c.day
            /\ Chained(c.snaps)'
            /\ Accounts(c.snap, held, trades)'
            /\ \A d \in L!Taken(c.snaps) : Accounts(c.snaps[d], held, trades)'
      BY <1>0, <2>1, <2>2, <3>1, AccountsKept DEF Held, Request
    <3>4. \A e \in c.doc : Justified(e)'
      BY <2>1, <3>1, AccountsKept DEF Held
    <3> QED BY <3>1, <3>2, <3>3, <3>4 DEF Held
  <2>6. L!Taken(snaps') \subseteq 0 .. day' /\ Chained(snaps)'
    BY <2>1, AccountsKept
  <2> QED BY <2>1, <2>3, <2>4, <2>5, <2>6
<1>2. CASE L!Midnight
  <2>1. /\ UNCHANGED <<held, growths, trades, snaps, entries, requesting>>
        /\ day' = day + 1 /\ day \in Nat
    BY <1>2, LedgerFacts DEF L!Midnight, L!Days
  <2>2. /\ \A s, b, n : Accounts(s, b, n)' <=> Accounts(s, b, n)
        /\ \A s : Chained(s)' <=> Chained(s)
        /\ \A s : Accounts(s, held, trades)' <=> Accounts(s, held, trades)
        /\ \A e : Justified(e)' <=> Justified(e)
    BY <2>1 DEF Chained, Accounts, Justified, Grew, BecameShort
  <2>3. \A c \in Request : c.day \in Nat /\ (c.day <= day => c.day <= day')
    BY <2>1, LedgerFacts DEF Request, L!Days
  <2>4. \A c \in Request : Held(c) => Held(c)'
    BY <2>2, <2>3 DEF Held
  <2>5. 0 .. day \subseteq 0 .. day'
    BY <2>1
  <2>6. \A t \in Threads : Held(requesting[t])'
    BY <2>1, <2>4
  <2> QED BY <2>1, <2>2, <2>5, <2>6
<1>3. ASSUME UNCHANGED <<day, held, growths, trades>>
      PROVE  /\ \A c : Held(c)' <=> Held(c)
             /\ \A s : Chained(s)' <=> Chained(s)
             /\ \A s : Accounts(s, held, trades)' <=> Accounts(s, held, trades)
             /\ \A e : Justified(e)' <=> Justified(e)
  BY <1>3 DEF Held, Chained, Accounts, Justified, Grew, BecameShort
<1>4. CASE L!Aborts
  <2>1. UNCHANGED <<day, held, growths, trades, snaps, entries>>
    BY <1>4 DEF L!Aborts
  <2>2. \A t \in Threads : requesting'[t] \in {requesting[t], L!NoRequest}
    BY <1>4 DEF L!Aborts
  <2> QED BY <1>0, <1>3, <2>1, <2>2
<1>5. ASSUME NEW t \in Threads, L!Handle(t)
      PROVE  AccountsInv'
  <2>c. PICK c \in Request : c = requesting[t]
    OBVIOUS
  <2>h. Held(c)
    BY <2>c
  <2>u. UNCHANGED <<day, held, growths, trades>>
    BY <1>5 DEF L!Handle, L!history, L!CaptureLoad, L!CaptureRefused, L!CaptureSave, L!EntriesLoad,
      L!LogTradeOutcome, L!EntriesOpen, L!EntriesFill, L!OutcomesOpen, L!OutcomesFill
  <2>1. CASE L!CaptureLoad(t)
    <3>1. PICK unreadable \in BOOLEAN :
            requesting' = [requesting EXCEPT ![t] =
              [L!NoRequest EXCEPT !.pc = "loaded", !.day = day, !.snaps = snaps,
                 !.snap = [legs |-> IF unreadable THEN L!NoLegs ELSE held,
                           at |-> trades, blind |-> unreadable]]]
      BY <2>1 DEF L!CaptureLoad
    <3>2. PICK s : s = [legs |-> IF unreadable THEN L!NoLegs ELSE held,
                        at |-> trades, blind |-> unreadable]
      OBVIOUS
    <3>3. s \in L!Snapshot /\ s.at = trades /\ s.blind = unreadable
      BY <3>2, LedgerFacts DEF L!Snapshot
    <3>4. \A l \in Legs : held[l] \in Int /\ s.legs[l] = IF unreadable THEN 0 ELSE held[l]
      BY <3>2, LedgerFacts DEF L!NoLegs
    <3>5. Accounts(s, held, trades)
      BY <3>3, <3>4, LedgerFacts DEF Accounts, L!Abs
    <3>c. Chained(snaps) /\ L!Taken(snaps) \subseteq 0 .. day /\ day <= day
      BY LedgerFacts DEF L!Days
    <3>6. \A d \in L!Taken(snaps) : Accounts(snaps[d], s.legs, s.at)
      BY <3>3, <3>4 DEF Accounts
    <3>7. Held([L!NoRequest EXCEPT !.pc = "loaded", !.day = day, !.snaps = snaps, !.snap = s])
      BY <3>3, <3>5, <3>6, <3>c DEF Held, L!NoRequest
    <3>8. \A u \in Threads : Held(requesting'[u])
      BY <3>1, <3>2, <3>7
    <3> QED BY <1>3, <2>1, <2>u, <3>8 DEF L!CaptureLoad
  <2>2. CASE L!CaptureRefused(t)
    <3>1. L!Taken(snaps') = {}
      BY <2>2 DEF L!CaptureRefused, L!Taken, L!NoSnaps
    <3>2. Chained(snaps')
      BY <3>1 DEF Chained
    <3> QED BY <1>3, <2>2, <2>u, <3>1, <3>2 DEF L!CaptureRefused
  <2>3. CASE L!CaptureSave(t)
    <3>1. \A d \in L!Taken(snaps') :
            \/ d = c.day /\ snaps'[d] = c.snap
            \/ d # c.day /\ d \in L!Taken(c.snaps) /\ snaps'[d] = c.snaps[d]
      BY <2>3, <2>c DEF L!CaptureSave, L!Pruned, L!Taken, Store, Request
    <3>2. \A d \in L!Taken(snaps') : Accounts(snaps'[d], held, trades)
      BY <2>3, <2>c, <2>h, <3>1 DEF L!CaptureSave, Held
    <3>a. c.pc = "loaded" /\ c.day \in Nat /\ day \in Nat /\ c.day <= day
            /\ L!Taken(c.snaps) \subseteq 0 .. c.day /\ Chained(c.snaps)
            /\ \A d \in L!Taken(c.snaps) : Accounts(c.snaps[d], c.snap.legs, c.snap.at)
      BY <2>3, <2>c, <2>h, LedgerFacts DEF L!CaptureSave, Held, Request, L!Days
    <3>b. L!Taken(snaps') \subseteq 0 .. day
      <4>1. c.day \in 0 .. day /\ 0 .. c.day \subseteq 0 .. day
        BY <3>a
      <4> QED BY <3>1, <3>a, <4>1
    <3>d. ASSUME NEW d \in L!Taken(snaps'), NEW e \in L!Taken(snaps'), d < e
          PROVE  Accounts(snaps'[d], snaps'[e].legs, snaps'[e].at)
      <4>1. d # c.day /\ d \in L!Taken(c.snaps) /\ snaps'[d] = c.snaps[d]
        <5>1. ASSUME d = c.day PROVE FALSE
          <6>1. e \in L!Taken(c.snaps)
            BY <3>1, <3>a, <3>d, <5>1
          <6>2. e \in 0 .. c.day
            BY <3>a, <6>1
          <6> QED BY <3>a, <3>d, <5>1, <6>2
        <5> QED BY <3>1, <5>1
      <4>2. CASE e = c.day
        BY <3>1, <3>a, <4>1, <4>2
      <4>3. CASE e # c.day
        BY <3>1, <3>a, <3>d, <4>1, <4>3 DEF Chained
      <4> QED BY <4>2, <4>3
    <3>e. Chained(snaps')
      BY <3>d DEF Chained
    <3>3. PICK e : e = [c EXCEPT !.pc = "opened", !.new = L!NewShort(c)]
      OBVIOUS
    <3>4. e.pc = "opened" /\ e.new = L!NewShort(e) /\ e.snap = c.snap /\ e.snaps = c.snaps
            /\ e.doc = c.doc
      BY <3>3 DEF L!NewShort, L!Prior, Request
    <3>5. Held(e)
      BY <2>3, <2>c, <2>h, <3>4 DEF L!CaptureSave, Held
    <3>6. \A u \in Threads : requesting'[u] \in {requesting[u], L!NoRequest, e}
      BY <2>3, <2>c, <3>3 DEF L!CaptureSave
    <3> QED BY <1>0, <1>3, <2>3, <2>u, <3>2, <3>5, <3>6, <3>b, <3>e DEF L!CaptureSave
  <2>4. CASE L!EntriesLoad(t)
    <3>1. CASE requesting' = [requesting EXCEPT ![t] = L!NoRequest]
      BY <1>0, <1>3, <2>4, <2>u, <3>1 DEF L!EntriesLoad
    <3>2. ASSUME NEW e \in Request,
                 /\ requesting' = [requesting EXCEPT ![t] = e]
                 /\ e.pc = "priced"
                 /\ \A r \in e.doc :
                      \/ r \in UNION entries
                      \/ /\ r.leg \in L!NewShort(c)
                         /\ r.prior = L!Prior(c) /\ r.at = c.snap.at
          PROVE  AccountsInv'
      <4>1. c.pc = "opened"
        BY <2>4, <2>c DEF L!EntriesLoad
      <4>2. ASSUME NEW r \in e.doc, r.leg \in L!NewShort(c), r.prior = L!Prior(c),
                   r.at = c.snap.at
            PROVE  Justified(r)
        <5>1. PICK d \in L!Taken(c.snaps) : L!Prior(c) = c.snaps[d]
          BY <4>2, PriorTaken
        <5>2. Accounts(L!Prior(c), c.snap.legs, c.snap.at)
          BY <2>h, <4>1, <5>1 DEF Held
        <5>3. /\ r.leg \in Legs /\ c.snap.legs[r.leg] < 0
              /\ L!Abs(c.snap.legs[r.leg]) > L!Abs(L!Prior(c).legs[r.leg])
          BY <4>2, PriorTaken DEF L!Opened, L!Short
        <5> QED BY <4>2, <5>2, <5>3 DEF Justified, Accounts
      <4>3. Held(e)
        BY <3>2, <4>2 DEF Held
      <4>4. \A u \in Threads : Held(requesting'[u])
        BY <3>2, <4>3
      <4> QED BY <1>3, <2>4, <2>u, <4>4 DEF L!EntriesLoad
    <3>3. \/ requesting' = [requesting EXCEPT ![t] = L!NoRequest]
          \/ \E e \in Request :
               /\ requesting' = [requesting EXCEPT ![t] = e]
               /\ e.pc = "priced"
               /\ \A r \in e.doc :
                    \/ r \in UNION entries
                    \/ /\ r.leg \in L!NewShort(requesting[t])
                       /\ r.prior = L!Prior(requesting[t]) /\ r.at = requesting[t].snap.at
      <4>1. Held(requesting[t])
        BY <2>c, <2>h
      <4> HIDE DEF LedgerTypes, AccountsInv
      <4> QED BY <2>4, <4>1, EntriesLoadAdds
    <3> QED BY <2>c, <3>1, <3>2, <3>3
  <2>5. CASE L!LogTradeOutcome(t)
    <3>1. PICK e \in Request :
            /\ requesting' = [requesting EXCEPT ![t] = e]
            /\ e.log \in L!Outcome /\ e.pc \in {"logged", "consumed"}
            /\ e.doc \subseteq UNION entries
      BY ZenonT(30), <2>5, LogTradeOutcomeTakes
    <3>2. Held(e)
      BY <3>1 DEF Held
    <3>3. \A u \in Threads : Held(requesting'[u])
      BY <3>1, <3>2
    <3> QED BY <1>3, <2>5, <2>u, <3>3 DEF L!LogTradeOutcome
  <2>6. CASE L!EntriesOpen(t)
    <3>1. PICK pc \in {"captured", "removed"} :
            /\ requesting' = [requesting EXCEPT ![t] = [c EXCEPT !.pc = pc]]
            /\ pc = "removed" => c.pc = "consumed"
      BY <2>6, <2>c DEF L!EntriesOpen
    <3>2. PICK e : e = [c EXCEPT !.pc = pc]
      OBVIOUS
    <3>3. e.pc = pc /\ e.doc = c.doc /\ e.log = c.log
      BY <3>2 DEF Request
    <3>4. Held(e)
      BY <2>h, <3>1, <3>3 DEF Held
    <3>5. \A u \in Threads : requesting'[u] \in {requesting[u], e}
      BY <3>1, <3>2
    <3> QED BY <1>3, <2>6, <2>u, <3>4, <3>5 DEF L!EntriesOpen
  <2>7. CASE L!EntriesFill(t)
    <3>1. PICK e : e = [c EXCEPT !.pc = "logged"]
      OBVIOUS
    <3>2. e.pc = "logged" /\ e.doc = c.doc /\ e.log = c.log
      BY <3>1 DEF Request
    <3>3. c.pc = "removed" => Held(e)
      BY <2>h, <3>2 DEF Held
    <3>4. \A u \in Threads : Held(requesting'[u])
      BY <1>0, <2>7, <2>c, <3>1, <3>3 DEF L!EntriesFill
    <3>5. entries' = {c.doc} \/ entries' = {}
      BY <2>7, <2>c DEF L!EntriesFill
    <3>6. \A e_1 \in UNION entries' : Justified(e_1)
      BY <2>h, <3>5 DEF Held
    <3> QED BY <1>3, <2>7, <2>u, <3>4, <3>6 DEF L!EntriesFill
  <2>8. CASE L!OutcomesOpen(t)
    <3>1. PICK doc : requesting' = [requesting EXCEPT ![t] =
                                      [c EXCEPT !.pc = "dumping", !.out = doc]]
      BY <2>8, <2>c DEF L!OutcomesOpen
    <3>2. PICK e : e = [c EXCEPT !.pc = "dumping", !.out = doc]
      OBVIOUS
    <3>3. e.pc = "dumping" /\ e.doc = c.doc
      BY <3>2 DEF Request
    <3>4. Held(e)
      BY <2>h, <3>3 DEF Held
    <3>5. \A u \in Threads : requesting'[u] \in {requesting[u], e}
      BY <3>1, <3>2
    <3> QED BY <1>3, <2>8, <2>u, <3>4, <3>5 DEF L!OutcomesOpen
  <2>9. CASE L!OutcomesFill(t)
    <3>1. \A u \in Threads : requesting'[u] \in {requesting[u], L!NoRequest}
      BY <2>9 DEF L!OutcomesFill
    <3> QED BY <1>0, <1>3, <2>9, <2>u, <3>1 DEF L!OutcomesFill
  <2> QED BY <1>5, <2>1, <2>2, <2>3, <2>4, <2>5, <2>6, <2>7, <2>8, <2>9 DEF L!Handle
<1> QED BY <1>1, <1>2, <1>4, <1>5 DEF L!Next

\* While a request runs alone, the others are idle; one that begins finds them so.
LEMMA RunsAlone ==
  ASSUME LedgerTypes, RecordsInv, NEW t \in Threads, L!Handle(t), ~overlapped'
  PROVE  /\ ~overlapped
         /\ \A u \in Threads : u # t => requesting[u].pc = "idle" /\ requesting'[u] = requesting[u]
<1> USE DEF LedgerTypes
<1>1. CASE L!CaptureLoad(t) \/ L!CaptureRefused(t) \/ L!LogTradeOutcome(t)
  <2>1. ~overlapped /\ \A u \in Threads : u # t => requesting[u].pc = "idle"
    BY <1>1 DEF L!CaptureLoad, L!CaptureRefused, L!LogTradeOutcome, L!Begins
  <2>2. \A u \in Threads : u # t => requesting'[u] = requesting[u]
    BY <1>1 DEF L!CaptureLoad, L!CaptureRefused, L!LogTradeOutcome
  <2> QED BY <2>1, <2>2
<1>2. CASE ~(L!CaptureLoad(t) \/ L!CaptureRefused(t) \/ L!LogTradeOutcome(t))
  <2>1. L!CaptureSave(t) \/ L!EntriesLoad(t) \/ L!EntriesOpen(t) \/ L!EntriesFill(t)
          \/ L!OutcomesOpen(t) \/ L!OutcomesFill(t)
    BY <1>2 DEF L!Handle
  <2>2. ~overlapped /\ requesting[t].pc # "idle"
    <3>1. overlapped' = overlapped
      BY <2>1 DEF L!CaptureSave, L!EntriesLoad, L!EntriesOpen, L!EntriesFill, L!OutcomesOpen,
        L!OutcomesFill, L!history
    <3>2. requesting[t].pc \in {"loaded", "opened", "priced", "consumed", "captured", "removed",
                               "logged", "dumping"}
      BY <2>1 DEF L!CaptureSave, L!EntriesLoad, L!EntriesOpen, L!EntriesFill, L!OutcomesOpen,
        L!OutcomesFill
    <3> QED BY <3>1, <3>2
  <2>3. \A u \in Threads : u # t => requesting[u].pc = "idle"
    BY <2>2 DEF RecordsInv
  <2>4. \A u \in Threads : u # t => requesting'[u] = requesting[u]
    BY <2>1 DEF L!CaptureSave, L!EntriesLoad, L!EntriesOpen, L!EntriesFill, L!OutcomesOpen,
      L!OutcomesFill
  <2> QED BY <2>2, <2>3, <2>4
<1> QED BY <1>1, <1>2

LEMMA RecordsStep ==
  ASSUME LedgerTypes, AccountsInv, RecordsInv, L!Next
  PROVE  RecordsInv'
<1> USE DEF LedgerTypes, L!ledger, L!history, L!vars
<1>0. /\ Carried(L!NoRequest)' /\ L!NoRequest.pc = "idle"
      /\ \A c : c.pc = "idle" => Carried(c)'
      /\ \A e \in L!Entry : e # None /\ e.id \in Nat
  BY StoresAssumption DEF Carried, L!NoRequest, L!LedgerAssumption, L!Entry
<1>1. CASE UNCHANGED <<captures, overlapped, entries, outcomes, requesting>>
  BY <1>1 DEF RecordsInv, Carried, UsedOnce, Old
<1>2. CASE L!Aborts
  <2>1. UNCHANGED <<captures, overlapped, entries, outcomes>>
    BY <1>2 DEF L!Aborts
  <2>2. \A t \in Threads : requesting'[t] \in {requesting[t], L!NoRequest}
    BY <1>2 DEF L!Aborts
  <2>3. \A c : Carried(c)' <=> Carried(c)
    BY <2>1 DEF Carried, UsedOnce, Old
  <2>4. \A d : UsedOnce(d)' <=> UsedOnce(d)
    BY <2>1 DEF UsedOnce, Old
  <2>5. \A e : Old(e)' <=> Old(e)
    BY <2>1 DEF Old
  <2> QED BY <1>0, <2>1, <2>2, <2>3, <2>4, <2>5 DEF RecordsInv
<1>3. ASSUME NEW t \in Threads, L!Handle(t), ~overlapped'
      PROVE  RecordsInv'
  <2>a. /\ ~overlapped
        /\ \A u \in Threads : u # t => requesting[u].pc = "idle" /\ requesting'[u] = requesting[u]
    BY <1>3, RunsAlone
  <2>b. /\ \A e \in UNION entries : Old(e) /\ e \in L!Entry
        /\ \A d \in outcomes : UsedOnce(d)
        /\ \A u \in Threads : Carried(requesting[u])
    BY <2>a DEF RecordsInv
  <2>c. PICK c \in Request : c = requesting[t]
    OBVIOUS
  <2>h. Held(c) /\ Carried(c)
    BY <2>b, <2>c DEF AccountsInv
  <2>s. SUFFICES /\ \A e \in UNION entries' : Old(e)'
                 /\ \A d \in outcomes' : UsedOnce(d)'
                 /\ \E e : requesting'[t] = e /\ Carried(e)'
    <3>1. \A u \in Threads : \E e : requesting'[u] = e /\ Carried(e)'
      BY <1>0, <2>a
    <3>2. \A u, v \in Threads :
            requesting'[u].pc # "idle" /\ requesting'[v].pc # "idle" => u = v
      BY <2>a
    <3> QED BY <3>1, <3>2 DEF RecordsInv, Carried
  <2>u. /\ \A d \in outcomes : \A e \in UNION entries : Unused(e, d)
    BY <1>0, <2>b DEF UsedOnce, Unused
  <2>1. CASE L!CaptureLoad(t) \/ L!CaptureRefused(t) \/ L!CaptureSave(t)
    <3>1. UNCHANGED <<captures, entries, outcomes>>
      BY <2>1 DEF L!CaptureLoad, L!CaptureRefused, L!CaptureSave
    <3>2. requesting'[t].pc \in {"loaded", "idle", "opened"} \/ requesting'[t] = c
      <4>1. CASE L!CaptureLoad(t)
        BY <4>1 DEF L!CaptureLoad, L!NoRequest
      <4>2. CASE L!CaptureRefused(t)
        BY <2>c, <4>2 DEF L!CaptureRefused
      <4>3. CASE L!CaptureSave(t)
        BY <2>c, <4>3 DEF L!CaptureSave, L!NoRequest, Request
      <4> QED BY <2>1, <4>1, <4>2, <4>3
    <3>3. \E e : requesting'[t] = e /\ Carried(e)'
      <4>1. \A e : e.pc \in {"loaded", "opened"} => Carried(e)'
        BY DEF Carried
      <4>2. Carried(c)'
        BY <2>h, <3>1 DEF Carried, UsedOnce, Old
      <4> QED BY <1>0, <3>2, <4>1, <4>2
    <3> QED BY <2>b, <3>1, <3>3 DEF UsedOnce, Old
  <2>4. CASE L!EntriesLoad(t)
    <3>0. UNCHANGED <<entries, outcomes>>
      BY <2>4 DEF L!EntriesLoad
    <3>1. CASE requesting' = [requesting EXCEPT ![t] = L!NoRequest] /\ captures' = captures
      <4>1. requesting'[t] = L!NoRequest
        BY <3>1
      <4> QED BY <1>0, <2>b, <3>0, <3>1, <4>1 DEF UsedOnce, Old
    <3>2. ASSUME NEW e \in Request,
                 /\ requesting' = [requesting EXCEPT ![t] = e]
                 /\ e.pc = "priced" /\ captures' \in Nat /\ captures <= captures'
                 /\ \A r \in e.doc :
                      \/ r \in UNION entries
                      \/ captures < r.id /\ r.id <= captures'
          PROVE  /\ \A r \in UNION entries' : Old(r)'
                 /\ \A d \in outcomes' : UsedOnce(d)'
                 /\ \E b : requesting'[t] = b /\ Carried(b)'
      <4>1. \A r \in L!Entry : Old(r) => Old(r)'
        BY <1>0, <3>2 DEF Old
      <4>2. \A r \in UNION entries' : Old(r)'
        BY <2>b, <3>0, <4>1
      <4>3. \A d \in outcomes : \A i \in DOMAIN d : d[i].entry # None => d[i].entry \in L!Entry
        <5>1. \A d \in outcomes : \A i \in DOMAIN d : d[i] \in L!Outcome
          OBVIOUS
        <5> QED BY <5>1 DEF L!Outcome
      <4>4. \A d \in outcomes' : UsedOnce(d)'
        BY <2>b, <3>0, <4>1, <4>3 DEF UsedOnce
      <4>5. \A r \in e.doc : Old(r)'
        BY <2>b, <3>2, <4>1 DEF Old
      <4>6. \A r \in e.doc : \A d \in outcomes : Unused(r, d)
        <5>1. ASSUME NEW r \in e.doc, captures < r.id, NEW d \in outcomes, NEW i \in DOMAIN d,
                     d[i].entry = r
              PROVE  FALSE
          <6>1. r \in L!Entry /\ r # None /\ r.id \in Nat
            BY <1>0 DEF Request
          <6>2. r.id <= captures
            BY <2>b, <5>1, <6>1 DEF UsedOnce, Old
          <6> QED BY <5>1, <6>1, <6>2
        <5> QED BY <2>u, <3>2, <5>1 DEF Unused
      <4>7. Carried(e)'
        BY <3>0, <3>2, <4>5, <4>6 DEF Carried
      <4> QED BY <3>2, <4>2, <4>4, <4>7
    <3>3. \/ requesting' = [requesting EXCEPT ![t] = L!NoRequest] /\ captures' = captures
          \/ \E e \in Request :
               /\ requesting' = [requesting EXCEPT ![t] = e]
               /\ e.pc = "priced" /\ captures' \in Nat /\ captures <= captures'
               /\ \A r \in e.doc :
                    \/ r \in UNION entries
                    \/ captures < r.id /\ r.id <= captures'
      <4>1. Held(requesting[t])
        BY <2>c, <2>h
      <4> HIDE DEF LedgerTypes
      <4> QED BY <2>4, <4>1, EntriesLoadAdds
    <3> QED BY <3>1, <3>2, <3>3
  <2>5. CASE L!LogTradeOutcome(t)
    <3>1. PICK e \in Request :
            /\ requesting' = [requesting EXCEPT ![t] = e]
            /\ \/ e.pc = "logged" /\ e.log.entry = None /\ e.doc = {}
               \/ /\ e.pc = "consumed" /\ e.log.entry \in UNION entries
                  /\ e.doc = (UNION entries) \ {e.log.entry}
      BY <2>5, LogTradeOutcomeTakes
    <3>2. UNCHANGED <<captures, entries, outcomes>>
      BY <2>5 DEF L!LogTradeOutcome
    <3>3. Carried(e)'
      BY <1>0, <2>b, <2>u, <3>1, <3>2 DEF Carried, Old
    <3>4. requesting'[t] = e
      BY <3>1
    <3> QED BY <2>b, <3>2, <3>3, <3>4 DEF UsedOnce, Old
  <2>6. CASE L!EntriesOpen(t)
    <3>1. PICK pc \in {"captured", "removed"} :
            /\ requesting' = [requesting EXCEPT ![t] = [c EXCEPT !.pc = pc]]
            /\ c.pc \in {"priced", "consumed"} /\ (pc = "removed" => c.pc = "consumed")
      BY <2>6, <2>c DEF L!EntriesOpen
    <3>2. PICK e : e = [c EXCEPT !.pc = pc]
      OBVIOUS
    <3>3. e.pc = pc /\ e.doc = c.doc /\ e.log = c.log
      BY <3>2 DEF Request
    <3>4. entries' = {} /\ UNCHANGED <<captures, outcomes>>
      BY <2>6 DEF L!EntriesOpen
    <3>5. Carried(e)'
      BY <2>h, <3>1, <3>3, <3>4 DEF Carried, Old
    <3>6. requesting'[t] = e
      BY <3>1, <3>2
    <3> QED BY <2>b, <3>4, <3>5, <3>6 DEF UsedOnce, Old
  <2>7. CASE L!EntriesFill(t)
    <3>1. PICK e : e = [c EXCEPT !.pc = "logged"]
      OBVIOUS
    <3>2. e.pc = "logged" /\ e.doc = c.doc /\ e.log = c.log
      BY <3>1 DEF Request
    <3>3. /\ entries' = {c.doc} \/ entries' = {}
          /\ c.pc \in {"captured", "removed"} /\ UNCHANGED <<captures, outcomes>>
          /\ requesting'[t] = IF c.pc = "captured" THEN L!NoRequest ELSE e
      BY <2>7, <2>c, <3>1 DEF L!EntriesFill
    <3>4. \A r \in UNION entries' : r \in c.doc
      BY <3>3
    <3>5. \A r \in c.doc : Old(r) /\ \A d \in outcomes : Unused(r, d)
      BY <2>h, <3>3 DEF Carried
    <3>6. \A d \in outcomes : UsedOnce(d)'
      BY <2>b, <3>3, <3>4, <3>5 DEF UsedOnce, Unused, Old
    <3>7. c.pc = "removed" => Carried(e)'
      BY <2>h, <3>2, <3>3, <3>4 DEF Carried, Old
    <3> QED BY <1>0, <3>3, <3>4, <3>5, <3>6, <3>7 DEF Old
  <2>8. CASE L!OutcomesOpen(t)
    <3>1. PICK doc : doc = IF outcomes = {} THEN <<>> ELSE CHOOSE d \in outcomes : TRUE
      OBVIOUS
    <3>2. doc \in Seq(L!Outcome) /\ UsedOnce(doc)
            /\ \A r : (\A d \in outcomes : Unused(r, d)) => Unused(r, doc)
      BY <2>b, <3>1 DEF UsedOnce, Unused
    <3>3. c.pc = "logged" /\ c.log \in L!Outcome
      BY <2>8, <2>c, <2>h DEF L!OutcomesOpen, Held
    <3>4. c.log.entry # None =>
            /\ Old(c.log.entry) /\ c.log.entry \notin UNION entries /\ Unused(c.log.entry, doc)
      BY <2>h, <3>2, <3>3 DEF Carried
    <3>5. UsedOnce(Append(doc, c.log))
      BY <3>2, <3>3, <3>4 DEF UsedOnce, Unused
    <3>6. PICK e : e = [c EXCEPT !.pc = "dumping", !.out = Append(doc, c.log)]
      OBVIOUS
    <3>7. e.pc = "dumping" /\ e.out = Append(doc, c.log)
      BY <3>6 DEF Request
    <3>8. requesting'[t] = e /\ outcomes' = {} /\ UNCHANGED <<captures, entries>>
      BY <2>8, <2>c, <3>1, <3>6 DEF L!OutcomesOpen
    <3>9. Carried(e)'
      BY <3>5, <3>7, <3>8 DEF Carried, UsedOnce, Old
    <3> QED BY <2>b, <3>8, <3>9 DEF Old
  <2>9. CASE L!OutcomesFill(t)
    <3>1. /\ outcomes' = {c.out} \/ outcomes' = {}
          /\ c.pc = "dumping" /\ requesting'[t] = L!NoRequest /\ UNCHANGED <<captures, entries>>
      BY <2>9, <2>c DEF L!OutcomesFill
    <3>2. UsedOnce(c.out)
      BY <2>h, <3>1 DEF Carried
    <3> QED BY <1>0, <2>b, <3>1, <3>2 DEF UsedOnce, Old
  <2> QED BY <1>3, <2>1, <2>4, <2>5, <2>6, <2>7, <2>8, <2>9 DEF L!Handle
<1>4. CASE L!Trade \/ L!Midnight
  <2>1. UNCHANGED <<captures, overlapped, entries, outcomes, requesting>>
    BY <1>4 DEF L!Trade, L!Midnight
  <2> QED BY <1>1, <2>1
<1> QED BY <1>2, <1>3, <1>4 DEF L!Next, RecordsInv

LEMMA LedgerStep == LedgerInv /\ [L!Next]_(L!vars) => LedgerInv'
<1>1. CASE L!Next
  BY <1>1, LedgerTypesStep, AccountsStep, RecordsStep DEF LedgerInv, AccountsInv
<1>2. CASE UNCHANGED L!vars
  <2>1. UNCHANGED lVars
    BY <1>2 DEF L!vars, L!ledger, L!history, lVars
  <2>2. LedgerTypes => LedgerTypes'
    BY <2>1 DEF LedgerTypes, lVars
  <2>3. AccountsInv => AccountsInv'
    <3>1. \A s, b, n : Accounts(s, b, n)' <=> Accounts(s, b, n)
      BY <2>1 DEF Accounts, Grew, BecameShort, lVars
    <3>2. \A s : Chained(s)' <=> Chained(s)
      BY <3>1 DEF Chained
    <3>3. \A e : Justified(e)' <=> Justified(e)
      BY <2>1 DEF Justified, Grew, lVars
    <3>4. \A c : Held(c)' <=> Held(c)
      BY <2>1, <3>1, <3>2, <3>3 DEF Held, lVars
    <3>5. \A s : Accounts(s, held, trades)' <=> Accounts(s, held, trades)
      BY <2>1 DEF Accounts, Grew, BecameShort, lVars
    <3> QED BY <2>1, <3>2, <3>3, <3>4, <3>5 DEF AccountsInv, lVars
  <2>4. RecordsInv => RecordsInv'
    BY <2>1 DEF RecordsInv, Carried, UsedOnce, Old, lVars
  <2> QED BY <2>2, <2>3, <2>4 DEF LedgerInv
<1> QED BY <1>1, <1>2

\* A behaviour of the stores is one of the ledger.
LEMMA LedgerOfStores ==
  /\ Init => LedgerInv
  /\ [Next]_vars => [L!Next]_(L!vars)
<1>1. ASSUME Init PROVE LedgerInv
  <2>1. /\ day = 0 /\ held \in L!Book /\ entries = {} /\ outcomes = {} /\ captures = 0
        /\ growths = {} /\ trades = 0 /\ overlapped = FALSE
        /\ requesting = [t \in Threads |-> L!NoRequest]
        /\ \/ snaps = L!NoSnaps
           \/ snaps = [L!NoSnaps EXCEPT ![0] = [legs |-> held, at |-> 0, blind |-> FALSE]]
    BY <1>1, LedgerFacts DEF Init, L!Init
  <2>2. PICK s : s = [legs |-> held, at |-> 0, blind |-> FALSE]
    OBVIOUS
  <2>3. s \in L!Snapshot /\ s.legs = held /\ s.at = 0
    BY <2>1, <2>2, LedgerFacts DEF L!Snapshot
  <2>4. snaps \in Store /\ \A d \in L!Taken(snaps) : d = 0 /\ snaps[d] = s
    BY <2>1, <2>2, <2>3, LedgerFacts DEF Store, L!NoSnaps, L!Taken
  <2>5. LedgerTypes
    BY <2>1, <2>4, FS_EmptySet, LedgerFacts DEF LedgerTypes
  <2>6. Accounts(s, held, trades)
    BY <2>1, <2>3, LedgerFacts DEF Accounts, L!Abs
  <2>7. AccountsInv
    <3>1. Chained(snaps) /\ L!Taken(snaps) \subseteq 0 .. day
      BY <2>1, <2>4 DEF Chained
    <3> QED BY <2>1, <2>4, <2>6, <3>1 DEF AccountsInv, Held, L!NoRequest
  <2>8. RecordsInv
    BY <2>1 DEF RecordsInv, Carried, L!NoRequest
  <2> QED BY <2>5, <2>7, <2>8 DEF LedgerInv
<1>2. [Next]_vars => [L!Next]_(L!vars)
  BY DEF Next, vars, lVars, L!vars, L!ledger, L!history
<1> QED BY <1>1, <1>2

\* The type invariant of the ledger.
THEOREM LedgerTyped == Spec => []L!TypeOK
<1>1. ASSUME LedgerInv PROVE L!TypeOK
  <2>1. \A S : S = {} \/ (\E x : S = {x}) => L!Cardinality(S) <= 1
    <3>1. \A S : S = {} \/ (\E x : S = {x}) => Cardinality(S) <= 1
      BY FS_EmptySet, FS_Singleton
    <3> QED BY <3>1 DEF L!Cardinality, Cardinality
  <2>2. \A d \in outcomes : \A i \in DOMAIN d : d[i] \in L!Outcome
    BY <1>1 DEF LedgerInv, LedgerTypes
  <2> QED BY <1>1, <2>1, <2>2 DEF LedgerInv, LedgerTypes, L!TypeOK, Store
<1>2. LedgerInv => L!TypeOK
  BY <1>1
<1> QED BY <1>2, LedgerStep, LedgerOfStores, PTL DEF Spec

\* An entry record is made only for a leg that grew short between the snapshots
\* that capture_position_snapshot compared, whatever other requests, trades and
\* failures come between loading the book and recording.
THEOREM NothingBackfilled == Spec => []BackfillsNothing
<1>1. LedgerInv => BackfillsNothing
  BY DEF LedgerInv, AccountsInv, Justified, Grew, BackfillsNothing, L!BackfillsNothing
<1> QED BY <1>1, LedgerStep, LedgerOfStores, PTL DEF Spec

\* _lookup_entry_conditions saves the store without the record before the trade is
\* logged, so that a failure between the two loses a record and never serves it
\* twice.
THEOREM RecordsServeOnce == Spec => []RecordUsedOnce
<1>1. ASSUME LedgerInv PROVE RecordUsedOnce
  BY <1>1 DEF LedgerInv, RecordsInv, UsedOnce, RecordUsedOnce, L!RecordUsedOnce
<1>2. LedgerInv => RecordUsedOnce
  BY <1>1
<1> QED BY <1>2, LedgerStep, LedgerOfStores, PTL DEF Spec

-----------------------------------------------------------------------------
(* The pacing.  The gains from snapshot to snapshot add up to no less than   *)
(* the gain over the chain and, because every leg gained was opened in       *)
(* between, to no more than the openings.                                    *)

LEMMA SameSize == \A S : L!Cardinality(S) = Cardinality(S)
BY DEF L!Cardinality, Cardinality

LEMMA LargerOfZero == \A n \in Int : L!Max({0, n}) = IF n > 0 THEN n ELSE 0
<1>1. ASSUME NEW n \in Int
      PROVE  L!Max({0, n}) = IF n > 0 THEN n ELSE 0
  <2>1. \E x \in {0, n} : \A y \in {0, n} : x >= y
    <3>1. CASE n > 0
      BY <3>1
    <3>2. CASE ~(n > 0)
      BY <3>2
    <3> QED BY <3>1, <3>2
  <2>2. PICK m \in {0, n} : m = L!Max({0, n}) /\ \A y \in {0, n} : m >= y
    BY <2>1 DEF L!Max
  <2> QED BY <1>1, <2>2
<1> QED BY <1>1

\* The legs of a ticker that are short in book b.
Shorts(b, l) == L!TickerLegs(l) \intersect L!Short(b)

LEMMA CountsAreSizes ==
  \A b, l : /\ Shorts(b, l) \subseteq Legs /\ IsFiniteSet(Shorts(b, l))
            /\ L!Count(b, l) = Cardinality(Shorts(b, l)) /\ L!Count(b, l) \in Nat
<1>1. ASSUME NEW b, NEW l
      PROVE  /\ Shorts(b, l) \subseteq Legs /\ IsFiniteSet(Shorts(b, l))
             /\ L!Count(b, l) = Cardinality(Shorts(b, l)) /\ L!Count(b, l) \in Nat
  <2>1. Shorts(b, l) \subseteq Legs
    BY DEF Shorts, L!Short
  <2>2. IsFiniteSet(Shorts(b, l)) /\ Cardinality(Shorts(b, l)) \in Nat
    BY <2>1, LedgerFacts, FS_Subset, FS_CardinalityType
  <2>3. L!Count(b, l) = Cardinality(Shorts(b, l))
    BY SameSize DEF L!Count, Shorts
  <2> QED BY <2>1, <2>2, <2>3
<1> QED BY <1>1

\* The tickers that count, and what each has gained from book b to book c.
Counted == L!Underlyings \ Hedges
GainOf(b, c) == [l \in Counted |-> L!Max({0, L!Count(c, l) - L!Count(b, l)})]

LEMMA GainIsSum ==
  /\ IsFiniteSet(Counted) /\ Counted \subseteq Legs
  /\ \A b, c : /\ L!Gain(b, c) = L!SumFunctionOnSet(GainOf(b, c), Counted)
               /\ L!Gain(b, c) \in Int
               /\ \A l \in Counted :
                    LET n == L!Count(c, l) - L!Count(b, l)
                    IN  GainOf(b, c)[l] = IF n > 0 THEN n ELSE 0
<1>1. Counted \subseteq Legs
  BY TickersAreLegs DEF Counted
<1>2. IsFiniteSet(Counted)
  BY <1>1, LedgerFacts, FS_Subset
<1>3. ASSUME NEW b, NEW c
      PROVE  /\ L!Gain(b, c) = L!SumFunctionOnSet(GainOf(b, c), Counted)
             /\ L!Gain(b, c) \in Int
             /\ \A l \in Counted :
                  LET n == L!Count(c, l) - L!Count(b, l)
                  IN  GainOf(b, c)[l] = IF n > 0 THEN n ELSE 0
  <2>1. L!Gain(b, c) = L!SumFunctionOnSet(GainOf(b, c), Counted)
    BY DEF L!Gain, L!SumFunction, GainOf, Counted
  <2>2. ASSUME NEW l \in Counted
        PROVE  LET n == L!Count(c, l) - L!Count(b, l)
               IN  GainOf(b, c)[l] = IF n > 0 THEN n ELSE 0
    <3>1. PICK n \in Int : n = L!Count(c, l) - L!Count(b, l)
      BY CountsAreSizes
    <3>2. GainOf(b, c)[l] = L!Max({0, n})
      BY <3>1 DEF GainOf
    <3>3. GainOf(b, c)[l] = IF n > 0 THEN n ELSE 0
      BY <3>2, LargerOfZero
    <3> QED BY <3>1, <3>3
  <2>3. \A l \in Counted : GainOf(b, c)[l] \in Int
    BY <2>2, CountsAreSizes
  <2>4. L!SumFunctionOnSet(GainOf(b, c), Counted) \in Int
    BY <1>2, <2>3, SumType
  <2> QED BY <2>1, <2>2, <2>4
<1> QED BY <1>1, <1>2, <1>3

\* Gains over two stretches add up to no less than the gain over both.
LEMMA GainsAdd ==
  ASSUME NEW a, NEW b, NEW c
  PROVE  L!Gain(a, c) <= L!Gain(a, b) + L!Gain(b, c)
<1>1. ASSUME NEW l \in Counted
      PROVE  /\ GainOf(a, c)[l] \in Int /\ GainOf(a, b)[l] \in Int /\ GainOf(b, c)[l] \in Int
             /\ GainOf(a, c)[l] <= GainOf(a, b)[l] + GainOf(b, c)[l]
  <2>1. L!Count(a, l) \in Nat /\ L!Count(b, l) \in Nat /\ L!Count(c, l) \in Nat
    BY CountsAreSizes
  <2> QED BY <2>1, GainIsSum
<1>2. L!SumFunctionOnSet(GainOf(a, c), Counted) <=
        L!SumFunctionOnSet(GainOf(a, b), Counted) + L!SumFunctionOnSet(GainOf(b, c), Counted)
  BY <1>1, GainIsSum, SumSubadditive
<1> QED BY <1>2, GainIsSum

\* The legs of different tickers differ.
LEMMA TickersApart ==
  \A k, l \in L!Underlyings : k # l => L!TickerLegs(k) \intersect L!TickerLegs(l) = {}
<1>1. ASSUME NEW k \in Legs, NEW l \in Legs, NEW n \in L!TickerLegs(k), n \in L!TickerLegs(l)
      PROVE  L!TickerLegs(k) = L!TickerLegs(l)
  BY <1>1, StoresAssumption DEF L!LedgerAssumption, L!TickerLegs
<1>2. \A k \in L!Underlyings : k \in Legs /\ k = CHOOSE l \in L!TickerLegs(k) : TRUE
  <2>1. ASSUME NEW k \in L!Underlyings
        PROVE  k \in Legs /\ k = CHOOSE l \in L!TickerLegs(k) : TRUE
    <3>1. PICK j \in Legs : k = CHOOSE l \in L!TickerLegs(j) : TRUE
      BY DEF L!Underlyings
    <3>2. j \in L!TickerLegs(j)
      BY StoresAssumption DEF L!LedgerAssumption, L!TickerLegs
    <3>3. k \in L!TickerLegs(j) /\ k \in Legs /\ k \in L!TickerLegs(k)
      BY <3>1, <3>2, StoresAssumption DEF L!LedgerAssumption, L!TickerLegs
    <3>4. L!TickerLegs(k) = L!TickerLegs(j)
      BY <1>1, <3>3
    <3> QED BY <3>1, <3>3, <3>4
  <2> QED BY <2>1
<1>3. ASSUME NEW k \in L!Underlyings, NEW l \in L!Underlyings,
             L!TickerLegs(k) \intersect L!TickerLegs(l) # {}
      PROVE  k = l
  <2>1. L!TickerLegs(k) = L!TickerLegs(l)
    BY <1>1, <1>2, <1>3
  <2> QED BY <1>2, <2>1
<1> QED BY <1>3

\* A gain from a snapshot to a later one is no more than the short legs, SPY
\* aside, opened in between.
Openings(from, to) ==
  {g \in growths : g.fresh /\ g.leg \notin Hedges /\ from < g.at /\ g.at <= to}

LEMMA GainOpened ==
  ASSUME LedgerTypes, NEW p \in L!Snapshot, NEW q \in L!Snapshot, ~p.blind,
         Accounts(p, q.legs, q.at)
  PROVE  L!Gain(p.legs, q.legs) <= Cardinality(Openings(p.at, q.at))
<1>1. PICK W : W = {l \in Legs \ Hedges : q.legs[l] < 0 /\ ~(p.legs[l] < 0)}
  OBVIOUS
<1>2. PICK A : A = [l \in Counted |-> Shorts(q.legs, l) \ Shorts(p.legs, l)]
  OBVIOUS
<1>3. IsFiniteSet(Openings(p.at, q.at))
  BY FS_Subset DEF LedgerTypes, Openings
<1>4. W \subseteq Legs /\ IsFiniteSet(W)
  BY <1>1, LedgerFacts, FS_Subset
<1>5. \A l \in Counted : A[l] \subseteq W
  <2>1. ASSUME NEW l \in Counted, NEW k \in A[l]
        PROVE  k \in W
    <3>1. k \in L!TickerLegs(l) /\ k \in Legs /\ q.legs[k] < 0 /\ ~(p.legs[k] < 0)
      BY <1>2, <2>1 DEF Shorts, L!Short
    <3>2. k \notin Hedges
      BY <3>1, TickersAreLegs, StoresAssumption DEF L!LedgerAssumption, L!TickerLegs, Counted
    <3> QED BY <1>1, <3>1, <3>2
  <2> QED BY <2>1
<1>6. \A k, l \in Counted : k # l => A[k] \intersect A[l] = {}
  BY <1>2, TickersApart DEF Counted, Shorts
<1>7. ASSUME NEW l \in Counted
      PROVE  /\ GainOf(p.legs, q.legs)[l] \in Int
             /\ GainOf(p.legs, q.legs)[l] <= Cardinality(A[l])
  <2>1. PICK P, Q : P = Shorts(p.legs, l) /\ Q = Shorts(q.legs, l)
    OBVIOUS
  <2>2. /\ IsFiniteSet(P) /\ IsFiniteSet(Q) /\ A[l] = Q \ P
        /\ L!Count(p.legs, l) = Cardinality(P) /\ L!Count(q.legs, l) = Cardinality(Q)
        /\ Cardinality(P) \in Nat /\ Cardinality(Q) \in Nat
    BY <1>2, <2>1, CountsAreSizes
  <2>3. /\ IsFiniteSet(Q \ P) /\ Cardinality(Q \ P) \in Nat
        /\ Cardinality(Q \intersect P) \in Nat /\ Cardinality(Q \intersect P) <= Cardinality(P)
    BY <2>2, FS_Subset, FS_CardinalityType
  <2>4. Cardinality(Q) = Cardinality(Q \ P) + Cardinality(Q \intersect P)
    <3>1. IsFiniteSet(Q \intersect P)
      BY <2>2, FS_Subset
    <3>2. Cardinality((Q \ P) \union (Q \intersect P)) =
            Cardinality(Q \ P) + Cardinality(Q \intersect P)
              - Cardinality((Q \ P) \intersect (Q \intersect P))
      BY <2>3, <3>1, FS_Union
    <3>3. \A U, V : U = (Q \ P) \union (Q \intersect P) /\ V = (Q \ P) \intersect (Q \intersect P)
                     => U = Q /\ V = {}
      OBVIOUS
    <3>4. Cardinality(Q) = Cardinality(Q \ P) + Cardinality(Q \intersect P) - Cardinality({})
      BY <3>2, <3>3
    <3>5. Cardinality({}) = 0
      BY FS_EmptySet
    <3> QED BY <2>3, <3>4, <3>5
  <2>5. GainOf(p.legs, q.legs)[l] =
          IF Cardinality(Q) - Cardinality(P) > 0 THEN Cardinality(Q) - Cardinality(P) ELSE 0
    BY <2>2, GainIsSum
  <2> QED BY <2>2, <2>3, <2>4, <2>5
<1>8. L!Gain(p.legs, q.legs) <= Cardinality(W)
  BY <1>4, <1>5, <1>6, <1>7, GainIsSum, SumOfSizes
<1>9. Cardinality(W) <= Cardinality(Openings(p.at, q.at))
  <2>1. \A l \in W : \E g \in Openings(p.at, q.at) : g.leg = l
    <3>1. ASSUME NEW l \in W
          PROVE  \E g \in Openings(p.at, q.at) : g.leg = l
      <4>1. l \in Legs /\ l \notin Hedges /\ q.legs[l] < 0 /\ p.legs[l] >= 0
        BY <1>1, LedgerFacts DEF L!Snapshot
      <4>2. BecameShort(l, p.at, q.at)
        BY <4>1 DEF Accounts
      <4> QED BY <4>1, <4>2 DEF BecameShort, Openings
    <3> QED BY <3>1
  <2>2. PICK f : f = [l \in W |-> CHOOSE g \in Openings(p.at, q.at) : g.leg = l]
    OBVIOUS
  <2>3. \A l \in W : f[l] \in Openings(p.at, q.at) /\ f[l].leg = l
    BY <2>1, <2>2
  <2>4. f \in Injection(W, Openings(p.at, q.at))
    BY <2>2, <2>3 DEF Injection, IsInjective
  <2> QED BY <1>3, <2>4, FS_Injection
<1>10. Cardinality(W) \in Nat /\ Cardinality(Openings(p.at, q.at)) \in Nat
  BY <1>3, <1>4, FS_CardinalityType
<1> QED BY <1>8, <1>9, <1>10, GainIsSum

\* The days compared, from the first to the last.
LEMMA ChainEnds ==
  ASSUME NEW s \in Store, L!Chain(s) # {}
  PROVE  LET earlier == {d \in L!Taken(s) : d < Monday}
             start == IF earlier = {} THEN L!Min(L!Taken(s)) ELSE L!Max(earlier)
         IN  /\ L!Chain(s) \subseteq L!Taken(s) /\ L!Chain(s) \subseteq Nat
             /\ IsFiniteSet(L!Chain(s))
             /\ start = L!Min(L!Chain(s)) /\ start \in L!Chain(s)
             /\ L!Max(L!Taken(s)) = L!Max(L!Chain(s)) /\ L!Max(L!Chain(s)) \in L!Chain(s)
             /\ \A d \in L!Chain(s) : start <= d /\ d <= L!Max(L!Chain(s))
<1>1. PICK earlier, week : /\ earlier = {d \in L!Taken(s) : d < Monday}
                           /\ week = {d \in L!Taken(s) : d >= Monday}
  OBVIOUS
<1>2. PICK ch : ch = L!Chain(s)
  OBVIOUS
<1>3. Monday \in Nat /\ L!Taken(s) \subseteq Nat /\ IsFiniteSet(L!Taken(s))
  <2>1. Monday \in L!Days
    BY StoresAssumption DEF L!LedgerAssumption
  <2>2. {Monday} \in SUBSET L!Days /\ L!Taken(s) \in SUBSET L!Days
    BY <2>1 DEF L!Taken
  <2>3. {Monday} \subseteq Nat
    BY <2>2, DaysFinite
  <2> QED BY <2>2, <2>3, DaysFinite
<1>4. earlier # {} => /\ L!Max(earlier) \in earlier
                      /\ \A d \in earlier : L!Max(earlier) >= d
  <2>1. earlier \in SUBSET Nat /\ IsFiniteSet(earlier)
    BY <1>1, <1>3, FS_Subset
  <2> QED BY <2>1, ExtremesExist
<1>5. ch = week \union (IF earlier = {} THEN {} ELSE {L!Max(earlier)})
  BY <1>1, <1>2 DEF L!Chain
<1>6. ch \subseteq L!Taken(s) /\ ch \in SUBSET Nat /\ IsFiniteSet(ch) /\ ch # {}
  <2>1. ch \subseteq L!Taken(s)
    BY <1>1, <1>4, <1>5
  <2> QED BY <1>2, <1>3, <2>1, FS_Subset
<1>7. /\ L!Min(ch) \in ch /\ \A d \in ch : L!Min(ch) <= d
      /\ L!Max(ch) \in ch /\ \A d \in ch : L!Max(ch) >= d
  BY <1>6, ExtremesExist
<1>8. (IF earlier = {} THEN L!Min(L!Taken(s)) ELSE L!Max(earlier)) = L!Min(ch)
  <2>1. CASE earlier = {}
    <3>1. week = L!Taken(s)
      BY <1>1, <1>3, <2>1
    <3>2. ch = L!Taken(s)
      BY <1>5, <2>1, <3>1
    <3> QED BY <2>1, <3>2
  <2>2. CASE earlier # {}
    <3>1. L!Max(earlier) \in ch /\ L!Max(earlier) \in Nat /\ L!Max(earlier) < Monday
      BY <1>1, <1>3, <1>4, <1>5, <2>2
    <3>2. \A d \in ch : L!Max(earlier) <= d
      BY <1>1, <1>3, <1>5, <3>1
    <3>3. L!Min(ch) <= L!Max(earlier) /\ L!Max(earlier) <= L!Min(ch) /\ L!Min(ch) \in Nat
      BY <1>6, <1>7, <3>1, <3>2
    <3> QED BY <2>2, <3>1, <3>3
  <2> QED BY <2>1, <2>2
<1>9. L!Max(L!Taken(s)) = L!Max(ch)
  <2>1. PICK t : t = L!Max(L!Taken(s))
    OBVIOUS
  <2>2. L!Taken(s) # {}
    BY <1>6
  <2>3. t \in L!Taken(s) /\ \A d \in L!Taken(s) : t >= d
    BY <1>3, <2>1, <2>2, ExtremesExist
  <2>4. t \in ch
    <3>1. CASE t >= Monday
      BY <1>1, <1>5, <2>3, <3>1
    <3>2. CASE ~(t >= Monday)
      <4>1. t \in earlier
        BY <1>1, <1>3, <2>3, <3>2
      <4>2. t <= L!Max(earlier) /\ L!Max(earlier) <= t /\ L!Max(earlier) \in Nat /\ t \in Nat
        BY <1>1, <1>3, <1>4, <2>3, <4>1
      <4> QED BY <1>5, <4>1, <4>2
    <3> QED BY <3>1, <3>2
  <2>5. t >= L!Max(ch) /\ L!Max(ch) >= t /\ t \in Nat /\ L!Max(ch) \in Nat
    BY <1>3, <1>6, <1>7, <2>3, <2>4
  <2> QED BY <2>1, <2>5
<1>10. \A d \in ch : L!Min(ch) <= d /\ d <= L!Max(ch)
  BY <1>6, <1>7
<1> QED BY <1>1, <1>2, <1>6, <1>7, <1>8, <1>9, <1>10

\* What is charged up to day n of chain ch, which starts on day m.
Charged(m, n) ==
  L!SumFunctionOnSet(
    [d \in L!Chain(snaps) \ {m} |-> L!Gained(snaps, d)],
    {d \in L!Chain(snaps) : m < d /\ d <= n})

LEMMA ChargedBetween ==
  ASSUME LedgerTypes, Chained(snaps), NEW m \in L!Chain(snaps),
         L!Chain(snaps) \subseteq L!Taken(snaps), L!Chain(snaps) \subseteq Nat,
         IsFiniteSet(L!Chain(snaps)),
         \A d \in L!Chain(snaps) : m <= d /\ ~snaps[d].blind,
         NEW n \in L!Chain(snaps)
  PROVE  /\ L!Gain(snaps[m].legs, snaps[n].legs) <= Charged(m, n)
         /\ Charged(m, n) <= Cardinality(Openings(snaps[m].at, snaps[n].at))
<1> DEFINE Bracketed(k) ==
             /\ L!Gain(snaps[m].legs, snaps[k].legs) <= Charged(m, k)
             /\ Charged(m, k) <= Cardinality(Openings(snaps[m].at, snaps[k].at))
<1>1. PICK ch : ch = L!Chain(snaps)
  OBVIOUS
<1>2. /\ ch \subseteq L!Taken(snaps) /\ ch \in SUBSET Nat /\ IsFiniteSet(ch) /\ m \in ch
      /\ \A d \in ch : m <= d /\ ~snaps[d].blind
      /\ \A d \in ch : snaps[d] \in L!Snapshot /\ snaps[d].at \in Nat
  <2>1. \A d \in L!Taken(snaps) : snaps[d] \in L!Snapshot
    BY DEF LedgerTypes, Store, L!Taken
  <2>2. \A s \in L!Snapshot : s.at \in Nat
    BY LedgerFacts DEF L!Snapshot
  <2> QED BY <1>1, <2>1, <2>2
<1>3. \A a, b : /\ IsFiniteSet(Openings(a, b)) /\ Openings(a, b) \subseteq growths
                /\ Cardinality(Openings(a, b)) \in Nat
  <2>1. \A a, b : Openings(a, b) \subseteq growths
    BY DEF Openings
  <2> QED BY <2>1, FS_Subset, FS_CardinalityType DEF LedgerTypes
<1>4. PICK bad : bad = {k \in ch : ~Bracketed(k)}
  OBVIOUS
<1>5. SUFFICES ASSUME bad # {} PROVE FALSE
  BY <1>1, <1>4
<1>6. PICK k \in bad : \A j \in bad : k <= j
  <2>1. bad \in SUBSET Nat /\ IsFiniteSet(bad)
    BY <1>2, <1>4, FS_Subset
  <2> QED BY <1>5, <2>1, ExtremesExist
<1>7. k \in ch /\ k \in Nat /\ ~Bracketed(k)
  BY <1>2, <1>4
<1>8. CASE k = m
  <2>1. Charged(m, k) = 0
    <3>1. {d \in L!Chain(snaps) : m < d /\ d <= k} = {}
      BY <1>1, <1>2, <1>8
    <3> QED BY <3>1, FS_EmptySet, SumUnfolds DEF Charged
  <2>2. L!Gain(snaps[m].legs, snaps[m].legs) <= 0
    <3>1. PICK b : b = snaps[m].legs
      OBVIOUS
    <3>2. PICK none : none = [l \in Counted |-> {}]
      OBVIOUS
    <3>3. \A l \in Counted : GainOf(b, b)[l] = 0
      BY GainIsSum, CountsAreSizes
    <3>4. IsFiniteSet({}) /\ Cardinality({}) = 0
      BY FS_EmptySet
    <3>5. \A l \in Counted : none[l] = {}
      BY <3>2
    <3>6. \A l \in Counted : none[l] \subseteq {} /\ GainOf(b, b)[l] \in Int
                              /\ GainOf(b, b)[l] <= Cardinality(none[l])
      <4> TAKE l \in Counted
      <4>1. none[l] = {} /\ GainOf(b, b)[l] = 0
        BY <3>3, <3>5
      <4>2. Cardinality(none[l]) = 0
        BY <3>4, <4>1
      <4>3. GainOf(b, b)[l] <= Cardinality(none[l]) /\ GainOf(b, b)[l] \in Int
        BY <4>1, <4>2
      <4> QED BY <4>1, <4>3
    <3>7. \A k1, l1 \in Counted : k1 # l1 => none[k1] \intersect none[l1] = {}
      BY <3>5
    <3>8. IsFiniteSet(Counted)
      BY GainIsSum
    <3>9. L!SumFunctionOnSet(GainOf(b, b), Counted) <= Cardinality({})
      BY <3>4, <3>6, <3>7, <3>8, SumOfSizes
    <3> QED BY <3>1, <3>4, <3>9, GainIsSum
  <2> QED BY <1>3, <1>7, <1>8, <2>1, <2>2
<1>9. CASE k # m
  <2>1. PICK before : before = {e \in ch : e < k}
    OBVIOUS
  <2>2. PICK p : p = L!Max(before)
    OBVIOUS
  <2>3. p \in before /\ \A e \in before : p >= e
    <3>1. before \subseteq ch /\ before \in SUBSET Nat
      BY <1>2, <2>1
    <3>2. IsFiniteSet(before)
      BY <1>2, <3>1, FS_Subset
    <3>3. m \in Nat /\ m <= k
      BY <1>2, <1>7
    <3>4. m < k
      BY <1>7, <1>9, <3>3
    <3>5. m \in before
      BY <1>2, <2>1, <3>4
    <3> QED BY <2>2, <3>1, <3>2, <3>5, ExtremesExist
  <2>4. p \in ch /\ p \in Nat /\ p < k /\ m <= p /\ \A e \in ch : e < k => e <= p
    BY <1>2, <2>1, <2>3
  <2>5. Bracketed(p)
    <3>1. p \notin bad
      BY <1>6, <1>7, <2>4
    <3> QED BY <1>4, <2>4, <3>1
  <2>6. L!Gained(snaps, k) = L!Gain(snaps[p].legs, snaps[k].legs)
    BY <1>1, <2>1, <2>2 DEF L!Gained
  <2>7. Charged(m, k) = L!Gain(snaps[p].legs, snaps[k].legs) + Charged(m, p)
    <3>1. PICK f : f = [d \in L!Chain(snaps) \ {m} |-> L!Gained(snaps, d)]
      OBVIOUS
    <3>2. PICK T, U : T = {d \in ch : m < d /\ d <= k} /\ U = {d \in ch : m < d /\ d <= p}
      OBVIOUS
    <3>3. U = T \ {k} /\ k \in T
      <4>1. m \in Nat /\ m <= k
        BY <1>2, <1>7
      <4>2. m < k
        BY <1>7, <1>9, <4>1
      <4>3. k \in T /\ k \notin U
        BY <1>7, <2>4, <3>2, <4>2
      <4>4. ASSUME NEW d \in ch PROVE d <= p <=> d <= k /\ d # k
        <5>1. d \in Nat
          BY <1>2
        <5>2. d < k => d <= p
          BY <2>4
        <5> QED BY <1>7, <2>4, <5>1, <5>2
      <4> QED BY <3>2, <4>3, <4>4
    <3>4. IsFiniteSet(T) /\ T \subseteq ch \ {m}
      BY <1>2, <3>2, FS_Subset
    <3>5. \A d \in T : f[d] \in Int
      BY <1>1, <3>1, <3>4, GainIsSum DEF L!Gained
    <3>6. L!SumFunctionOnSet(f, T) = f[k] + L!SumFunctionOnSet(f, T \ {k})
      BY <3>3, <3>4, <3>5, SumSplit
    <3>7. f[k] = L!Gain(snaps[p].legs, snaps[k].legs)
      BY <1>1, <1>7, <1>9, <2>6, <3>1
    <3> QED BY <1>1, <3>1, <3>2, <3>3, <3>6, <3>7 DEF Charged
  <2>8. L!Gain(snaps[m].legs, snaps[k].legs) <=
          L!Gain(snaps[m].legs, snaps[p].legs) + L!Gain(snaps[p].legs, snaps[k].legs)
    BY GainsAdd
  <2>9. snaps[m].at <= snaps[p].at /\ snaps[p].at <= snaps[k].at
          /\ Accounts(snaps[p], snaps[k].legs, snaps[k].at)
    <3>1. \A d, e \in ch : d < e => Accounts(snaps[d], snaps[e].legs, snaps[e].at)
      BY <1>2 DEF Chained
    <3>2. \A d, e \in ch : d < e => snaps[d].at <= snaps[e].at
      BY <3>1 DEF Accounts
    <3>3. m = p \/ m < p
      BY <1>2, <2>4
    <3> QED BY <1>2, <1>7, <2>4, <3>1, <3>2, <3>3
  <2>10. L!Gain(snaps[p].legs, snaps[k].legs) <= Cardinality(Openings(snaps[p].at, snaps[k].at))
    BY <1>2, <1>7, <2>4, <2>9, GainOpened
  <2>11. Cardinality(Openings(snaps[m].at, snaps[p].at))
           + Cardinality(Openings(snaps[p].at, snaps[k].at))
           <= Cardinality(Openings(snaps[m].at, snaps[k].at))
    <3>1. PICK X, Y, Z : /\ X = Openings(snaps[m].at, snaps[p].at)
                         /\ Y = Openings(snaps[p].at, snaps[k].at)
                         /\ Z = Openings(snaps[m].at, snaps[k].at)
      OBVIOUS
    <3>2. \A g \in growths : g.at \in Nat
      BY LedgerFacts DEF LedgerTypes, L!Growth
    <3>3. /\ snaps[m].at \in Nat /\ snaps[p].at \in Nat /\ snaps[k].at \in Nat
      BY <1>2, <1>7, <2>4
    <3>4. X \union Y \subseteq Z /\ X \intersect Y = {}
      BY <2>9, <3>1, <3>2, <3>3 DEF Openings
    <3>5. IsFiniteSet(X) /\ IsFiniteSet(Y) /\ IsFiniteSet(Z)
            /\ Cardinality(X) \in Nat /\ Cardinality(Y) \in Nat /\ Cardinality(Z) \in Nat
      BY <1>3, <3>1
    <3>6. Cardinality(X \union Y) = Cardinality(X) + Cardinality(Y) - Cardinality(X \intersect Y)
      BY <3>5, FS_Union
    <3>7. Cardinality(X \intersect Y) = 0
      BY <3>4, FS_EmptySet
    <3>8. Cardinality(X \union Y) <= Cardinality(Z)
      BY <3>4, <3>5, FS_Subset
    <3> QED BY <3>1, <3>5, <3>6, <3>7, <3>8
  <2>12. /\ L!Gain(snaps[m].legs, snaps[k].legs) \in Int
         /\ L!Gain(snaps[m].legs, snaps[p].legs) \in Int
         /\ L!Gain(snaps[p].legs, snaps[k].legs) \in Int
    BY GainIsSum
  <2>13. Charged(m, p) \in Int
    <3>1. IsFiniteSet({d \in L!Chain(snaps) : m < d /\ d <= p})
      BY <1>1, <1>2, FS_Subset
    <3>2. \A d \in {e \in L!Chain(snaps) : m < e /\ e <= p} :
            [e \in L!Chain(snaps) \ {m} |-> L!Gained(snaps, e)][d] \in Int
      <4>1. \A d \in {e \in L!Chain(snaps) : m < e /\ e <= p} : d \in L!Chain(snaps) \ {m}
        BY <1>1, <1>2
      <4>2. \A d : L!Gained(snaps, d) \in Int
        BY GainIsSum DEF L!Gained
      <4> QED BY <4>1, <4>2
    <3> QED BY <3>1, <3>2, SumType DEF Charged
  <2>14. Cardinality(Openings(snaps[m].at, snaps[p].at)) \in Nat
           /\ Cardinality(Openings(snaps[p].at, snaps[k].at)) \in Nat
           /\ Cardinality(Openings(snaps[m].at, snaps[k].at)) \in Nat
    BY <1>3
  <2> QED BY <1>7, <2>5, <2>7, <2>8, <2>10, <2>11, <2>12, <2>13, <2>14
<1> QED BY <1>8, <1>9

\* weekly_position_opens charges the week with no more than the short legs, SPY
\* aside, opened between the snapshots it compares and with no less than the
\* tickers have gained over them: for every account, every week and every
\* interleaving of captures, unless a snapshot of an unreadable book is among them.
THEOREM PacingBrackets == Spec => []PacingBracketsOpens
<1>1. ASSUME LedgerInv PROVE PacingBracketsOpens
  <2> DEFINE earlier == {d \in L!Taken(snaps) : d < Monday}
             start == IF earlier = {} THEN L!Min(L!Taken(snaps)) ELSE L!Max(earlier)
  <2>1. snaps \in Store /\ LedgerTypes /\ Chained(snaps)
    BY <1>1 DEF LedgerInv, LedgerTypes, AccountsInv
  <2>2. SUFFICES ASSUME L!PositionOpens.available,
                        \A d \in L!Taken(snaps) : d >= start => ~snaps[d].blind
                 PROVE  L!PositionOpens.used \in
                          L!Gain(snaps[start].legs, snaps[L!Max(L!Taken(snaps))].legs) ..
                            L!Cardinality(Openings(snaps[start].at,
                                                   snaps[L!Max(L!Taken(snaps))].at))
    BY DEF PacingBracketsOpens, L!PacingBracketsOpens, Openings
  <2>3. PICK m, M, ch : m = start /\ M = L!Max(L!Taken(snaps)) /\ ch = L!Chain(snaps)
    OBVIOUS
  <2>4. /\ ~(L!Cardinality(ch) < 2)
        /\ L!PositionOpens.used = L!SumFunction([d \in ch \ {L!Min(ch)} |-> L!Gained(snaps, d)])
    BY <2>2, <2>3 DEF L!PositionOpens
  <2>5. ch # {}
    BY <2>4, SameSize, FS_EmptySet
  <2>6. /\ ch \subseteq L!Taken(snaps) /\ ch \subseteq Nat /\ IsFiniteSet(ch)
        /\ m = L!Min(ch) /\ m \in ch /\ M \in ch
        /\ \A d \in ch : m <= d /\ d <= M
    <3> HIDE DEF earlier, start
    <3>1. LET e == {d \in L!Taken(snaps) : d < Monday}
              b == IF e = {} THEN L!Min(L!Taken(snaps)) ELSE L!Max(e)
          IN  /\ ch \subseteq L!Taken(snaps) /\ ch \subseteq Nat /\ IsFiniteSet(ch)
              /\ b = L!Min(ch) /\ b \in ch
              /\ L!Max(L!Taken(snaps)) = L!Max(ch) /\ L!Max(ch) \in ch
              /\ \A d \in ch : b <= d /\ d <= L!Max(ch)
      BY <2>1, <2>3, <2>5, ChainEnds
    <3> QED BY <2>3, <3>1 DEF earlier, start
  <2>7. \A d \in ch : m <= d /\ ~snaps[d].blind
    BY <2>2, <2>3, <2>6
  <2>8. /\ L!Gain(snaps[m].legs, snaps[M].legs) <= Charged(m, M)
        /\ Charged(m, M) <= Cardinality(Openings(snaps[m].at, snaps[M].at))
    <3> HIDE DEF earlier, start
    <3> QED BY <2>1, <2>3, <2>6, <2>7, ChargedBetween
  <2>9. Charged(m, M) = L!PositionOpens.used
    <3>1. {d \in ch : m < d /\ d <= M} = ch \ {m}
      <4>1. \A d \in ch : d \in Nat /\ m \in Nat /\ m <= d /\ d <= M
        BY <2>6
      <4>2. \A d \in ch : m < d <=> d # m
        BY <4>1
      <4> QED BY <4>1, <4>2
    <3>2. L!PositionOpens.used =
            L!SumFunctionOnSet([d \in ch \ {m} |-> L!Gained(snaps, d)], ch \ {m})
      BY <2>4, <2>6 DEF L!SumFunction
    <3> QED BY <2>3, <3>1, <3>2 DEF Charged
  <2>10. L!PositionOpens.used \in Int
    <3>1. IsFiniteSet(ch \ {m})
      BY <2>6, FS_Subset
    <3>2. \A d \in ch \ {m} : [e \in ch \ {m} |-> L!Gained(snaps, e)][d] \in Int
      BY GainIsSum DEF L!Gained
    <3>3. L!PositionOpens.used =
            L!SumFunctionOnSet([d \in ch \ {m} |-> L!Gained(snaps, d)], ch \ {m})
      BY <2>4, <2>6 DEF L!SumFunction
    <3> QED BY <3>1, <3>2, <3>3, SumType
  <2>11. Cardinality(Openings(snaps[m].at, snaps[M].at)) \in Nat
    BY <2>1, FS_Subset, FS_CardinalityType DEF Openings, LedgerTypes
  <2> HIDE DEF earlier, start
  <2> QED BY <2>3, <2>8, <2>9, <2>10, <2>11, SameSize, GainIsSum
<1>2. LedgerInv => PacingBracketsOpens
  BY <1>1
<1> QED BY <1>2, LedgerStep, LedgerOfStores, PTL DEF Spec

-----------------------------------------------------------------------------
(* The journal.  A document that is about to be saved was read some time     *)
(* ago, so what is true of the journal has to be true of every document; and *)
(* a new entry pairs with nobody because its identifier is in no document.   *)

\* A document names, as entries and as partners, identifiers given out.
DocTypes(j, ids) ==
  /\ DOMAIN j \subseteq ids
  /\ j \in [DOMAIN j -> [action: Actions, open: ids \union {None},
                         close: ids \union {None}]]

\* Its links come in pairs.
DocPairs(j) ==
  \A i \in DOMAIN j :
    /\ j[i].open \in DOMAIN j => j[j[i].open].close # None
    /\ j[i].close \in DOMAIN j => j[j[i].close].open # None

EditsJournal(t) == jProc[t] # None /\ jProc[t].of = "journal"
Documents == {journal} \union {jProc[t].doc : t \in {u \in Threads : EditsJournal(u)}}

JournalInv ==
  /\ used \subseteq Ids /\ DOMAIN jProc = Threads
  /\ jProc = [t \in Threads |-> jProc[t]]
  /\ \A j \in Documents : DocTypes(j, used) /\ DocPairs(j)

\* A new entry stands alone.
LEMMA CreateKeepsPairs ==
  ASSUME NEW ids \in SUBSET Ids, NEW j, DocTypes(j, ids), DocPairs(j),
         NEW new \in Ids \ ids, NEW a \in Actions, NEW k,
         k = [i \in DOMAIN j \union {new} |->
                IF i = new THEN [action |-> a, open |-> None, close |-> None] ELSE j[i]]
  PROVE  DocTypes(k, ids \union DOMAIN k) /\ DocPairs(k)
<1>1. /\ None \notin Ids /\ DOMAIN j \subseteq ids /\ DOMAIN k = DOMAIN j \union {new}
      /\ k[new].open = None /\ k[new].close = None
      /\ \A i \in DOMAIN j : k[i] = j[i] /\ i # new
  BY StoresAssumption DEF J!JournalAssumption, DocTypes
<1>2. DocTypes(k, ids \union DOMAIN k)
  <2>1. [action |-> a, open |-> None, close |-> None]
          \in [action: Actions, open: ids \union DOMAIN k \union {None},
               close: ids \union DOMAIN k \union {None}]
    OBVIOUS
  <2>2. \A i \in DOMAIN j :
          j[i] \in [action: Actions, open: ids \union DOMAIN k \union {None},
                    close: ids \union DOMAIN k \union {None}]
    BY DEF DocTypes
  <2> QED BY <1>1, <2>1, <2>2 DEF DocTypes
<1>3. DocPairs(k)
  <2> SUFFICES ASSUME NEW i \in DOMAIN j
               PROVE  /\ k[i].open \in DOMAIN k => k[k[i].open].close # None
                      /\ k[i].close \in DOMAIN k => k[k[i].close].open # None
    BY <1>1 DEF DocPairs
  <2>1. k[i] = j[i] /\ j[i].open \in ids \union {None} /\ j[i].close \in ids \union {None}
    BY <1>1 DEF DocTypes
  <2>2. j[i].open # new /\ j[i].close # new
    BY <1>1, <2>1
  <2> QED BY <1>1, <2>1, <2>2 DEF DocPairs
<1> QED BY <1>2, <1>3

\* A deleted entry leaves its partners with a link that leads nowhere.
LEMMA DeleteKeepsPairs ==
  ASSUME NEW ids \in SUBSET Ids, NEW j, DocTypes(j, ids), DocPairs(j),
         NEW gone \in DOMAIN j, NEW k, k = [i \in DOMAIN j \ {gone} |-> j[i]]
  PROVE  DocTypes(k, ids \union DOMAIN k) /\ DocPairs(k)
<1>1. ids \union DOMAIN k = ids
  BY DEF DocTypes
<1> QED BY <1>1 DEF DocTypes, DocPairs

\* A link stamps both of its entries, and takes no stamp from another.
LEMMA LinkKeepsPairs ==
  ASSUME NEW ids \in SUBSET Ids, NEW j, DocTypes(j, ids), DocPairs(j),
         NEW c \in DOMAIN j, NEW o \in DOMAIN j, c # o, NEW k, k = J!Stamped(j, c, o)
  PROVE  DocTypes(k, ids \union DOMAIN k) /\ DocPairs(k)
<1>1. /\ DOMAIN k = DOMAIN j /\ DOMAIN j \subseteq ids
      /\ k[o] = [j[o] EXCEPT !.close = c] /\ k[c] = [j[c] EXCEPT !.open = o]
      /\ \A i \in DOMAIN j : i # c /\ i # o => k[i] = j[i]
  BY DEF J!Stamped, DocTypes
<1>2. \A i \in DOMAIN j :
        j[i] \in [action: Actions, open: ids \union {None}, close: ids \union {None}]
  BY DEF DocTypes
<1>3. None \notin DOMAIN j
  BY <1>1, StoresAssumption DEF J!JournalAssumption
<1>4. /\ k[o].close = c /\ k[o].open = j[o].open
      /\ k[c].open = o /\ k[c].close = j[c].close
  BY <1>1, <1>2
<1>5. DocTypes(k, ids \union DOMAIN k)
  <2>1. ids \union DOMAIN k = ids
    BY <1>1
  <2>2. \A i \in DOMAIN j :
          k[i] \in [action: Actions, open: ids \union {None}, close: ids \union {None}]
    BY <1>1, <1>2
  <2>3. k = [i \in DOMAIN k |-> k[i]]
    BY DEF J!Stamped
  <2> QED BY <1>1, <2>1, <2>2, <2>3 DEF DocTypes
<1>6. \A i \in DOMAIN j : /\ j[i].close # None => k[i].close # None
                          /\ j[i].open # None => k[i].open # None
  <2> SUFFICES ASSUME NEW i \in DOMAIN j
               PROVE  /\ j[i].close # None => k[i].close # None
                      /\ j[i].open # None => k[i].open # None
    OBVIOUS
  <2>1. CASE i = c \/ i = o
    BY <1>3, <1>4, <2>1
  <2>2. CASE i # c /\ i # o
    BY <1>1, <2>2
  <2> QED BY <2>1, <2>2
<1>7. ASSUME NEW i \in DOMAIN j, k[i].open \in DOMAIN j
      PROVE  k[k[i].open].close # None
  <2>1. CASE i = c
    BY <1>3, <1>4, <2>1
  <2>2. CASE i # c
    <3>1. k[i].open = j[i].open
      BY <1>1, <1>4, <2>2
    <3> QED BY <1>6, <1>7, <3>1 DEF DocPairs
  <2> QED BY <2>1, <2>2
<1>8. ASSUME NEW i \in DOMAIN j, k[i].close \in DOMAIN j
      PROVE  k[k[i].close].open # None
  <2>1. CASE i = o
    BY <1>3, <1>4, <2>1
  <2>2. CASE i # o
    <3>1. k[i].close = j[i].close
      BY <1>1, <1>4, <2>2
    <3> QED BY <1>6, <1>8, <3>1 DEF DocPairs
  <2> QED BY <2>1, <2>2
<1>9. DocPairs(k)
  BY <1>1, <1>7, <1>8 DEF DocPairs
<1> QED BY <1>5, <1>9

\* So does every edit.
LEMMA EditKeepsPairs ==
  ASSUME NEW j, DocTypes(j, used), DocPairs(j), used \subseteq Ids,
         NEW k \in J!JournalEdits(j)
  PROVE  /\ DocTypes(k, used \union DOMAIN k) /\ DocPairs(k)
         /\ DOMAIN k \subseteq Ids
<1>1. used \in SUBSET Ids /\ DOMAIN j \subseteq Ids
  BY DEF DocTypes
<1>2. CASE k \in J!CreateEntry(j)
  <2>1. PICK new \in Ids \ used, a \in Actions :
          k = [i \in DOMAIN j \union {new} |->
                 IF i = new THEN [action |-> a, open |-> None, close |-> None] ELSE j[i]]
    BY <1>2 DEF J!CreateEntry
  <2>2. DOMAIN k \subseteq Ids
    BY <1>1, <2>1
  <2> QED BY <1>1, <2>1, <2>2, CreateKeepsPairs
<1>3. CASE k \in J!DeleteEntry(j)
  <2>1. PICK gone \in DOMAIN j : k = [i \in DOMAIN j \ {gone} |-> j[i]]
    BY <1>3 DEF J!DeleteEntry
  <2>2. DOMAIN k \subseteq Ids
    BY <1>1, <2>1
  <2> QED BY <1>1, <2>1, <2>2, DeleteKeepsPairs
<1>4. CASE k \in J!LinkClose(j)
  <2>1. PICK c \in J!Closes(j) : k \in {J!Stamped(j, c, o) : o \in J!Opens(j) \ {c}}
    BY <1>4 DEF J!LinkClose
  <2>2. PICK o \in J!Opens(j) \ {c} : k = J!Stamped(j, c, o)
    BY <2>1
  <2>3. c \in DOMAIN j /\ o \in DOMAIN j /\ c # o /\ DOMAIN k = DOMAIN j
    BY <2>2 DEF J!Closes, J!Opens, J!Stamped
  <2> QED BY <1>1, <2>2, <2>3, LinkKeepsPairs
<1> QED BY <1>2, <1>3, <1>4 DEF J!JournalEdits

\* The documents keep their pairs, whoever saves over whom.
LEMMA JournalStep == JournalInv /\ [J!Next]_(J!vars) => JournalInv'
<1> SUFFICES ASSUME JournalInv, [J!Next]_(J!vars)
             PROVE  JournalInv'
  OBVIOUS
<1>1. ASSUME NEW ids, used \subseteq ids, NEW j \in Documents
      PROVE  DocTypes(j, ids) /\ DocPairs(j)
  BY <1>1 DEF JournalInv, DocTypes
<1>2. ASSUME NEW t \in Threads, NEW p, jProc' = [jProc EXCEPT ![t] = p]
      PROVE  /\ DOMAIN jProc' = Threads /\ jProc' = [u \in Threads |-> jProc'[u]]
             /\ jProc'[t] = p /\ \A u \in Threads : u # t => jProc'[u] = jProc[u]
  BY <1>2 DEF JournalInv
<1>3. ASSUME NEW t \in Threads, J!ReadUniverse(t)
      PROVE  JournalInv'
  <2>1. PICK u \in J!UniverseEdits(universe) :
          jProc' = [jProc EXCEPT ![t] = [of |-> "universe", doc |-> u]]
    BY <1>3 DEF J!ReadUniverse
  <2>2. UNCHANGED <<journal, used>>
    BY <1>3 DEF J!ReadUniverse
  <2>3. \A v \in Threads : EditsJournal(v)' => EditsJournal(v) /\ jProc'[v] = jProc[v]
    BY <1>2, <2>1 DEF EditsJournal
  <2>4. Documents' \subseteq Documents
    BY <2>2, <2>3 DEF Documents
  <2> QED BY <1>1, <1>2, <2>1, <2>2, <2>4 DEF JournalInv
<1>4. ASSUME NEW t \in Threads, J!ReadJournal(t)
      PROVE  JournalInv'
  <2>1. PICK j \in J!JournalEdits(journal) :
          /\ jProc' = [jProc EXCEPT ![t] = [of |-> "journal", doc |-> j]]
          /\ used' = used \union DOMAIN j
    BY <1>4 DEF J!ReadJournal
  <2>2. journal' = journal
    BY <1>4 DEF J!ReadJournal
  <2>3. DocTypes(j, used') /\ DocPairs(j) /\ DOMAIN j \subseteq Ids
    BY <2>1, EditKeepsPairs DEF JournalInv, Documents
  <2>4. \A v \in Threads : EditsJournal(v)' =>
          jProc'[v].doc = j \/ (EditsJournal(v) /\ jProc'[v] = jProc[v])
    BY <1>2, <2>1 DEF EditsJournal
  <2>5. Documents' \subseteq Documents \union {j}
    BY <2>2, <2>4 DEF Documents
  <2>6. \A d \in Documents' : DocTypes(d, used') /\ DocPairs(d)
    BY <1>1, <2>1, <2>3, <2>5
  <2> QED BY <1>2, <2>1, <2>3, <2>6 DEF JournalInv
<1>5. ASSUME NEW t \in Threads, J!Save(t)
      PROVE  JournalInv'
  <2>1. /\ jProc[t] # None /\ jProc' = [jProc EXCEPT ![t] = None] /\ used' = used
        /\ \/ jProc[t].of = "journal" /\ journal' \in {jProc[t].doc, journal}
           \/ journal' = journal
    BY <1>5 DEF J!Save
  <2>2. journal' \in Documents
    BY <2>1 DEF Documents, EditsJournal
  <2>3. \A v \in Threads : EditsJournal(v)' => EditsJournal(v) /\ jProc'[v] = jProc[v]
    BY <1>2, <2>1 DEF EditsJournal
  <2>4. Documents' \subseteq Documents
    BY <2>2, <2>3 DEF Documents
  <2> QED BY <1>1, <1>2, <2>1, <2>4 DEF JournalInv
<1>6. CASE UNCHANGED J!vars
  BY <1>6 DEF J!vars, JournalInv, Documents, EditsJournal
<1> QED BY <1>3, <1>4, <1>5, <1>6 DEF J!Next

\* A behaviour of the stores is one of the journal.
LEMMA JournalOfStores ==
  /\ Init => JournalInv
  /\ [Next]_vars => [J!Next]_(J!vars)
<1>1. ASSUME Init PROVE JournalInv
  <2>1. journal = << >> /\ jProc = [t \in Threads |-> None] /\ used = {}
    BY <1>1 DEF Init, J!Init
  <2>2. Documents = {journal} /\ DOMAIN journal = {}
    BY <2>1 DEF Documents, EditsJournal
  <2>3. journal \in [DOMAIN journal -> [action: Actions, open: {None}, close: {None}]]
    BY <2>1, <2>2
  <2> QED BY <2>1, <2>2, <2>3 DEF JournalInv, DocTypes, DocPairs
<1> QED BY <1>1 DEF Next, vars, jVars, J!vars

\* Routes of routes/journal.py that read, change and save the whole journal at
\* once lose each other's entries and links, but never half of a link.
THEOREM LinksInPairs == Spec => []LinksComeInPairs
<1>1. JournalInv => LinksComeInPairs
  BY DEF JournalInv, Documents, DocPairs, LinksComeInPairs, J!LinksComeInPairs
<1> QED BY <1>1, JournalStep, JournalOfStores, PTL DEF Spec

=============================================================================
