--------------------------- MODULE EarningsCalendar ---------------------------
(***************************************************************************)
(* The earnings calendar, earnings_blocklist.json: the routes that edit it *)
(* by hand (routes/calendar.py), the fetch that fills it from yfinance     *)
(* (routes/earnings_fetch.py) and the three judgements of a date           *)
(* (services/state.py, routes/calendar.py).  Edits and fetches run in      *)
(* worker threads and nothing locks the file: each reads the calendar,     *)
(* changes what it has read and saves all of it, a fetch after it has      *)
(* asked yfinance ticker by ticker.  Until the first save they all change  *)
(* one object in memory.  An entry is [date, confirmed], NoEntry when the  *)
(* ticker has none.                                                        *)
(***************************************************************************)
EXTENDS Integers

CONSTANTS
  Threads,          \* the worker threads
  Tickers,          \* those of the universe
  LastDay,          \* bound on the days that pass
  LastDate,         \* the dates an entry may hold are 0 .. LastDate
  Blackout,         \* days before earnings that are barred (10)
  Approaching,      \* days before earnings that are near (30)
  MaxRequests,      \* bound on the edits and fetches
  NoEntry, NoDate

\* What the model assumes of its constants; the module that instantiates it
\* states it as an ASSUME.
CalendarAssumption ==
  /\ LastDay \in Nat /\ LastDate \in Nat /\ MaxRequests \in Nat
  /\ Blackout \in Nat /\ Approaching \in Nat /\ Blackout <= Approaching
  /\ NoDate \notin Int

Dates == 0 .. LastDate
Entry == [date: Dates, confirmed: BOOLEAN]
Calendar == [Tickers -> Entry \union {NoEntry}]
Empty == [k \in Tickers |-> NoEntry]

VARIABLES
  calendar,  \* the file, once it is there: per ticker its entry
  present,   \* whether it is there
  default,   \* DEFAULT_CALENDAR, which is read as long as it is not
  proc,      \* the request each thread is in
  missed,    \* history: the tickers whose entry others have saved differently
             \* since the request of the thread read it
  today,
  requests   \* edits and fetches so far

vars == <<calendar, present, default, proc, missed, today, requests>>

\* A request: the tickers the user names in it, what it has read and changed
\* unless that is the default object, the day on which it began and, for a
\* fetch, the tickers it has still to ask for.
Proc == [at: {"idle", "fetch", "save"}, about: SUBSET Tickers, copy: Calendar,
         shared: BOOLEAN, day: 0 .. LastDay, todo: SUBSET Tickers]
NoRequest == [at |-> "idle", about |-> {}, copy |-> Empty, shared |-> FALSE,
              day |-> 0, todo |-> {}]

\* What get_earnings_blocklist returns, and what thread t will save.
Shown == IF present THEN calendar ELSE default
Doc(t) == IF proc[t].shared THEN default ELSE proc[t].copy

\* The file, the default object, the requests and the day keep their types.
TypeOK ==
  /\ calendar \in Calendar
  /\ present \in BOOLEAN
  /\ default \in Calendar
  /\ proc \in [Threads -> Proc]
  /\ missed \in [Threads -> SUBSET Tickers]
  /\ today \in 0 .. LastDay
  /\ requests \in 0 .. MaxRequests

Init ==
  /\ calendar = Empty
  /\ present \in BOOLEAN
  /\ default = Empty
  /\ proc = [t \in Threads |-> NoRequest]
  /\ missed = [t \in Threads |-> {}]
  /\ today = 0
  /\ requests = 0

------------------------------------------------------------------------------
(* The judgements                                                          *)

\* The variant that counts a date that has passed.
DaysToPast(e) == IF e = NoEntry THEN NoDate ELSE e.date - today

\* Days to the next earnings; a date that has passed is not known any more.
DaysToEarnings(e) ==
  IF e = NoEntry THEN NoDate
  ELSE IF e.date < today THEN NoDate ELSE e.date - today

\* The state the scanner and the candidates board show.
EarningsState(days) ==
  IF days = NoDate THEN "unverified"
  ELSE IF days \in 0 .. Blackout THEN "blackout"
  ELSE IF days \in 0 .. Approaching THEN "approaching"
  ELSE "clear"

\* The status GET /calendar shows.
Status(days) ==
  IF days = NoDate THEN "no_earnings"
  ELSE IF days < 0 THEN "past"
  ELSE IF days <= Blackout THEN "blackout"
  ELSE IF days <= Approaching THEN "approaching"
  ELSE "clear"

IsBlackout(days) == days # NoDate /\ days \in 0 .. Blackout

------------------------------------------------------------------------------
(* The edits and the fetch up to their save                                *)

\* Thread t has read the calendar and changed it to data, the default object in
\* place.
Start(t, at, about, data, todo) ==
  /\ proc[t].at = "idle"
  /\ requests < MaxRequests
  /\ requests' = requests + 1
  /\ proc' = [proc EXCEPT ![t] =
                [at |-> at, about |-> about, shared |-> ~present,
                 copy |-> IF present THEN data ELSE Empty,
                 day |-> today, todo |-> todo]]
  /\ default' = IF present THEN default ELSE data
  /\ UNCHANGED <<calendar, present, missed, today>>

Edit(t, k, e) == Start(t, "save", {k}, [Shown EXCEPT ![k] = e], {})

UpsertEntry(t, k) ==
  \E d \in Dates, c \in BOOLEAN : Edit(t, k, [date |-> d, confirmed |-> c])

ConfirmDate(t, k) ==
  /\ Shown[k] # NoEntry
  /\ Edit(t, k, [Shown[k] EXCEPT !.confirmed = TRUE])

DeleteEntry(t, k) == Shown[k] # NoEntry /\ Edit(t, k, NoEntry)

BeginFetch(t) == Start(t, "fetch", {}, Shown, Tickers)

\* The variant that takes the answer of yfinance over any date.
MergedOver(e, answer, day) ==
  IF answer = NoDate THEN e ELSE [date |-> answer, confirmed |-> FALSE]

\* What the fetch makes of an entry: nothing without an answer, without news,
\* or against a date the user has confirmed that lies ahead of the day.
Merged(e, answer, day) ==
  IF \/ answer = NoDate
     \/ e # NoEntry /\ e.date = answer
     \/ e # NoEntry /\ e.confirmed /\ e.date >= day
  THEN e
  ELSE [date |-> answer, confirmed |-> FALSE]

\* The answer of yfinance on one ticker, or none, goes into the document.
FetchTicker(t, k) ==
  LET p == proc[t] IN
  /\ p.at = "fetch"
  /\ k \in p.todo
  /\ \E answer \in Dates \union {NoDate} :
       LET data == [Doc(t) EXCEPT ![k] = Merged(Doc(t)[k], answer, p.day)] IN
       /\ proc' = [proc EXCEPT ![t] = [p EXCEPT
                     !.copy = IF p.shared THEN p.copy ELSE data,
                     !.todo = p.todo \ {k},
                     !.at = IF p.todo = {k} THEN "save" ELSE "fetch"]]
       /\ default' = IF p.shared THEN data ELSE default
  /\ UNCHANGED <<calendar, present, missed, today, requests>>

------------------------------------------------------------------------------
(* The end of a request                                                    *)

Save(t) ==
  /\ proc[t].at = "save"
  /\ calendar' = Doc(t)
  /\ present' = TRUE
  /\ proc' = [proc EXCEPT ![t] = NoRequest]
  /\ missed' = [u \in Threads |->
                  IF u = t \/ proc[u].at = "idle" THEN {}
                  ELSE missed[u] \union {k \in Tickers : Doc(t)[k] # Shown[k]}]
  /\ UNCHANGED <<default, today, requests>>

\* The save fails or the request dies: what it changed in the default object
\* stays changed.
RequestFails(t) ==
  /\ proc[t].at # "idle"
  /\ proc' = [proc EXCEPT ![t] = NoRequest]
  /\ missed' = [missed EXCEPT ![t] = {}]
  /\ UNCHANGED <<calendar, present, default, today, requests>>

\* A restart makes the default object anew.
Crash ==
  /\ default' = Empty
  /\ proc' = [t \in Threads |-> NoRequest]
  /\ missed' = [t \in Threads |-> {}]
  /\ UNCHANGED <<calendar, present, today, requests>>

NextDay ==
  /\ today < LastDay
  /\ today' = today + 1
  /\ UNCHANGED <<calendar, present, default, proc, missed, requests>>

Next ==
  \/ \E t \in Threads, k \in Tickers :
       \/ UpsertEntry(t, k) \/ ConfirmDate(t, k) \/ DeleteEntry(t, k)
       \/ FetchTicker(t, k)
  \/ \E t \in Threads : BeginFetch(t) \/ Save(t) \/ RequestFails(t)
  \/ Crash \/ NextDay

Spec == Init /\ [][Next]_vars

------------------------------------------------------------------------------
(* Properties                                                              *)

ConfirmedAhead(k) ==
  Shown[k] # NoEntry /\ Shown[k].confirmed /\ Shown[k].date >= today

\* A date the user has confirmed and that lies ahead goes away only by a request
\* in which the user names the ticker, by the save of one that missed a change
\* of its entry, or with the default object in a restart before the first save.
\* No fetch or edit of another ticker that has seen the date takes it away.
ConfirmedKept ==
  [][\A k \in Tickers :
       ConfirmedAhead(k) /\ Shown'[k] # Shown[k] =>
         \/ \E t \in Threads :
              /\ proc'[t] # proc[t]
              /\ k \in proc[t].about \union proc'[t].about \union missed[t]
         \/ ~present /\ default' = Empty]_vars

\* No judgement calls a ticker clear whose date is unknown, has passed or lies
\* inside the blackout, and the three judgements bar the same tickers.
NeverClearByMistake ==
  \A k \in Tickers :
    LET e == Shown[k]
        d == DaysToEarnings(e)
    IN /\ "clear" \in {EarningsState(d), Status(d)}
          => e # NoEntry /\ e.date > today + Approaching
       /\ IsBlackout(d) <=> EarningsState(d) = "blackout"
       /\ IsBlackout(d) <=> Status(d) = "blackout"

=============================================================================
