---------------------------- MODULE TradeLedger ----------------------------
(***************************************************************************)
(* The position-diff ledger of routes/options_analytics.py: a snapshot of  *)
(* the synced book per day (position_snapshots.json), the conditions under *)
(* which each short leg was opened (entry_conditions.json), the closed     *)
(* trades (trade_outcomes.json), and the weekly pacing of the briefing,    *)
(* which is computed from the snapshots.                                   *)
(*                                                                         *)
(* Handlers run in threads.  The snapshots are written atomically; the     *)
(* other two files are truncated and then filled, and a file that cannot   *)
(* be parsed is read as an empty store.  Between reading and writing the   *)
(* conditions a capture asks for quotes, leg by leg.                       *)
(***************************************************************************)
EXTENDS Integers, Sequences, FiniteSets, FiniteSetsExt, Functions

CONSTANTS
  Legs,           \* option contracts of the account
  Hedges,         \* the legs on SPY, which pacing leaves out
  SameTicker,     \* the pairs of legs on one ticker
  Qtys,           \* quantities each leg may have: short below 0
  FirstBooks,     \* books the account may start with
  Monday,         \* the day the week under judgement starts on
  KeepSnapshots,  \* snapshots kept (60 in the code)
  Threads,        \* threads of the server
  None,           \* no snapshot, no entry record
  MaxDay, MaxTrades, MaxRequests, MaxFaults   \* bounds

Days == 0 .. MaxDay
Book == [Legs -> UNION {Qtys[l] : l \in Legs}]

VARIABLES
  day,        \* the calendar day of the server
  book,       \* active_positions.json, as the sync keeps it
  snaps,      \* the snapshot of each day, None where there is none
  entries,    \* the open records of entry_conditions.json: {} if it is absent
              \* or unreadable, otherwise the set that holds its document
  outcomes,   \* the records of trade_outcomes.json, in the same form
  th,         \* the request of each thread
  captures,   \* history: entry records made
  growths,    \* history: the trades, by number, that opened or enlarged a short leg
  overlapped, \* history: two requests have overlapped
  trades, requests, faults

ledger == <<snaps, entries, outcomes>>
history == <<captures, growths, overlapped>>
vars == <<day, book, ledger, th, history, trades, requests, faults>>

Short(b) == {l \in Legs : b[l] < 0}
TickerLegs(l) == {k \in Legs : <<k, l>> \in SameTicker}

\* A snapshot: the legs and, for the properties, the trades made by then and
\* whether the book could not be read.
Snapshot == [legs: Book, at: 0 .. MaxTrades, blind: BOOLEAN]

\* A trade that leaves a leg shorter than it was; fresh if it was not short.
Growth == [leg: Legs, at: 1 .. MaxTrades, fresh: BOOLEAN]

\* An entry-condition record: the leg, the day and, for the properties, its
\* number and the snapshot its leg had grown since.
Entry == [leg: Legs, opened: Days, id: Nat, prior: Snapshot, at: 0 .. MaxTrades]

\* A closed trade: its ticker and the record its entry conditions are taken from.
Outcome == [ticker: Legs, entry: Entry \union {None}]

LedgerAssumption ==
  /\ IsFiniteSet(Legs) /\ Hedges \subseteq Legs
  /\ \A k, l, n \in Legs :
       /\ <<l, l>> \in SameTicker
       /\ <<k, l>> \in SameTicker =>
            /\ <<l, k>> \in SameTicker
            /\ <<l, n>> \in SameTicker => <<k, n>> \in SameTicker
            /\ k \in Hedges <=> l \in Hedges
  /\ \A l \in Legs : Qtys[l] \subseteq Int /\ 0 \in Qtys[l]
  /\ FirstBooks \subseteq Book
  /\ Monday \in Days
  /\ {KeepSnapshots, MaxDay, MaxTrades, MaxRequests, MaxFaults} \subseteq Nat
  /\ KeepSnapshots > MaxDay - Monday + 1   \* a week and the day before it fit
  /\ None \notin Snapshot /\ None \notin Entry

NoSnaps == [d \in Days |-> None]
Taken(s) == {d \in Days : s[d] # None}

NoLegs == [l \in Legs |-> 0]
NoRequest == [pc |-> "idle", day |-> 0, snap |-> None, snaps |-> NoSnaps, new |-> {},
              doc |-> {}, out |-> <<>>, log |-> None]

Init ==
  /\ day = 0
  /\ book \in FirstBooks
  /\ snaps \in {NoSnaps, [NoSnaps EXCEPT ![0] = [legs |-> book, at |-> 0,
                                                  blind |-> FALSE]]}
  /\ entries = {} /\ outcomes = {}
  /\ th = [t \in Threads |-> NoRequest]
  /\ captures = 0 /\ growths = {} /\ overlapped = FALSE
  /\ trades = 0 /\ requests = 0 /\ faults = 0

-----------------------------------------------------------------------------
(* Diffs, pacing and the classification of a fill.                         *)

Abs(n) == IF n < 0 THEN -n ELSE n

\* _diff_legs: a leg that was not there, or whose size grew.
Opened(prev, curr) == {l \in Legs : curr[l] # 0 /\ Abs(curr[l]) > Abs(prev[l])}

\* The variant that starts from the first snapshot of the week.
ChainOfWeek(s) == {d \in Taken(s) : d >= Monday}

\* The days whose snapshots weekly_position_opens compares: those of the week,
\* and the last one before it.
Chain(s) ==
  LET earlier == {d \in Taken(s) : d < Monday}
  IN  {d \in Taken(s) : d >= Monday} \union (IF earlier = {} THEN {} ELSE {Max(earlier)})

\* Each ticker is known by one of its legs.
Underlyings == {CHOOSE l \in TickerLegs(k) : TRUE : k \in Legs}
Count(b, l) == Cardinality(TickerLegs(l) \intersect Short(b))

\* Short legs the tickers other than SPY have gained from book b to book c: a ticker
\* that has lost some counts as 0.
Gain(b, c) ==
  SumFunction([l \in Underlyings \ Hedges |-> Max({0, Count(c, l) - Count(b, l)})])

\* Those gained from the snapshot before d to that of d.
Gained(s, d) ==
  LET prev == s[Max({e \in Chain(s) : e < d})]
  IN  Gain(prev.legs, s[d].legs)

PositionOpens ==
  LET chain == Chain(snaps)
  IN  IF Cardinality(chain) < 2 THEN [available |-> FALSE, used |-> 0]
      ELSE [available |-> TRUE,
            used |-> SumFunction([d \in chain \ {Min(chain)} |-> Gained(snaps, d)])]

-----------------------------------------------------------------------------
(* Requests.                                                               *)

Begins(t) ==
  /\ th[t].pc = "idle"
  /\ requests < MaxRequests
  /\ requests' = requests + 1
  /\ overlapped' = (overlapped \/ \E u \in Threads \ {t} : th[u].pc # "idle")

\* capture_position_snapshot (the route, and every briefing) loads the store and
\* the legs of the book; a book that cannot be read has no legs.
CaptureLoad(t) ==
  /\ Begins(t)
  /\ \E unreadable \in BOOLEAN :
       /\ th' = [th EXCEPT ![t] =
            [NoRequest EXCEPT !.pc = "loaded", !.day = day, !.snaps = snaps,
                         !.snap = [legs |-> IF unreadable THEN NoLegs ELSE book,
                                   at |-> trades, blind |-> unreadable]]]
       /\ IF unreadable THEN faults < MaxFaults /\ faults' = faults + 1
          ELSE UNCHANGED faults
  /\ UNCHANGED <<day, book, ledger, captures, growths, trades>>

\* The store cannot be read: it is moved aside and nothing is captured.
CaptureRefused(t) ==
  /\ Begins(t)
  /\ faults < MaxFaults
  /\ faults' = faults + 1
  /\ snaps' = NoSnaps
  /\ UNCHANGED <<day, book, entries, outcomes, th, captures, growths, trades>>

\* The latest KeepSnapshots of the snapshots s.
Pruned(s) ==
  [d \in Days |-> IF Cardinality({e \in Taken(s) : e > d}) < KeepSnapshots
                  THEN s[d] ELSE None]

\* The variant that takes a first snapshot as if it followed an empty one.
PriorOrEmpty(c) ==
  LET others == Taken(c.snaps) \ {c.day}
  IN  IF others = {} THEN [legs |-> NoLegs, at |-> c.snap.at, blind |-> FALSE]
      ELSE c.snaps[Max(others)]

\* The last snapshot of another day, None if there is none.
Prior(c) ==
  LET others == Taken(c.snaps) \ {c.day}
  IN  IF others = {} THEN None ELSE c.snaps[Max(others)]

\* The legs newly opened short since then; without such a snapshot, none.
NewShort(c) ==
  IF Prior(c) = None THEN {}
  ELSE Opened(Prior(c).legs, c.snap.legs) \intersect Short(c.snap.legs)

\* The snapshot takes the place of one of the same day, and the store is saved.
CaptureSave(t) ==
  LET c == th[t] IN
  /\ c.pc = "loaded"
  /\ snaps' = Pruned([c.snaps EXCEPT ![c.day] = c.snap])
  /\ th' = [th EXCEPT ![t] = IF NewShort(c) = {} THEN NoRequest
                             ELSE [c EXCEPT !.pc = "opened", !.new = NewShort(c)]]
  /\ UNCHANGED <<day, book, entries, outcomes, history, trades, requests,
                 faults>>

Recorded(doc) == {e.leg : e \in doc}

\* The records that c makes for the legs numbered by id.
NewRecords(c, id) ==
  {[leg |-> l, opened |-> c.day, id |-> id[l], prior |-> Prior(c), at |-> c.snap.at] :
     l \in DOMAIN id}

\* _capture_entry_conditions reads the store, and adds a record for each leg it
\* has none for; the quotes are asked for after this step.
EntriesLoad(t) ==
  LET c == th[t]
      doc == UNION entries
      missing == c.new \ Recorded(doc)
  IN
  /\ c.pc = "opened"
  /\ IF missing = {} THEN th' = [th EXCEPT ![t] = NoRequest] /\ UNCHANGED captures
     ELSE /\ captures' = captures + Cardinality(missing)
          /\ \E id \in [missing -> (captures + 1) .. captures'] :
               /\ \A k, l \in missing : id[k] = id[l] => k = l
               /\ th' = [th EXCEPT ![t] =
                    [c EXCEPT !.pc = "priced", !.doc = doc \union NewRecords(c, id)]]
  /\ UNCHANGED <<day, book, ledger, growths, overlapped, trades, requests,
                 faults>>

\* The variant that reads the record and leaves it in the store.
LogTradeOutcomeReads(t) ==
  /\ Begins(t)
  /\ \E l \in Underlyings :
       LET log == [ticker |-> l, entry |-> None]
           cands == {e \in UNION entries : e.leg \in TickerLegs(l)}
       IN \E e \in cands :
            th' = [th EXCEPT ![t] = [NoRequest EXCEPT !.pc = "logged",
                                                      !.log = [log EXCEPT !.entry = e]]]
  /\ UNCHANGED <<day, book, ledger, captures, growths, trades, faults>>

\* POST /trade-outcomes for a ticker: a body with the entry conditions is logged as
\* it is, another takes those of the ticker's oldest record.
LogTradeOutcome(t) ==
  /\ Begins(t)
  /\ \E l \in Underlyings :
       LET log == [ticker |-> l, entry |-> None]
           doc == UNION entries
           cands == {e \in doc : e.leg \in TickerLegs(l)}
       IN \/ th' = [th EXCEPT ![t] = [NoRequest EXCEPT !.pc = "logged", !.log = log]]
          \/ \E e \in cands :
               /\ \A f \in cands : e.opened <= f.opened
               /\ th' = [th EXCEPT ![t] =
                    [NoRequest EXCEPT !.pc = "consumed", !.doc = doc \ {e},
                                 !.log = [log EXCEPT !.entry = e]]]
  /\ UNCHANGED <<day, book, ledger, captures, growths, trades, faults>>

\* open(path, "w") truncates the file.
EntriesOpen(t) ==
  /\ th[t].pc \in {"priced", "consumed"}
  /\ entries' = {}
  /\ th' = [th EXCEPT ![t].pc = IF @ = "priced" THEN "captured" ELSE "removed"]
  /\ UNCHANGED <<day, book, snaps, outcomes, history, trades, requests, faults>>

\* json.dump fills it.  On what another writer has filled meanwhile it may leave a
\* tail, which is not JSON.
EntriesFill(t) ==
  LET c == th[t] IN
  /\ c.pc \in {"captured", "removed"}
  /\ entries' \in {{c.doc}} \union (IF entries = {} THEN {} ELSE {{}})
  /\ th' = [th EXCEPT ![t] = IF c.pc = "captured" THEN NoRequest
                             ELSE [c EXCEPT !.pc = "logged"]]
  /\ UNCHANGED <<day, book, snaps, outcomes, history, trades, requests, faults>>

\* log_trade_outcome goes on: it reads the outcomes and truncates the file.
OutcomesOpen(t) ==
  LET doc == IF outcomes = {} THEN <<>> ELSE CHOOSE d \in outcomes : TRUE IN
  /\ th[t].pc = "logged"
  /\ outcomes' = {}
  /\ th' = [th EXCEPT ![t] = [@ EXCEPT !.pc = "dumping",
                                       !.out = Append(doc, th[t].log)]]
  /\ UNCHANGED <<day, book, snaps, entries, history, trades, requests, faults>>

OutcomesFill(t) ==
  /\ th[t].pc = "dumping"
  /\ outcomes' \in {{th[t].out}} \union (IF outcomes = {} THEN {} ELSE {{}})
  /\ th' = [th EXCEPT ![t] = NoRequest]
  /\ UNCHANGED <<day, book, snaps, entries, history, trades, requests, faults>>

\* A save fails, and the handler answers with an error; or the process dies.
Aborts ==
  /\ faults < MaxFaults
  /\ faults' = faults + 1
  /\ \/ \E t \in Threads : th[t].pc # "idle" /\ th' = [th EXCEPT ![t] = NoRequest]
     \/ th' = [t \in Threads |-> NoRequest]
  /\ UNCHANGED <<day, book, ledger, history, trades, requests>>

-----------------------------------------------------------------------------
(* The surroundings.                                                       *)

\* A trade reaches the book; an opening one may be entered in the journal.
Trade ==
  /\ trades < MaxTrades
  /\ trades' = trades + 1
  /\ \E l \in Legs : \E q \in Qtys[l] :
       LET becomesShort == book[l] >= 0 /\ q < 0
           grows == q < 0 /\ Abs(q) > Abs(book[l])
       IN /\ q # book[l]
          /\ book' = [book EXCEPT ![l] = q]
          /\ growths' = growths \union
               (IF grows \/ becomesShort
                THEN {[leg |-> l, at |-> trades', fresh |-> becomesShort]} ELSE {})
  /\ UNCHANGED <<day, ledger, th, captures, overlapped, requests, faults>>

Midnight ==
  /\ day < MaxDay
  /\ day' = day + 1
  /\ UNCHANGED <<book, ledger, th, history, trades, requests, faults>>

Handle(t) ==
  \/ CaptureLoad(t) \/ CaptureRefused(t) \/ CaptureSave(t) \/ EntriesLoad(t)
  \/ LogTradeOutcome(t) \/ EntriesOpen(t) \/ EntriesFill(t)
  \/ OutcomesOpen(t) \/ OutcomesFill(t)

Next == Trade \/ Midnight \/ Aborts \/ \E t \in Threads : Handle(t)

Spec == Init /\ [][Next]_vars

-----------------------------------------------------------------------------
(* Properties.                                                             *)

\* Days, snapshots, records and requests keep their types.
TypeOK ==
  /\ day \in Days /\ book \in Book
  /\ snaps \in [Days -> Snapshot \union {None}]
  /\ Cardinality(entries) <= 1 /\ UNION entries \subseteq Entry
  /\ Cardinality(outcomes) <= 1
  /\ \A d \in outcomes : \A i \in DOMAIN d : d[i] \in Outcome
  /\ growths \subseteq Growth

\* The position-diff pacing charges the week with no more than the short legs that
\* were opened, SPY aside, between the snapshots it compares, and with no less than
\* the tickers have gained from the first to the last: rolls count nothing, a leg
\* opened and closed on different days counts.  (weekly_position_opens: the chain,
\* the replaced snapshots, the pruning.)  A snapshot of an unreadable book breaks
\* this for as long as it is in the chain.
PacingBracketsOpens ==
  LET earlier == {d \in Taken(snaps) : d < Monday}
      start == IF earlier = {} THEN Min(Taken(snaps)) ELSE Max(earlier)
      first == snaps[start]
      last == snaps[Max(Taken(snaps))]
      opened == {g \in growths : /\ g.fresh /\ g.leg \notin Hedges
                                 /\ first.at < g.at /\ g.at <= last.at}
      opens == PositionOpens
  IN  (\A d \in Taken(snaps) : d >= start => ~snaps[d].blind) /\ opens.available
        => opens.used \in Gain(first.legs, last.legs) .. Cardinality(opened)

\* Entry conditions are recorded only for a leg that was opened or enlarged between
\* the two snapshots that were compared: the first snapshot back-fills nothing.
\* (capture_position_snapshot, "Skip when there's no prior snapshot".)  A snapshot
\* of an unreadable book makes every leg of the next one look opened.
BackfillsNothing ==
  \A e \in UNION entries :
    e.prior.blind \/ \E g \in growths : /\ g.leg = e.leg
                                        /\ e.prior.at < g.at /\ g.at <= e.at

\* While requests do not overlap, whatever fails, no two closed trades take their
\* entry conditions from one record.  (_lookup_entry_conditions saves the store
\* without the record before the trade is logged.)
RecordUsedOnce ==
  ~overlapped =>
    \A d \in outcomes : \A i, j \in DOMAIN d :
      d[i].entry # None /\ d[i].entry = d[j].entry => i = j

=============================================================================
