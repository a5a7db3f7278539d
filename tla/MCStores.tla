------------------------------- MODULE MCStores -------------------------------
(* The stores behind the gates, the ledger and the journal: CuratedStores,   *)
(* IvHistory, EarningsCalendar, TradeLedger and TradeJournal.  They share no *)
(* state, so a behaviour exercises one of them, its scope, and leaves the    *)
(* others at a first state.  Stores.cfg and TradeLedger.cfg give the         *)
(* constants their values for TLC; StoresProofs proves the invariants and    *)
(* steps for all of them.                                                    *)
EXTENDS Integers, FiniteSets, TLC

CONSTANTS
  Threads,
  Payloads, Calls, CuratedDays, DeferDays, Cooldown,       \* CuratedStores
  Tickers, Keep, IvDays,                                   \* IvHistory
  CalendarDays, LastDate, Blackout, Approaching,           \* EarningsCalendar
  CalendarRequests,
  Legs, Hedges, SameTicker, Qtys, FirstBooks, Monday,      \* TradeLedger
  KeepSnapshots, MaxDay, MaxTrades, MaxRequests, MaxFaults,
  Traded, Ids, Actions,                                    \* TradeJournal
  Scopes,                          \* the stores that behaviours exercise
  None, NoDate, NoEntry, Torn, Idle, Unreadable,
  t1, t2,                          \* the tickers of the payloads and calls below
  near, far, spy                   \* the legs of the books below

VARIABLES
  scope,
  kind, file, writing, posted, book, today,      \* CuratedStores
  ivFile, ivProc, ivToday, kept, excuse,         \* IvHistory
  calendar, present, default, calProc, missed,   \* EarningsCalendar
  calToday, calRequests,
  day, held, snaps, entries, outcomes, requesting,             \* TradeLedger
  captures, growths, overlapped, trades, requests, faults,
  universe, journal, jProc, used                 \* TradeJournal

Row(s, d, w) == [subject |-> s, day |-> d, weighty |-> w]

\* Two events of one day and one of another, each of weight or not, and one
\* without a date.
MCPayloads ==
  {{}, {Row(t1, 3, TRUE)}, {Row(t1, 1, TRUE), Row(t2, 3, TRUE)},
   {Row(t1, 2, FALSE), Row(t2, NoDate, TRUE)}}

MCCalls ==
  {[ticker |-> t1, expiry |-> 2, money |-> "itm"],
   [ticker |-> t1, expiry |-> 3, money |-> "near"],
   [ticker |-> t2, expiry |-> 3, money |-> "otm"]}

\* Two legs on one ticker, one of them short or doubly short, and one on SPY.
MCQtys == [l \in {near, far, spy} |->
             CASE l = near -> -2 .. 0 [] l \in {far, spy} -> -1 .. 0]
MCFirstBooks == {[l \in {near, far, spy} |-> IF l = far THEN 0 ELSE -1]}
MCSameTicker == {<<near, near>>, <<near, far>>, <<far, near>>, <<far, far>>, <<spy, spy>>}

C == INSTANCE CuratedStores WITH LastDay <- CuratedDays, NoDay <- NoDate

I == INSTANCE IvHistory WITH
  LastDay <- IvDays, file <- ivFile, proc <- ivProc, today <- ivToday

E == INSTANCE EarningsCalendar WITH
  LastDay <- CalendarDays, MaxRequests <- CalendarRequests,
  proc <- calProc, today <- calToday, requests <- calRequests

J == INSTANCE TradeJournal WITH Tickers <- Traded, proc <- jProc

L == INSTANCE TradeLedger WITH book <- held, th <- requesting

ASSUME StoresAssumption ==
  /\ C!StoresAssumption /\ I!HistoryAssumption /\ E!CalendarAssumption
  /\ L!LedgerAssumption /\ J!JournalAssumption

\* Worker threads, and identifiers, are interchangeable.
Symmetric == Permutations(Threads) \union Permutations(Ids)

cVars == <<kind, file, writing, posted, book, today>>
iVars == <<ivFile, ivProc, ivToday, kept, excuse>>
eVars == <<calendar, present, default, calProc, missed, calToday, calRequests>>
lVars == <<day, held, snaps, entries, outcomes, requesting,
           captures, growths, overlapped, trades, requests, faults>>
jVars == <<universe, journal, jProc, used>>
vars == <<scope, cVars, iVars, eVars, lVars, jVars>>

Init ==
  /\ scope \in Scopes
  /\ C!Init /\ I!Init /\ E!Init /\ L!Init /\ J!Init
  /\ scope # "curated" => kind = "macro" /\ file = Torn /\ book = {}
  /\ scope # "iv" => ivFile = {}
  /\ scope # "earnings" => present
  /\ scope # "ledger" => snaps = L!NoSnaps
  /\ scope # "journal" => universe = None

Next ==
  \/ scope = "curated" /\ C!Next /\ UNCHANGED <<scope, iVars, eVars, lVars, jVars>>
  \/ scope = "iv" /\ I!Next /\ UNCHANGED <<scope, cVars, eVars, lVars, jVars>>
  \/ scope = "earnings" /\ E!Next /\ UNCHANGED <<scope, cVars, iVars, lVars, jVars>>
  \/ scope = "ledger" /\ L!Next /\ UNCHANGED <<scope, cVars, iVars, eVars, jVars>>
  \/ scope = "journal" /\ J!Next /\ UNCHANGED <<scope, cVars, iVars, eVars, lVars>>

Spec == Init /\ [][Next]_vars

\* CuratedStores: a silent gate has read the last stored post, or says stale.
SilenceIsInformed == C!SilenceIsInformed

\* IvHistory: without overlaps and cut-off writes no snapshot is lost early.
HistoryKept == I!HistoryKept

\* EarningsCalendar: no request that has seen a confirmed date of a ticker it is
\* not about takes it away.
ConfirmedKept == E!ConfirmedKept

\* EarningsCalendar: an unknown, past or near date is never called clear.
NeverClearByMistake == E!NeverClearByMistake

\* TradeLedger: the pacing charges what was opened in the week.
PacingBracketsOpens == L!PacingBracketsOpens

\* TradeLedger: conditions are recorded for legs that grew.
BackfillsNothing == L!BackfillsNothing

\* TradeLedger: a record of entry conditions serves one closed trade.
RecordUsedOnce == L!RecordUsedOnce

\* TradeJournal: the two halves of a link are saved together.
LinksComeInPairs == J!LinksComeInPairs

=============================================================================
