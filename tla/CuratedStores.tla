---------------------------- MODULE CuratedStores ----------------------------
(***************************************************************************)
(* The calendars that routes/options_analytics.py keeps for the catalyst   *)
(* gates: macro events, headlines and ex-dividend dates.  They are posted  *)
(* whole, stored by open(path, "w") and a dump, and read by gates that     *)
(* answer from an empty calendar when the file cannot be read.  The three  *)
(* stores share no state and their code differs in the row only: `kind` is *)
(* the one a behaviour looks at.                                           *)
(* A row is [subject, day, weighty]: an event of a label, the last headline*)
(* of a ticker or the ex-date of one; weighty is a high impact, a material *)
(* headline, and always TRUE of an ex-date; day is NoDay when it is not a  *)
(* date.                                                                   *)
(***************************************************************************)
EXTENDS Integers, FiniteSets

CONSTANTS
  Threads,     \* worker threads of the web server
  Payloads,    \* the sets of rows a caller may post
  Calls,       \* short calls that may be held, see Books
  LastDay,     \* bound on the days that pass
  DeferDays,   \* catalyst.defer_days
  Cooldown,    \* catalyst.news_spike_cooldown_days
  NoDay, Torn, Unreadable

Kinds == {"macro", "news", "ex_div"}

\* What the model assumes of its constants; the module that instantiates it
\* states it as an ASSUME.
StoresAssumption ==
  /\ LastDay \in Nat /\ DeferDays \in Nat /\ Cooldown \in Nat
  /\ \A p \in Payloads : \A r \in p :
       r.day \in Int \union {NoDay} /\ r.weighty \in BOOLEAN

VARIABLES
  kind,    \* the store looked at
  file,    \* Torn, or what it holds: the rows and whether they are stamped
  writing, \* per thread: the set of what it has truncated the file to write
  posted,  \* history: the rows of the last post that was stored whole
  book,    \* the short calls read back, or Unreadable
  today

vars == <<kind, file, writing, posted, book, today>>

------------------------------------------------------------------------------
\* A row without a date is dropped before the calendar is stored.
Clean(rows) == {r \in rows : r.day # NoDay}

Empty == [rows |-> {}, stamped |-> FALSE]

\* The variant whose default carries a stamp.
LoadStamped(f) == IF f = Torn THEN [Empty EXCEPT !.stamped = TRUE] ELSE f

\* What a gate reads: a file that cannot be parsed is an empty calendar.
Load(f) == IF f = Torn THEN Empty ELSE f

Stale == ~Load(file).stamped

\* A high-impact event that lies at most DeferDays ahead.
DeferAdvisory(rows) ==
  \E r \in rows : r.weighty /\ r.day - today \in 0 .. DeferDays

\* A material headline that is not yet Cooldown days old.
CooldownActive(rows, ticker) ==
  \E r \in rows : /\ r.subject = ticker /\ r.weighty
                  /\ today - r.day \in 0 .. Cooldown - 1

\* The short calls the gate sees: none when the book cannot be read.
ShortCalls == IF book = Unreadable THEN {} ELSE book

\* A short call in or near the money that an ex-date not past its expiry
\* exposes to early assignment.
AssignmentRisks(rows) ==
  {c \in ShortCalls :
     /\ c.money \in {"itm", "near"}
     /\ \E r \in rows : r.subject = c.ticker /\ r.day \in today .. c.expiry}

\* What the gate warns of.
Warnings(rows) ==
  CASE kind = "macro" -> {r.subject : r \in {x \in rows : DeferAdvisory({x})}}
    [] kind = "news" -> {r.subject : r \in {x \in rows : CooldownActive(rows, x.subject)}}
    [] kind = "ex_div" -> {c.ticker : c \in AssignmentRisks(rows)}

------------------------------------------------------------------------------
TypeOK ==
  /\ kind \in Kinds
  /\ file = Torn \/ file.stamped \in BOOLEAN
  /\ \A t \in Threads : Cardinality(writing[t]) <= 1
  /\ today \in 0 .. LastDay

Books == {Unreadable} \union SUBSET Calls

Init ==
  /\ kind \in Kinds
  /\ file \in {Empty, Torn}
  /\ writing = [t \in Threads |-> {}]
  /\ posted = {}
  /\ book \in Books
  /\ today = 0

\* The post has built the new calendar and opens the file, which empties it.
OpenStore(t) ==
  /\ writing[t] = {}
  /\ \E p \in Payloads : writing' = [writing EXCEPT ![t] = {Clean(p)}]
  /\ file' = Torn
  /\ UNCHANGED <<kind, posted, book, today>>

\* The dump goes to the start of the file.  Over the text of another post that
\* opened it as well it leaves a tail, unless it is the longer one.
FillStore(t) ==
  \E rows \in writing[t] :
    /\ writing' = [writing EXCEPT ![t] = {}]
    /\ posted' = rows
    /\ \/ file' = [rows |-> rows, stamped |-> TRUE]
       \/ file # Torn /\ file' = Torn
    /\ UNCHANGED <<kind, book, today>>

\* The dump fails: the caller is told, the file stays as it is.
FillFails(t) ==
  /\ writing[t] # {}
  /\ writing' = [writing EXCEPT ![t] = {}]
  /\ UNCHANGED <<kind, file, posted, book, today>>

\* The process dies and comes back.
Crash ==
  /\ \E t \in Threads : writing[t] # {}
  /\ writing' = [t \in Threads |-> {}]
  /\ UNCHANGED <<kind, file, posted, book, today>>

NextDay ==
  /\ today < LastDay
  /\ today' = today + 1
  /\ UNCHANGED <<kind, file, writing, posted, book>>

\* The market moves, positions change or cannot be read.
BookMoves ==
  /\ book' \in Books \ {book}
  /\ UNCHANGED <<kind, file, writing, posted, today>>

Next ==
  \/ \E t \in Threads : OpenStore(t) \/ FillStore(t) \/ FillFails(t)
  \/ Crash \/ NextDay \/ BookMoves

Spec == Init /\ [][Next]_vars

------------------------------------------------------------------------------
(* Properties                                                              *)

\* A gate that keeps silent knows why: whatever posts overlap, fail or die
\* half way, it warns of everything the last stored post warns of, or it says
\* that its calendar is stale.
SilenceIsInformed == Stale \/ Warnings(Load(file).rows) = Warnings(posted)

=============================================================================
