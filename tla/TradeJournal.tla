----------------------------- MODULE TradeJournal -----------------------------
(***************************************************************************)
(* The ticker universe and the trade journal (routes/universe.py,          *)
(* routes/journal.py): two documents that every route reads whole, changes *)
(* and saves whole.  The routes run in worker threads and nothing stops    *)
(* one from saving over what another saved after it had read.              *)
(* An edit is a relation between a document and the ones a route may make  *)
(* of it; a refused request makes none.                                    *)
(***************************************************************************)
EXTENDS Integers, Sequences, FiniteSets

CONSTANTS
  Threads, Tickers,
  Ids,       \* the identifiers of journal entries, each given once
  Actions,   \* the actions of new entries
  None

Tiers == {"tier1", "tier2", "macro"}
NoteActions == {"NOTE", "OBSERVE"}
PositionActions == {"OPEN", "ADD", "ROLL", "TRIM", "CLOSE", "ADJUST"}

\* What the model assumes of its constants; the module that instantiates it
\* states it as an ASSUME.
JournalAssumption ==
  /\ Actions \subseteq NoteActions \union PositionActions
  /\ None \notin Ids /\ None \notin Threads

VARIABLES
  universe,  \* [tier |-> a set per tier, excluded |-> a set], or None if unreadable
  journal,   \* the entries: a function on the identifiers in use
  proc,      \* per thread: None, or the document it is about to save
  used       \* history: the identifiers given out

vars == <<universe, journal, proc, used>>

------------------------------------------------------------------------------
(* routes/universe.py                                                      *)

Active(u) == UNION {u.tier[k] : k \in Tiers}

AddTicker(u) ==
  {[u EXCEPT !.tier[k] = @ \union {t}] :
     k \in Tiers, t \in Tickers \ (Active(u) \union u.excluded)}

RemoveTicker(u) ==
  UNION {{[u EXCEPT !.tier[k] = @ \ {t}] : t \in u.tier[k]} : k \in Tiers}

MoveTicker(u) ==
  UNION {{[u EXCEPT !.tier[k] = @ \ {t}, !.tier[l] = @ \union {t}] :
            t \in u.tier[k], l \in Tiers \ {k}} : k \in Tiers}

\* Excluding takes the ticker out of every tier, and is refused, with nothing
\* saved, when it is excluded already.
ExcludeTicker(u) ==
  {[tier |-> [k \in Tiers |-> u.tier[k] \ {t}], excluded |-> u.excluded \union {t}] :
     t \in Tickers \ u.excluded}

UnexcludeTicker(u) == {[u EXCEPT !.excluded = @ \ {t}] : t \in u.excluded}

UniverseEdits(u) ==
  AddTicker(u) \union RemoveTicker(u) \union MoveTicker(u)
  \union ExcludeTicker(u) \union UnexcludeTicker(u)

------------------------------------------------------------------------------
(* routes/journal.py                                                       *)

\* The ticker of entries that are about none.
General == "GENERAL"

\* A trade outside the universe is logged with a justification only; notes and
\* general entries are, and so is everything when the universe cannot be read.
Admitted(action, ticker, flagged, justified) ==
  /\ flagged => justified
  /\ \/ action \in NoteActions
     \/ ticker = General
     \/ universe = None
     \/ ticker \in Active(universe) \union universe.excluded
     \/ flagged \/ justified

\* A new entry.  The excluded list holds records with a ticker, which the code
\* takes for part of the universe like the tiers.
CreateEntry(j) ==
  {[i \in DOMAIN j \union {new} |->
      IF i = new THEN [action |-> a, open |-> None, close |-> None] ELSE j[i]] :
     new \in Ids \ (used \union DOMAIN j),
     a \in {x \in Actions :
              \E t \in Tickers \union {General}, f \in BOOLEAN, w \in BOOLEAN :
                Admitted(x, t, f, w)}}

DeleteEntry(j) ==
  {[i \in DOMAIN j \ {gone} |-> j[i]] : gone \in DOMAIN j}

Closes(j) == {i \in DOMAIN j : j[i].action \in {"CLOSE", "TRIM", "ROLL"}}
Opens(j) == {i \in DOMAIN j : j[i].action \in {"OPEN", "ADD", "ROLL"}}

\* The closing entry is stamped with the opening one, then the opening entry,
\* as it was read, with the closing one.
Stamped(j, c, o) ==
  [i \in DOMAIN j |-> IF i = o THEN [j[i] EXCEPT !.close = c]
                      ELSE IF i = c THEN [j[i] EXCEPT !.open = o]
                      ELSE j[i]]

\* The variant that links an entry to itself.
LinkAny(j) == UNION {{Stamped(j, c, o) : o \in Opens(j)} : c \in Closes(j)}

LinkClose(j) == UNION {{Stamped(j, c, o) : o \in Opens(j) \ {c}} : c \in Closes(j)}

JournalEdits(j) == CreateEntry(j) \union DeleteEntry(j) \union LinkClose(j)

------------------------------------------------------------------------------
TypeOK ==
  /\ universe = None \/ universe.excluded \subseteq Tickers
  /\ DOMAIN journal \subseteq Ids
  /\ used \subseteq Ids

NoTicker == [tier |-> [k \in Tiers |-> {}], excluded |-> {}]

Init ==
  /\ universe \in {NoTicker, None}
  /\ journal = << >>
  /\ proc = [t \in Threads |-> None]
  /\ used = {}

\* A route has read the universe and makes its change.
ReadUniverse(t) ==
  /\ proc[t] = None /\ universe # None
  /\ \E u \in UniverseEdits(universe) :
       proc' = [proc EXCEPT ![t] = [of |-> "universe", doc |-> u]]
  /\ UNCHANGED <<universe, journal, used>>

\* A route has read the journal and makes its change.
ReadJournal(t) ==
  /\ proc[t] = None
  /\ \E j \in JournalEdits(journal) :
       /\ proc' = [proc EXCEPT ![t] = [of |-> "journal", doc |-> j]]
       /\ used' = used \union DOMAIN j
  /\ UNCHANGED <<universe, journal>>

\* It saves the document, or cannot and answers with an error.
Save(t) ==
  /\ proc[t] # None
  /\ \/ /\ proc[t].of = "universe"
        /\ universe' \in {proc[t].doc, universe}
        /\ UNCHANGED journal
     \/ /\ proc[t].of = "journal"
        /\ journal' \in {proc[t].doc, journal}
        /\ UNCHANGED universe
  /\ proc' = [proc EXCEPT ![t] = None]
  /\ UNCHANGED used

Next == \E t \in Threads : ReadUniverse(t) \/ ReadJournal(t) \/ Save(t)

Spec == Init /\ [][Next]_vars

------------------------------------------------------------------------------
(* Properties                                                              *)

\* Links come in pairs: an entry that names a partner still in the journal
\* names one that carries a stamp itself, so neither half of a link is saved
\* alone.  (The partner may since have been linked to another entry.)
LinksComeInPairs ==
  \A i \in DOMAIN journal :
    /\ journal[i].open \in DOMAIN journal => journal[journal[i].open].close # None
    /\ journal[i].close \in DOMAIN journal => journal[journal[i].close].open # None

=============================================================================
