----------------------------- MODULE MarketFlow -----------------------------
(***************************************************************************)
(* How routes/market_intelligence.py fetches a ticker's numbers.  The data *)
(* service keeps one filter per user, a PUT of /user/attributes, and every *)
(* widget answers for the ticker of the filter.  A request therefore sets  *)
(* the filter and then reads its widgets; requests on system pages hold    *)
(* _QD_SYSTEM_LOCK meanwhile, those of a ticker with a page of its own and *)
(* the charts of routes/chart.py do not.  Each request answers from a      *)
(* cache of five minutes first, and fills it.  The session date is left    *)
(* out: one date is asked for.                                             *)
(***************************************************************************)
EXTENDS Integers, FiniteSets, Sequences

CONSTANTS
  Requests,     \* slots for requests that run at once
  System,       \* tickers served by the system pages
  Partial,      \* tickers with a page of their own for some widgets (MSFT)
  Dedicated,    \* tickers with a page of their own for all of them
  Charts,       \* tickers whose chart is drawn
  NoTicker, NoRequest,
  MaxAsked      \* bound on the requests of a behaviour

Tickers == System \union Partial \union Dedicated \union Charts

\* What the model assumes of its constants; the module that instantiates it
\* states it as an ASSUME.
FlowAssumption ==
  /\ NoTicker \notin Tickers /\ NoRequest \notin Requests
  /\ System \intersect (Partial \union Dedicated) = {}
  /\ Partial \intersect Dedicated = {}
  /\ MaxAsked \in Nat

VARIABLES
  filter,  \* the ticker of the user's filter
  lock,    \* who holds _QD_SYSTEM_LOCK
  req,     \* each request: its ticker, what it has left to do, what it read
  cache,   \* for each ticker, the tickers its cached numbers are of, or {}
  asked

vars == <<filter, lock, req, cache, asked>>

Widgets == {"gex", "dp", "drift"}

\* What a request does in turn, per kind of page: the filter is set again for
\* each widget that is on another page.
Plan(kind) ==
  CASE kind = "system" -> <<"set", "gex", "set", "dp", "set", "drift">>
    [] kind = "partial" -> <<"set", "set", "gex", "dp", "set", "drift">>
    [] kind = "dedicated" -> <<"set", "gex", "dp", "drift">>
    [] OTHER -> <<"set", "set", "dp", "gex">>
Kind(t) == IF t \in System THEN "system"
           ELSE IF t \in Partial THEN "partial" ELSE "dedicated"

\* The variant that locks for tickers without a page of their own only.
LocksSystemOnly(kind) == kind = "system"

\* has_system_fallback: whether the request takes the lock.
Locks(kind) == kind \in {"system", "partial"}

\* A request: its ticker and kind, the steps left, what each widget showed
\* (NoTicker when nothing came), and, kept to state the properties, whether
\* another request without the lock has set the filter during its run and
\* whether a PUT of its own has failed.
Idle == [ticker |-> NoTicker, kind |-> "none", todo |-> << >>,
         got |-> [w \in Widgets |-> NoTicker], mixed |-> FALSE, unset |-> FALSE]

TypeOK ==
  /\ filter \in Tickers \union {NoTicker}
  /\ lock \in Requests \union {NoRequest}
  /\ cache \in [Tickers -> SUBSET (Tickers \union {NoTicker})]
  /\ asked \in 0 .. MaxAsked
  /\ \A r \in Requests : req[r].ticker \in Tickers \union {NoTicker}

Init ==
  /\ filter = NoTicker
  /\ lock = NoRequest
  /\ req = [r \in Requests |-> Idle]
  /\ cache = [t \in Tickers |-> {}]
  /\ asked = 0

------------------------------------------------------------------------------

\* GET /market-intelligence of a ticker that is not in the cache.  One that is
\* changes nothing.
Ask(r, t) ==
  /\ req[r] = Idle /\ asked < MaxAsked
  /\ t \in System \union Partial \union Dedicated
  /\ cache[t] = {}
  /\ req' = [req EXCEPT ![r].ticker = t, ![r].kind = Kind(t), ![r].todo = Plan(Kind(t))]
  /\ asked' = asked + 1
  /\ UNCHANGED <<filter, lock, cache>>

\* The chart of a ticker on the system pages; it has no cache of its own here.
DrawChart(r, t) ==
  /\ req[r] = Idle /\ asked < MaxAsked
  /\ t \in Charts
  /\ req' = [req EXCEPT ![r].ticker = t, ![r].kind = "chart", ![r].todo = Plan("chart")]
  /\ asked' = asked + 1
  /\ UNCHANGED <<filter, lock, cache>>

Begins(r) == req[r].ticker # NoTicker /\ req[r].todo = Plan(req[r].kind)

\* with _QD_SYSTEM_LOCK.
Acquire(r) ==
  /\ Begins(r) /\ Locks(req[r].kind)
  /\ lock = NoRequest
  /\ lock' = r
  /\ UNCHANGED <<filter, req, cache, asked>>

Doing(r) == req[r].todo[1]
Runs(r) == req[r].todo # << >> /\ (Locks(req[r].kind) => lock = r)
Rest(r) == Tail(req[r].todo)

\* _set_global_filter: the PUT, for every widget the user has open.
SetFilter(r) ==
  /\ Runs(r) /\ Doing(r) = "set"
  /\ filter' = req[r].ticker
  /\ req' = [q \in Requests |->
       IF q = r THEN [req[r] EXCEPT !.todo = Rest(r)]
       ELSE [req[q] EXCEPT !.mixed = @ \/ (lock # r /\ req[q].ticker # NoTicker)]]
  /\ UNCHANGED <<lock, cache, asked>>

\* The PUT fails, or there is no user id: a warning, and the request goes on.
SetFails(r) ==
  /\ Runs(r) /\ Doing(r) = "set"
  /\ req' = [req EXCEPT ![r].todo = Rest(r), ![r].unset = TRUE]
  /\ UNCHANGED <<filter, lock, cache, asked>>

\* _fetch_gex, _fetch_dp, _fetch_net_drift: the widget shows the filter's
\* ticker, or nothing comes.
Fetch(r, ok) ==
  /\ Runs(r) /\ Doing(r) \in Widgets
  /\ req' = [req EXCEPT ![r].todo = Rest(r),
                        ![r].got[Doing(r)] = IF ok THEN filter ELSE NoTicker]
  /\ UNCHANGED <<filter, lock, cache, asked>>

\* The lock goes, the regime is made of what was read, and cached under the
\* ticker that was asked for.
Finish(r) ==
  /\ req[r].ticker # NoTicker /\ req[r].todo = << >>
  /\ lock' = IF lock = r THEN NoRequest ELSE lock
  /\ cache' = IF req[r].kind = "chart" THEN cache
              ELSE [cache EXCEPT ![req[r].ticker] = {req[r].got[w] : w \in Widgets}]
  /\ req' = [req EXCEPT ![r] = Idle]
  /\ UNCHANGED <<filter, asked>>

\* Five minutes pass for an entry of the cache.
Expire(t) ==
  /\ cache[t] # {}
  /\ cache' = [cache EXCEPT ![t] = {}]
  /\ UNCHANGED <<filter, lock, req, asked>>

Step(r) == \/ Acquire(r) \/ SetFilter(r) \/ SetFails(r)
           \/ \E ok \in BOOLEAN : Fetch(r, ok)
           \/ Finish(r)

Next ==
  \/ \E r \in Requests : \/ \E t \in Tickers : Ask(r, t) \/ DrawChart(r, t)
                         \/ Step(r)
  \/ \E t \in Tickers : Expire(t)

Spec == Init /\ [][Next]_vars

------------------------------------------------------------------------------

\* A request that holds the lock reads numbers of its own ticker, unless a PUT
\* of it failed or a request without the lock set the filter meanwhile: among
\* themselves the requests on the system pages do not mix their tickers.
LockedReadsOwn ==
  \A r \in Requests, w \in Widgets :
    req[r].kind \in {"system", "partial"} /\ ~req[r].mixed /\ ~req[r].unset
    => req[r].got[w] \in {NoTicker, req[r].ticker}

=============================================================================
