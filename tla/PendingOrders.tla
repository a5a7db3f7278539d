---------------------------- MODULE PendingOrders ----------------------------
(***************************************************************************)
(* The approval queue of app/routes/orders.py over pending_orders.json.    *)
(*                                                                         *)
(* FastAPI runs every `def` handler in a thread pool, and nothing locks    *)
(* the file: a handler reads the whole queue, may call IBKR for seconds,   *)
(* and saves the whole queue it read.  Each handler is therefore split     *)
(* where another thread can run: after its read and guards, after each     *)
(* call to IBKR, and at its save.  (How a save reaches the disk is         *)
(* StateStore's subject; here the replacement of the file is one step.)    *)
(*                                                                         *)
(* Refused requests (404, 409, 503 for a missing account) change nothing   *)
(* and are the absence of a step.                                          *)
(***************************************************************************)
EXTENDS Naturals, FiniteSets

CONSTANTS
  Orders,       \* the uuids submit_pending_order can draw
  DayOrders,    \* those submitted with tif = "DAY"
  Threads,      \* the worker threads that run handlers
  Outcomes,     \* what IBKR may answer to place_order, see Outcome
  MaxRequests,  \* bound on handlers started
  MaxFaults     \* bound on failed requests and crashes

Outcome == {"accepted", "silent", "unconfirmed", "rejected", "lost"}

\* The outcomes that leave an order at the broker, those place_order reports as
\* ok, and those that are both.
Reaching == {"accepted", "silent", "lost"}
ReportedOk == {"accepted", "silent", "unconfirmed"}
Acknowledged == Reaching \intersect ReportedOk

ASSUME OrdersAssumption ==
  /\ DayOrders \subseteq Orders
  /\ Outcomes \subseteq Outcome
  /\ IsFiniteSet(Threads)
  /\ MaxRequests \in Nat
  /\ MaxFaults \in Nat

VARIABLES
  queue,      \* the file: the entry of every order, "absent" when it has none
  th,         \* what each thread's handler has read, computed and done
  issued,     \* ids drawn so far (uuid4 never repeats)
  placed,     \* broker: how many orders it has accepted under each id
  approvals,  \* history: approve requests started for each id
  excused,    \* history: placements the queue has lost track of or released
  overlapped, \* history: some handler started while another was running
  requests,   \* handlers started, bounded by MaxRequests
  faults      \* failed requests and crashes, bounded by MaxFaults

vars == <<queue, th, issued, placed, approvals, excused, overlapped,
          requests, faults>>
history == <<approvals, excused, overlapped, requests, faults>>

Status == {"pending", "submitted", "failed", "declined", "expired"}

\* An entry of the queue: its status, whether every leg has its conid, and
\* ibkr_order_id as "the ref-th order the broker accepted" (0 for None).
Entry == [status: Status \union {"absent"}, conids: BOOLEAN, ref: Nat]
NoEntry == [status |-> "absent", conids |-> FALSE, ref |-> 0]
NewEntry == [status |-> "pending", conids |-> FALSE, ref |-> 0]

Queue == [Orders -> Entry]

Op == {"submit", "decline", "force", "expire", "preview", "approve"}

\* A thread: its handler's next step (idle when it runs none), the operation,
\* the orders it is about, the queue it will save, and whether it has placed
\* an order that no save has recorded yet.
Thread == [pc: {"idle", "resolve", "place", "save"}, op: Op,
           about: SUBSET Orders, data: Queue, live: BOOLEAN]

NoHandler == [pc |-> "idle", op |-> "submit", about |-> {},
              data |-> [o \in Orders |-> NoEntry], live |-> FALSE]

Idle(t) == th[t].pc = "idle"

\* What _find_order and the guard of approve_order let through.
Offered(e) == e.status \notin {"absent", "submitted", "declined"}

\* The entries, statuses and copies of the handlers, and what the broker counts,
\* keep their types: no handler writes a status the code does not know.
TypeOK ==
  /\ queue \in Queue
  /\ th \in [Threads -> Thread]
  /\ issued \subseteq Orders
  /\ placed \in [Orders -> Nat]
  /\ approvals \in [Orders -> Nat]
  /\ excused \in [Orders -> Nat]
  /\ overlapped \in BOOLEAN
  /\ requests \in 0..MaxRequests
  /\ faults \in 0..MaxFaults

Init ==
  /\ queue = [o \in Orders |-> NoEntry]
  /\ th = [t \in Threads |-> NoHandler]
  /\ issued = {}
  /\ placed = [o \in Orders |-> 0]
  /\ approvals = [o \in Orders |-> 0]
  /\ excused = [o \in Orders |-> 0]
  /\ overlapped = FALSE
  /\ requests = 0
  /\ faults = 0

-----------------------------------------------------------------------------
(* The read-and-check part of each handler.                                *)

\* Thread t starts a handler: it has read the file, passed the guards and will
\* go on at pc with data as its copy of the queue.
Start(t, op, about, pc, data) ==
  /\ Idle(t)
  /\ requests < MaxRequests
  /\ th' = [th EXCEPT ![t] = [pc |-> pc, op |-> op, about |-> about,
                              data |-> data, live |-> FALSE]]
  /\ overlapped' = (overlapped \/ \E u \in Threads : ~Idle(u))
  /\ requests' = requests + 1
  /\ UNCHANGED <<queue, placed, excused, faults>>

SubmitPendingOrder(t, o) ==
  /\ o \notin issued
  /\ issued' = issued \union {o}
  /\ Start(t, "submit", {o}, "save", [queue EXCEPT ![o] = NewEntry])
  /\ UNCHANGED approvals

DeclineOrder(t, o) ==
  /\ queue[o].status \notin {"absent", "submitted"}
  /\ Start(t, "decline", {o}, "save",
           [queue EXCEPT ![o].status = "declined"])
  /\ UNCHANGED <<issued, approvals>>

ForceDeclineOrder(t, o) ==
  /\ queue[o].status # "absent"
  /\ Start(t, "force", {o}, "save", [queue EXCEPT ![o].status = "declined"])
  /\ UNCHANGED <<issued, approvals>>

Stale(o) == queue[o].status = "submitted" /\ o \in DayOrders

ExpireStaleOrders(t) ==
  /\ Start(t, "expire", {o \in Orders : Stale(o)}, "save",
           [o \in Orders |-> IF Stale(o)
                             THEN [queue[o] EXCEPT !.status = "expired"]
                             ELSE queue[o]])
  /\ UNCHANGED <<issued, approvals>>

PreviewOrderRequeues(t, o) ==
  /\ queue[o].status # "absent"
  /\ Start(t, "preview", {o}, "resolve",
           [queue EXCEPT ![o].status = "pending"])
  /\ UNCHANGED <<issued, approvals>>

PreviewOrder(t, o) ==
  /\ queue[o].status \notin {"absent", "submitted"}
  /\ Start(t, "preview", {o}, "resolve", queue)
  /\ UNCHANGED <<issued, approvals>>

ApproveOrderTwice(t, o) ==
  /\ queue[o].status \notin {"absent", "declined"}
  /\ Start(t, "approve", {o}, "resolve", queue)
  /\ approvals' = [approvals EXCEPT ![o] = @ + 1]
  /\ UNCHANGED issued

ApproveOrderDeclined(t, o) ==
  /\ queue[o].status \notin {"absent", "submitted"}
  /\ Start(t, "approve", {o}, "resolve", queue)
  /\ approvals' = [approvals EXCEPT ![o] = @ + 1]
  /\ UNCHANGED issued

ApproveOrder(t, o) ==
  /\ Offered(queue[o])
  /\ Start(t, "approve", {o}, "resolve", queue)
  /\ approvals' = [approvals EXCEPT ![o] = @ + 1]
  /\ UNCHANGED issued

-----------------------------------------------------------------------------
(* The calls to IBKR.                                                      *)

\* Handler h goes on at pc, the entry of o in its copy being e.
GoesOn(h, pc, o, e) == [h EXCEPT !.pc = pc, !.data = [@ EXCEPT ![o] = e]]

\* resolve_leg_conids keeps the conids it finds in the legs and asks IBKR for
\* the others.  A preview goes on either way; an approval whose legs are not
\* all resolved is saved as failed, its partial result with it.
ResolvedEntry(e, op, found) ==
  [e EXCEPT !.conids = found,
            !.status = IF op = "approve" /\ ~found THEN "failed" ELSE @]

ResolveLegConids(t) ==
  \E o \in th[t].about, found \in BOOLEAN :
    LET h == th[t]
        next == IF h.op = "approve" /\ found THEN "place" ELSE "save"
    IN
    /\ h.pc = "resolve"
    /\ h.data[o].conids => found
    /\ th' = [th EXCEPT ![t] =
                GoesOn(h, next, o, ResolvedEntry(h.data[o], h.op, found))]
    /\ UNCHANGED <<queue, issued, placed, history>>

\* The branch of approve_order on the result r of place_order, n being the
\* order id the broker gives.  The broker accepts the order and says so
\* (accepted); accepts it on a reply whose answer is lost, so that place_order
\* reports ok with the old prompt as its result (silent); leaves it unaccepted
\* behind a result place_order still reports as ok, a prompt that is never
\* confirmed or an error in a 200 (unconfirmed); refuses it (rejected); or
\* accepts it while the answer to the first request is lost to a timeout or a
\* 5xx, which is reported as an error (lost).  Only the first has an order id.
AnsweredEntry(e, r, n) ==
  [e EXCEPT
     !.status = IF r \in ReportedOk THEN "submitted" ELSE "failed",
     !.ref = CASE r = "accepted" -> n
               [] r \in {"silent", "unconfirmed"} -> 0
               [] OTHER -> @]

PlaceOrder(t) ==
  \E o \in th[t].about, r \in Outcomes :
    LET h == th[t]
        e == AnsweredEntry(h.data[o], r, placed[o] + 1)
    IN
    /\ h.pc = "place"
    /\ placed' = IF r \in Reaching
                 THEN [placed EXCEPT ![o] = @ + 1] ELSE placed
    /\ excused' = IF r = "lost" THEN [excused EXCEPT ![o] = @ + 1] ELSE excused
    /\ th' = [th EXCEPT ![t] =
                [GoesOn(h, "save", o, e) EXCEPT !.live = (r \in Acknowledged)]]
    /\ UNCHANGED <<queue, issued, approvals, overlapped, requests, faults>>

-----------------------------------------------------------------------------
(* The end of a handler.                                                   *)

Released(t, o) ==
  queue[o].status = "submitted" /\ th[t].data[o].status = "expired"

\* state.save_pending_orders: the file becomes the copy the handler worked on.
SavePendingOrders(t) ==
  /\ th[t].pc = "save"
  /\ queue' = th[t].data
  /\ th' = [th EXCEPT ![t] = NoHandler]
  /\ excused' = [o \in Orders |->
                   IF Released(t, o) THEN excused[o] + 1 ELSE excused[o]]
  /\ UNCHANGED <<issued, placed, approvals, overlapped, requests, faults>>

\* The placements of o that are forgotten when the threads of T stop now.
Forgotten(T, o) == {t \in T : th[t].live /\ o \in th[t].about}

Stop(T) ==
  /\ faults < MaxFaults
  /\ faults' = faults + 1
  /\ th' = [t \in Threads |-> IF t \in T THEN NoHandler ELSE th[t]]
  /\ excused' = [o \in Orders |->
                   excused[o] + Cardinality(Forgotten(T, o))]
  /\ UNCHANGED <<queue, issued, placed, approvals, overlapped, requests>>

\* An exception leaves the handler before its save: an expiry that is no date,
\* a StateError, a full disk.
RequestFails(t) == ~Idle(t) /\ Stop({t})

\* The process dies and is started again: the file is all that is left.
Crash == (\E t \in Threads : ~Idle(t)) /\ Stop(Threads)

-----------------------------------------------------------------------------
Handler(t) ==
  \/ \E o \in Orders : \/ SubmitPendingOrder(t, o)
                       \/ DeclineOrder(t, o)
                       \/ ForceDeclineOrder(t, o)
                       \/ PreviewOrder(t, o)
                       \/ ApproveOrder(t, o)
  \/ ExpireStaleOrders(t)
  \/ ResolveLegConids(t)
  \/ PlaceOrder(t)
  \/ SavePendingOrders(t)
  \/ RequestFails(t)

Next == Crash \/ \E t \in Threads : Handler(t)

Spec == Init /\ [][Next]_vars

-----------------------------------------------------------------------------
(* What the queue promises.                                                *)

\* However handlers interleave, fail or crash, IBKR holds no more orders under
\* an id than approve_order was called for it: nothing else (a preview, a
\* resubmission, an expiry) reaches the broker, and an approval places once.
PlacedOnlyByApproval == \A o \in Orders : placed[o] <= approvals[o]

\* However handlers interleave, an ibkr_order_id in the file was issued by the
\* broker for that very order, and an entry shown as pending has none.
BrokerIdGenuine ==
  \A o \in Orders :
    /\ queue[o].ref <= placed[o]
    /\ queue[o].status = "pending" => queue[o].ref = 0

\* As long as no two handlers have overlapped, approving an order again never
\* doubles it at the broker: every placement beyond the first follows a lost
\* answer, a crash before the save, or an expiry of the earlier one.
OneLivePlacement ==
  ~overlapped => \A o \in Orders : placed[o] <= excused[o] + 1

\* As long as no two handlers have overlapped, an order that the file offers
\* for approval is not at the broker (but for the same excuses), except while
\* the approval that placed it is about to save.
OfferedMeansNotLive ==
  ~overlapped =>
    \A o \in Orders :
      Offered(queue[o]) /\ Forgotten(Threads, o) = {}
        => placed[o] <= excused[o]

\* As long as no two handlers have overlapped, a declined order stays declined
\* and no entry disappears from the queue: both need a stale copy to be saved.
DeclineIsFinal ==
  [][~overlapped' =>
       \A o \in Orders :
         /\ queue[o].status = "declined" => queue'[o].status = "declined"
         /\ queue[o].status # "absent" => queue'[o].status # "absent"]_vars

\* "Cannot decline an order already submitted to IBKR." (decline_order) and
\* "Order declined. Nothing submitted to IBKR." (the MCP workflow guide): when
\* decline_order saves and answers 200, the broker holds no order of that id.
DeclineLeavesNothingAtBroker ==
  [][\A t \in Threads, o \in Orders :
       SavePendingOrders(t) /\ th[t].op = "decline" /\ o \in th[t].about
         => placed[o] = 0]_vars

=============================================================================
