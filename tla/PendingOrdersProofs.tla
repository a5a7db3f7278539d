-------------------------- MODULE PendingOrdersProofs --------------------------
(* Theorems about the approval queue, for every set of orders and threads.  *)
EXTENDS PendingOrders, FiniteSetTheorems, TLAPS

(***************************************************************************)
(* The inductive invariant.  Asking, Genuine and Fresh hold whatever the   *)
(* interleaving; Alone says what the single running handler holds as long  *)
(* as no two have overlapped.                                              *)
(***************************************************************************)

\* The approvals of o that may still place it.
Asking(o) == {t \in Threads : /\ th[t].op = "approve"
                              /\ th[t].pc \in {"resolve", "place"}
                              /\ o \in th[t].about}

AskingInv == \A o \in Orders : placed[o] + Cardinality(Asking(o)) <= approvals[o]

Genuine(d, n) ==
  \A o \in Orders : /\ d[o].ref <= n[o]
                    /\ d[o].status = "pending" => d[o].ref = 0

GenuineInv ==
  Genuine(queue, placed) /\ \A t \in Threads : Genuine(th[t].data, placed)

\* An id that was never drawn is nowhere.
FreshInv ==
  \A o \in Orders \ issued :
    /\ queue[o].status = "absent"
    /\ placed[o] = 0
    /\ \A t \in Threads : o \notin th[t].about /\ th[t].data[o].status = "absent"

\* The shape of a running handler, whatever the others do.
Shape(h) ==
  /\ h.pc = "place" => h.op = "approve"
  /\ h.pc = "resolve" => h.op \in {"approve", "preview"}
  /\ h.op # "expire" => \A o, p \in h.about : o = p
  /\ h.live => /\ h.pc = "save"
               /\ h.op = "approve"
               /\ \A o \in h.about : h.data[o].status = "submitted"

HandlerInv == \A t \in Threads : Shape(th[t])

\* What handler t holds when no other has touched the queue since its read.
CopyInv(t) ==
  \A o \in Orders :
    LET q == queue[o]
        d == th[t].data[o]
    IN
    /\ o \notin th[t].about => d = q
    /\ q.status = "declined" => d.status = "declined"
    /\ q.status # "absent" => d.status # "absent"
    /\ o \in th[t].about =>
         /\ th[t].op = "expire" => q.status = "submitted" /\ d.status = "expired"
         /\ th[t].op = "approve" => Offered(q)
         /\ th[t].op = "approve" /\ th[t].pc \in {"resolve", "place"} =>
              Offered(d)
         /\ th[t].op # "expire" /\ Offered(d) => placed[o] <= excused[o]

AloneInv ==
  ~overlapped =>
    /\ \A t, u \in Threads : ~Idle(t) /\ ~Idle(u) => t = u
    /\ \A o \in Orders : placed[o] <= excused[o] + 1
    /\ \A o \in Orders :
         Offered(queue[o]) /\ Forgotten(Threads, o) = {}
           => placed[o] <= excused[o]
    /\ \A t \in Threads : ~Idle(t) => CopyInv(t)

IInv == TypeOK /\ AskingInv /\ GenuineInv /\ FreshInv /\ HandlerInv /\ AloneInv

-----------------------------------------------------------------------------

\* A thread between two requests is a thread.
LEMMA NoHandlerType == NoHandler \in Thread
<1>1. [o \in Orders |-> NoEntry] \in Queue
  BY DEF Queue, Entry, NoEntry
<1>2. QED
  BY <1>1 DEF NoHandler, Thread, Op

\* A handler that goes on with a well-formed entry is a thread still.
LEMMA GoesOnType ==
  ASSUME NEW h \in Thread, NEW pc \in {"place", "save"},
         NEW o \in Orders, NEW e \in Entry
  PROVE  GoesOn(h, pc, o, e) \in Thread
<1>1. [h.data EXCEPT ![o] = e] \in Queue
  BY DEF Thread, Queue
<1>2. QED
  BY <1>1 DEF GoesOn, Thread

\* The entry approve_order makes of an answer is an entry.
LEMMA AnsweredEntryType ==
  ASSUME NEW e \in Entry, NEW r, NEW n \in Nat
  PROVE  AnsweredEntry(e, r, n) \in Entry
<1>1. CASE r = "accepted"
  BY <1>1 DEF AnsweredEntry, ReportedOk, Entry, Status
<1>2. CASE r \in {"silent", "unconfirmed"}
  BY <1>2 DEF AnsweredEntry, ReportedOk, Entry, Status
<1>3. CASE r \notin {"accepted", "silent", "unconfirmed"}
  BY <1>3 DEF AnsweredEntry, ReportedOk, Entry, Status
<1>4. QED
  BY <1>1, <1>2, <1>3

\* The placements forgotten by a stop are finitely many.
LEMMA ForgottenFinite ==
  ASSUME NEW T \in SUBSET Threads, NEW o \in Orders
  PROVE  /\ IsFiniteSet(Forgotten(T, o))
         /\ Cardinality(Forgotten(T, o)) \in Nat
         /\ Forgotten(T, o) # {} => Cardinality(Forgotten(T, o)) >= 1
<1>1. Forgotten(T, o) \subseteq Threads
  BY DEF Forgotten
<1>2. IsFiniteSet(Forgotten(T, o))
  BY <1>1, FS_Subset, OrdersAssumption DEF OrdersAssumption
<1>3. QED
  BY <1>2, FS_CardinalityType, FS_EmptySet

\* Type correctness of the approval queue: statuses, counters and the copies the
\* handlers work on stay what the code makes them, within the bounds.
THEOREM TypeCorrect == Spec => []TypeOK
<1> USE OrdersAssumption DEF OrdersAssumption
<1>1. Init => TypeOK
  <2>1. NoHandler \in Thread
    BY NoHandlerType
  <2>2. [o \in Orders |-> NoEntry] \in Queue
    BY DEF Queue, Entry, NoEntry
  <2>3. 0 \in 0..MaxRequests /\ 0 \in 0..MaxFaults
    OBVIOUS
  <2>4. Init => /\ queue \in Queue
                /\ th \in [Threads -> Thread]
                /\ issued \subseteq Orders
                /\ placed \in [Orders -> Nat]
                /\ approvals \in [Orders -> Nat]
                /\ excused \in [Orders -> Nat]
                /\ requests \in 0..MaxRequests
                /\ faults \in 0..MaxFaults
    BY <2>1, <2>2, <2>3 DEF Init
  <2>5. Init => overlapped \in BOOLEAN
    BY Zenon DEF Init
  <2>6. QED
    BY <2>4, <2>5 DEF TypeOK
<1>2. TypeOK /\ [Next]_vars => TypeOK'
  <2> SUFFICES ASSUME TypeOK, [Next]_vars
               PROVE  TypeOK'
    OBVIOUS
  <2> USE DEF TypeOK
  <2>1. ASSUME NEW t \in Threads, NEW op \in Op, NEW about \in SUBSET Orders,
               NEW pc \in {"resolve", "save"}, NEW data \in Queue,
               Start(t, op, about, pc, data)
        PROVE  /\ th' \in [Threads -> Thread]
               /\ overlapped' \in BOOLEAN
               /\ requests' \in 0..MaxRequests
               /\ UNCHANGED <<queue, placed, excused, faults>>
    BY <2>1 DEF Start, Thread
  <2>2. ASSUME NEW t \in Threads, NEW o \in Orders, SubmitPendingOrder(t, o)
        PROVE  TypeOK'
    <3>1. [queue EXCEPT ![o] = NewEntry] \in Queue
      BY DEF Queue, Entry, NewEntry, Status
    <3>2. QED
      BY <2>1, <2>2, <3>1 DEF SubmitPendingOrder, Op
  <2>3. ASSUME NEW t \in Threads, NEW o \in Orders, DeclineOrder(t, o)
        PROVE  TypeOK'
    <3>1. [queue EXCEPT ![o].status = "declined"] \in Queue
      BY DEF Queue, Entry, Status
    <3>2. QED
      BY <2>1, <2>3, <3>1 DEF DeclineOrder, Op
  <2>4. ASSUME NEW t \in Threads, NEW o \in Orders, ForceDeclineOrder(t, o)
        PROVE  TypeOK'
    <3>1. [queue EXCEPT ![o].status = "declined"] \in Queue
      BY DEF Queue, Entry, Status
    <3>2. QED
      BY <2>1, <2>4, <3>1 DEF ForceDeclineOrder, Op
  <2>5. ASSUME NEW t \in Threads, ExpireStaleOrders(t)
        PROVE  TypeOK'
    <3>1. [o \in Orders |-> IF Stale(o) THEN [queue[o] EXCEPT !.status = "expired"]
                                        ELSE queue[o]] \in Queue
      BY DEF Queue, Entry, Status
    <3>2. {o \in Orders : Stale(o)} \in SUBSET Orders
      OBVIOUS
    <3>3. PICK about \in SUBSET Orders, data \in Queue :
            Start(t, "expire", about, "save", data)
      BY <2>5, <3>1, <3>2 DEF ExpireStaleOrders
    <3>4. UNCHANGED <<issued, approvals>>
      BY <2>5 DEF ExpireStaleOrders
    <3>5. QED
      BY <2>1, <3>3, <3>4 DEF Op
  <2>6. ASSUME NEW t \in Threads, NEW o \in Orders, PreviewOrder(t, o)
        PROVE  TypeOK'
    BY <2>1, <2>6 DEF PreviewOrder, Op
  <2>7. ASSUME NEW t \in Threads, NEW o \in Orders, ApproveOrder(t, o)
        PROVE  TypeOK'
    <3>1. \E pc \in {"resolve", "save"}, data \in Queue :
            Start(t, "approve", {o}, pc, data)
      BY <2>7 DEF ApproveOrder
    <3>2. UNCHANGED issued /\ approvals' \in [Orders -> Nat]
      BY <2>7 DEF ApproveOrder
    <3>3. QED
      BY <2>1, <3>1, <3>2 DEF Op
  <2>8. ASSUME NEW t \in Threads, ResolveLegConids(t)
        PROVE  TypeOK'
    <3>1. PICK o \in th[t].about, found \in BOOLEAN, pc \in {"place", "save"} :
            th' = [th EXCEPT ![t] =
              GoesOn(th[t], pc, o, ResolvedEntry(th[t].data[o], th[t].op, found))]
      BY <2>8 DEF ResolveLegConids
    <3>2. th[t] \in Thread /\ o \in Orders /\ th[t].data[o] \in Entry
      BY DEF Thread, Queue
    <3>3. ResolvedEntry(th[t].data[o], th[t].op, found) \in Entry
      BY <3>2 DEF ResolvedEntry, Entry, Status
    <3>4. GoesOn(th[t], pc, o, ResolvedEntry(th[t].data[o], th[t].op, found)) \in Thread
      BY <3>2, <3>3, GoesOnType
    <3>5. QED
      BY <2>8, <3>1, <3>4 DEF ResolveLegConids, history
  <2>9. ASSUME NEW t \in Threads, PlaceOrder(t)
        PROVE  TypeOK'
    <3>1. PICK o \in th[t].about, r \in Outcomes :
            /\ placed' = IF r \in Reaching
                         THEN [placed EXCEPT ![o] = @ + 1] ELSE placed
            /\ excused' = IF r = "lost" THEN [excused EXCEPT ![o] = @ + 1]
                                       ELSE excused
            /\ th' = [th EXCEPT ![t] =
                 [GoesOn(th[t], "save", o,
                         AnsweredEntry(th[t].data[o], r, placed[o] + 1))
                    EXCEPT !.live = (r \in Acknowledged)]]
      BY <2>9 DEF PlaceOrder
    <3>2. th[t] \in Thread /\ o \in Orders /\ th[t].data[o] \in Entry
      BY DEF Thread, Queue
    <3>3. AnsweredEntry(th[t].data[o], r, placed[o] + 1) \in Entry
      BY <3>2, AnsweredEntryType, placed[o] + 1 \in Nat
    <3>4. GoesOn(th[t], "save", o, AnsweredEntry(th[t].data[o], r, placed[o] + 1))
            \in Thread
      BY <3>2, <3>3, GoesOnType
    <3>5. th' \in [Threads -> Thread]
      <4>1. (r \in Acknowledged) \in BOOLEAN
        OBVIOUS
      <4>2. \A h \in Thread, b \in BOOLEAN : [h EXCEPT !.live = b] \in Thread
        BY DEF Thread
      <4>3. [GoesOn(th[t], "save", o,
                    AnsweredEntry(th[t].data[o], r, placed[o] + 1))
               EXCEPT !.live = (r \in Acknowledged)] \in Thread
        BY <3>4, <4>1, <4>2
      <4>4. QED
        BY <3>1, <4>3
    <3>6. placed' \in [Orders -> Nat] /\ excused' \in [Orders -> Nat]
      BY <3>1, <3>2
    <3>7. QED
      BY <2>9, <3>5, <3>6 DEF PlaceOrder
  <2>10. ASSUME NEW t \in Threads, SavePendingOrders(t)
         PROVE  TypeOK'
    BY <2>10 DEF SavePendingOrders, Thread, Queue, Op, NoHandler, Entry, NoEntry
  <2>11. ASSUME NEW T \in SUBSET Threads, Stop(T)
         PROVE  TypeOK'
    <3>1. th' \in [Threads -> Thread]
      BY <2>11, NoHandlerType DEF Stop
    <3>2. excused' \in [Orders -> Nat]
      <4>1. \A o \in Orders : excused[o] + Cardinality(Forgotten(T, o)) \in Nat
        <5> SUFFICES ASSUME NEW o \in Orders
                     PROVE  excused[o] + Cardinality(Forgotten(T, o)) \in Nat
          OBVIOUS
        <5>1. Cardinality(Forgotten(T, o)) \in Nat
          BY ForgottenFinite
        <5>2. excused[o] \in Nat
          OBVIOUS
        <5>3. QED
          BY <5>1, <5>2
      <4>2. QED
        BY <2>11, <4>1 DEF Stop
    <3>3. QED
      BY <2>11, <3>1, <3>2 DEF Stop
  <2>12. CASE UNCHANGED vars
    BY <2>12 DEF vars
  <2>13. QED
    BY <2>2, <2>3, <2>4, <2>5, <2>6, <2>7, <2>8, <2>9, <2>10, <2>11, <2>12
       DEF Next, Handler, RequestFails, Crash
<1>3. QED
  BY <1>1, <1>2, PTL DEF Spec

-----------------------------------------------------------------------------
(* What the steps do to the threads, in the form the invariants need.      *)

LEMMA StartEffect ==
  ASSUME TypeOK, NEW t \in Threads, NEW op, NEW about, NEW pc, NEW data,
         Start(t, op, about, pc, data)
  PROVE  /\ Idle(t)
         /\ th'[t].pc = pc
         /\ th'[t].op = op
         /\ th'[t].about = about
         /\ th'[t].data = data
         /\ ~th'[t].live
         /\ \A u \in Threads \ {t} : th'[u] = th[u]
         /\ ~overlapped' => ~overlapped /\ \A u \in Threads : Idle(u)
         /\ UNCHANGED <<queue, placed, excused>>
BY DEF Start, TypeOK

LEMMA ResolveEffect ==
  ASSUME TypeOK, NEW t \in Threads, ResolveLegConids(t)
  PROVE  \E o \in th[t].about, found \in BOOLEAN :
           LET h == th[t] IN
           /\ h.pc = "resolve"
           /\ th'[t].pc = IF h.op = "approve" /\ found THEN "place" ELSE "save"
           /\ th'[t].op = h.op
           /\ th'[t].about = h.about
           /\ th'[t].live = h.live
           /\ th'[t].data[o] = ResolvedEntry(h.data[o], h.op, found)
           /\ \A p \in Orders \ {o} : th'[t].data[p] = h.data[p]
           /\ \A u \in Threads \ {t} : th'[u] = th[u]
<1>1. PICK o \in th[t].about, found \in BOOLEAN :
        /\ th[t].pc = "resolve"
        /\ th' = [th EXCEPT ![t] =
             GoesOn(th[t], IF th[t].op = "approve" /\ found THEN "place" ELSE "save",
                    o, ResolvedEntry(th[t].data[o], th[t].op, found))]
  BY DEF ResolveLegConids
<1>2. th[t] \in Thread /\ o \in Orders
  BY DEF TypeOK, Thread
<1>3. WITNESS o \in th[t].about, found \in BOOLEAN
<1>4. QED
  BY <1>1, <1>2 DEF GoesOn, TypeOK, Thread, Queue

LEMMA PlaceEffect ==
  ASSUME TypeOK, NEW t \in Threads, PlaceOrder(t)
  PROVE  \E o \in th[t].about, r \in Outcomes :
           LET h == th[t] IN
           /\ h.pc = "place"
           /\ placed' = IF r \in Reaching
                        THEN [placed EXCEPT ![o] = @ + 1] ELSE placed
           /\ excused' = IF r = "lost" THEN [excused EXCEPT ![o] = @ + 1]
                                      ELSE excused
           /\ th'[t].pc = "save"
           /\ th'[t].op = h.op
           /\ th'[t].about = h.about
           /\ th'[t].live = (r \in Acknowledged)
           /\ th'[t].data[o] = AnsweredEntry(h.data[o], r, placed[o] + 1)
           /\ \A p \in Orders \ {o} : th'[t].data[p] = h.data[p]
           /\ \A u \in Threads \ {t} : th'[u] = th[u]
<1>1. PICK o \in th[t].about, r \in Outcomes :
        /\ th[t].pc = "place"
        /\ placed' = IF r \in Reaching
                     THEN [placed EXCEPT ![o] = @ + 1] ELSE placed
        /\ excused' = IF r = "lost" THEN [excused EXCEPT ![o] = @ + 1]
                                   ELSE excused
        /\ th' = [th EXCEPT ![t] =
             [GoesOn(th[t], "save", o,
                     AnsweredEntry(th[t].data[o], r, placed[o] + 1))
                EXCEPT !.live = (r \in Acknowledged)]]
  BY DEF PlaceOrder
<1>2. th[t] \in Thread /\ o \in Orders
  BY DEF TypeOK, Thread
<1>3. WITNESS o \in th[t].about, r \in Outcomes
<1>4. QED
  BY <1>1, <1>2 DEF GoesOn, TypeOK, Thread, Queue

-----------------------------------------------------------------------------

LEMMA HandlerStep == TypeOK /\ HandlerInv /\ [Next]_vars => HandlerInv'
<1> SUFFICES ASSUME TypeOK, HandlerInv, [Next]_vars
             PROVE  HandlerInv'
  OBVIOUS
<1>1. ASSUME NEW t \in Threads, NEW op \in Op, NEW about, NEW data,
             NEW pc \in {"resolve", "save"},
             pc = "resolve" => op \in {"approve", "preview"},
             op # "expire" => \A o, p \in about : o = p,
             Start(t, op, about, pc, data)
      PROVE  HandlerInv'
  <2>1. Shape(th'[t])
    BY <1>1, StartEffect DEF Shape
  <2>2. QED
    BY <1>1, <2>1, StartEffect DEF HandlerInv
<1>2. ASSUME NEW t \in Threads, NEW o \in Orders,
             \/ SubmitPendingOrder(t, o)
             \/ DeclineOrder(t, o)
             \/ ForceDeclineOrder(t, o)
             \/ PreviewOrder(t, o)
             \/ ApproveOrder(t, o)
      PROVE  HandlerInv'
  BY <1>1, <1>2 DEF SubmitPendingOrder, DeclineOrder, ForceDeclineOrder,
                    PreviewOrder, ApproveOrder, Op
<1>3. ASSUME NEW t \in Threads, ExpireStaleOrders(t)
      PROVE  HandlerInv'
  BY <1>1, <1>3 DEF ExpireStaleOrders, Op
<1>4. ASSUME NEW t \in Threads, ResolveLegConids(t)
      PROVE  HandlerInv'
  <2>1. Shape(th[t]) /\ th[t].live \in BOOLEAN
    BY DEF HandlerInv, TypeOK, Thread
  <2>2. ~th'[t].live /\ Shape(th'[t])
    BY <1>4, <2>1, ResolveEffect DEF Shape
  <2>3. QED
    BY <1>4, <2>2, ResolveEffect DEF HandlerInv
<1>5. ASSUME NEW t \in Threads, PlaceOrder(t)
      PROVE  HandlerInv'
  <2>1. PICK o \in th[t].about, r \in Outcomes :
          /\ th[t].pc = "place"
          /\ th'[t].pc = "save"
          /\ th'[t].op = th[t].op
          /\ th'[t].about = th[t].about
          /\ th'[t].live = (r \in Acknowledged)
          /\ th'[t].data[o] = AnsweredEntry(th[t].data[o], r, placed[o] + 1)
          /\ \A u \in Threads \ {t} : th'[u] = th[u]
    BY <1>5, PlaceEffect
  <2>2. Shape(th[t]) /\ o \in Orders /\ th[t].data[o] \in Entry
    BY DEF HandlerInv, TypeOK, Thread, Queue
  <2>3. r \in Acknowledged => th'[t].data[o].status = "submitted"
    BY <2>1, <2>2 DEF AnsweredEntry, Acknowledged, ReportedOk, Entry
  <2>4. Shape(th'[t])
    BY <2>1, <2>2, <2>3 DEF Shape
  <2>5. QED
    BY <2>1, <2>4 DEF HandlerInv
<1>6. ASSUME NEW t \in Threads, SavePendingOrders(t)
      PROVE  HandlerInv'
  BY <1>6 DEF SavePendingOrders, NoHandler, TypeOK, HandlerInv, Shape
<1>7. ASSUME NEW T \in SUBSET Threads, Stop(T)
      PROVE  HandlerInv'
  BY <1>7 DEF Stop, NoHandler, TypeOK, HandlerInv, Shape
<1>8. CASE UNCHANGED vars
  BY <1>8 DEF vars, HandlerInv
<1>9. QED
  BY <1>2, <1>3, <1>4, <1>5, <1>6, <1>7, <1>8
     DEF Next, Handler, RequestFails, Crash

-----------------------------------------------------------------------------

\* An approval that ends, or places its order, leaves Asking; only a started
\* one enters it.
LEMMA AskingStep == TypeOK /\ HandlerInv /\ AskingInv /\ [Next]_vars => AskingInv'
<1> SUFFICES ASSUME TypeOK, HandlerInv, AskingInv, [Next]_vars
             PROVE  AskingInv'
  OBVIOUS
<1>1. \A o \in Orders : /\ IsFiniteSet(Asking(o)) /\ IsFiniteSet(Asking(o)')
                        /\ Cardinality(Asking(o)) \in Nat
                        /\ Cardinality(Asking(o)') \in Nat
  <2>1. \A o \in Orders : Asking(o) \subseteq Threads /\ Asking(o)' \subseteq Threads
    BY DEF Asking
  <2>2. IsFiniteSet(Threads)
    BY OrdersAssumption DEF OrdersAssumption
  <2>3. QED
    BY <2>1, <2>2, FS_Subset, FS_CardinalityType
<1>2. ASSUME NEW o \in Orders, Asking(o)' \subseteq Asking(o)
      PROVE  Cardinality(Asking(o)') <= Cardinality(Asking(o))
  BY <1>1, <1>2, FS_Subset
<1>3. placed \in [Orders -> Nat] /\ approvals \in [Orders -> Nat]
  BY DEF TypeOK
<1>4. ASSUME UNCHANGED <<placed, approvals>>,
             \A o \in Orders : Asking(o)' \subseteq Asking(o)
      PROVE  AskingInv'
  <2> SUFFICES ASSUME NEW o \in Orders
               PROVE  placed[o] + Cardinality(Asking(o)') <= approvals[o]
    BY <1>4 DEF AskingInv
  <2>1. placed[o] + Cardinality(Asking(o)) <= approvals[o]
    BY DEF AskingInv
  <2>2. Cardinality(Asking(o)') <= Cardinality(Asking(o))
    BY <1>2, <1>4
  <2>3. QED
    BY <1>1, <1>3, <2>1, <2>2
<1>5. ASSUME NEW t \in Threads, NEW op \in Op \ {"approve"}, NEW about, NEW pc,
             NEW data, Start(t, op, about, pc, data), UNCHANGED approvals
      PROVE  AskingInv'
  <2>1. \A o \in Orders : Asking(o)' \subseteq Asking(o)
    BY <1>5, StartEffect DEF Asking
  <2>2. QED
    BY <1>4, <1>5, <2>1, StartEffect
<1>6. ASSUME NEW t \in Threads, NEW o \in Orders,
             \/ SubmitPendingOrder(t, o)
             \/ DeclineOrder(t, o)
             \/ ForceDeclineOrder(t, o)
             \/ PreviewOrder(t, o)
      PROVE  AskingInv'
  BY <1>5, <1>6 DEF SubmitPendingOrder, DeclineOrder, ForceDeclineOrder,
                    PreviewOrder, Op
<1>7. ASSUME NEW t \in Threads, ExpireStaleOrders(t)
      PROVE  AskingInv'
  BY <1>5, <1>7 DEF ExpireStaleOrders, Op
<1>8. ASSUME NEW t \in Threads, NEW o \in Orders, ApproveOrder(t, o)
      PROVE  AskingInv'
  <2>1. Start(t, "approve", {o}, "resolve", queue)
    BY <1>8 DEF ApproveOrder
  <2>2. /\ Idle(t) /\ UNCHANGED placed
        /\ th'[t].op = "approve" /\ th'[t].pc = "resolve" /\ th'[t].about = {o}
        /\ \A u \in Threads \ {t} : th'[u] = th[u]
    BY <2>1, StartEffect
  <2>3. Asking(o)' = Asking(o) \union {t} /\ t \notin Asking(o)
    BY <2>2 DEF Asking, Idle
  <2>4. Cardinality(Asking(o)') = Cardinality(Asking(o)) + 1
    BY <1>1, <2>3, FS_AddElement
  <2>5. \A p \in Orders \ {o} : Asking(p)' \subseteq Asking(p)
    BY <2>2 DEF Asking
  <2>6. approvals' = [approvals EXCEPT ![o] = @ + 1]
    BY <1>8 DEF ApproveOrder
  <2> SUFFICES ASSUME NEW p \in Orders
               PROVE  placed[p] + Cardinality(Asking(p)') <= approvals'[p]
    BY <2>2 DEF AskingInv
  <2>7. placed[p] + Cardinality(Asking(p)) <= approvals[p]
    BY DEF AskingInv
  <2>8. CASE p = o
    BY <1>1, <1>3, <2>4, <2>6, <2>7, <2>8
  <2>9. CASE p # o
    BY <1>1, <1>2, <1>3, <2>5, <2>6, <2>7, <2>9
  <2>10. QED
    BY <2>8, <2>9
<1>9. ASSUME NEW t \in Threads, ResolveLegConids(t)
      PROVE  AskingInv'
  <2>1. \A o \in Orders : Asking(o)' \subseteq Asking(o)
    BY <1>9, ResolveEffect DEF Asking
  <2>2. QED
    BY <1>4, <1>9, <2>1 DEF ResolveLegConids, history
<1>10. ASSUME NEW t \in Threads, PlaceOrder(t)
       PROVE  AskingInv'
  <2>1. PICK o \in th[t].about, r \in Outcomes :
          /\ th[t].pc = "place"
          /\ placed' = IF r \in Reaching
                       THEN [placed EXCEPT ![o] = @ + 1] ELSE placed
          /\ th'[t].pc = "save"
          /\ \A u \in Threads \ {t} : th'[u] = th[u]
    BY <1>10, PlaceEffect
  <2>2. o \in Orders /\ t \in Asking(o)
    BY <2>1 DEF TypeOK, Thread, HandlerInv, Shape, Asking
  <2>3. Asking(o)' = Asking(o) \ {t}
    BY <2>1, <2>2 DEF Asking
  <2>4. Cardinality(Asking(o)') = Cardinality(Asking(o)) - 1
    BY <1>1, <2>2, <2>3, FS_RemoveElement
  <2>5. \A p \in Orders : Asking(p)' \subseteq Asking(p)
    BY <2>1 DEF Asking
  <2>6. UNCHANGED approvals
    BY <1>10 DEF PlaceOrder
  <2> SUFFICES ASSUME NEW p \in Orders
               PROVE  placed'[p] + Cardinality(Asking(p)') <= approvals[p]
    BY <2>6 DEF AskingInv
  <2>7. placed[p] + Cardinality(Asking(p)) <= approvals[p]
    BY DEF AskingInv
  <2>8. CASE p = o
    <3>1. placed'[o] <= placed[o] + 1 /\ placed'[o] \in Nat
      BY <1>3, <2>1, <2>2
    <3>2. QED
      BY <1>1, <1>3, <2>2, <2>4, <2>7, <2>8, <3>1
  <2>9. CASE p # o
    <3>1. placed'[p] = placed[p]
      BY <1>3, <2>1, <2>2, <2>9
    <3>2. Cardinality(Asking(p)') <= Cardinality(Asking(p))
      BY <1>2, <2>5
    <3>3. QED
      BY <1>1, <1>3, <2>7, <3>1, <3>2
  <2>10. QED
    BY <2>8, <2>9
<1>11. ASSUME NEW t \in Threads, SavePendingOrders(t)
       PROVE  AskingInv'
  <2>1. \A o \in Orders : Asking(o)' \subseteq Asking(o)
    BY <1>11 DEF SavePendingOrders, Asking, NoHandler, TypeOK
  <2>2. QED
    BY <1>4, <1>11, <2>1 DEF SavePendingOrders
<1>12. ASSUME NEW T \in SUBSET Threads, Stop(T)
       PROVE  AskingInv'
  <2>1. \A o \in Orders : Asking(o)' \subseteq Asking(o)
    BY <1>12 DEF Stop, Asking, NoHandler, TypeOK
  <2>2. QED
    BY <1>4, <1>12, <2>1 DEF Stop
<1>13. CASE UNCHANGED vars
  BY <1>13 DEF vars, AskingInv, Asking
<1>14. QED
  BY <1>6, <1>7, <1>8, <1>9, <1>10, <1>11, <1>12, <1>13
     DEF Next, Handler, RequestFails, Crash

-----------------------------------------------------------------------------

LEMMA GenuineStep == TypeOK /\ GenuineInv /\ [Next]_vars => GenuineInv'
<1> SUFFICES ASSUME TypeOK, GenuineInv, [Next]_vars
             PROVE  GenuineInv'
  OBVIOUS
<1>1. placed \in [Orders -> Nat] /\ queue \in Queue
  BY DEF TypeOK
<1>2. ASSUME NEW t \in Threads, NEW op, NEW about, NEW pc, NEW data,
             Start(t, op, about, pc, data), Genuine(data, placed)
      PROVE  GenuineInv'
  BY <1>2, StartEffect DEF GenuineInv
<1>3. ASSUME NEW t \in Threads, NEW o \in Orders, SubmitPendingOrder(t, o)
      PROVE  GenuineInv'
  <2>1. Genuine([queue EXCEPT ![o] = NewEntry], placed)
    BY <1>1 DEF Genuine, GenuineInv, NewEntry, Queue
  <2>2. QED
    BY <1>2, <1>3, <2>1 DEF SubmitPendingOrder
<1>4. ASSUME NEW t \in Threads, NEW o \in Orders,
             DeclineOrder(t, o) \/ ForceDeclineOrder(t, o)
      PROVE  GenuineInv'
  <2>1. Genuine([queue EXCEPT ![o].status = "declined"], placed)
    BY <1>1 DEF Genuine, GenuineInv, Queue, Entry
  <2>2. QED
    BY <1>2, <1>4, <2>1 DEF DeclineOrder, ForceDeclineOrder
<1>5. ASSUME NEW t \in Threads, ExpireStaleOrders(t)
      PROVE  GenuineInv'
  <2>1. Genuine([o \in Orders |-> IF Stale(o)
                                  THEN [queue[o] EXCEPT !.status = "expired"]
                                  ELSE queue[o]], placed)
    BY <1>1 DEF Genuine, GenuineInv, Queue, Entry
  <2>2. QED
    BY <1>2, <1>5, <2>1 DEF ExpireStaleOrders
<1>6. ASSUME NEW t \in Threads, NEW o \in Orders,
             PreviewOrder(t, o) \/ ApproveOrder(t, o)
      PROVE  GenuineInv'
  BY <1>2, <1>6 DEF GenuineInv, PreviewOrder, ApproveOrder
<1>7. ASSUME NEW t \in Threads, ResolveLegConids(t)
      PROVE  GenuineInv'
  <2>1. PICK o \in th[t].about, found \in BOOLEAN :
          /\ th'[t].data[o] = ResolvedEntry(th[t].data[o], th[t].op, found)
          /\ \A p \in Orders \ {o} : th'[t].data[p] = th[t].data[p]
          /\ \A u \in Threads \ {t} : th'[u] = th[u]
    BY <1>7, ResolveEffect
  <2>2. UNCHANGED <<queue, placed>>
    BY <1>7 DEF ResolveLegConids
  <2>3. o \in Orders /\ th[t].data[o] \in Entry
    BY DEF TypeOK, Thread, Queue
  <2>4. Genuine(th[t].data, placed)
    BY DEF GenuineInv
  <2>5. /\ th'[t].data[o].ref = th[t].data[o].ref
        /\ th'[t].data[o].status \in {th[t].data[o].status, "failed"}
    BY <2>1, <2>3 DEF ResolvedEntry, Entry
  <2>6. Genuine(th'[t].data, placed)
    BY <2>1, <2>3, <2>4, <2>5 DEF Genuine
  <2>7. QED
    BY <2>1, <2>2, <2>6 DEF GenuineInv
<1>8. ASSUME NEW t \in Threads, PlaceOrder(t)
      PROVE  GenuineInv'
  <2>1. PICK o \in th[t].about, r \in Outcomes :
          /\ placed' = IF r \in Reaching
                       THEN [placed EXCEPT ![o] = @ + 1] ELSE placed
          /\ th'[t].data[o] = AnsweredEntry(th[t].data[o], r, placed[o] + 1)
          /\ \A p \in Orders \ {o} : th'[t].data[p] = th[t].data[p]
          /\ \A u \in Threads \ {t} : th'[u] = th[u]
    BY <1>8, PlaceEffect
  <2>2. queue' = queue
    BY <1>8 DEF PlaceOrder
  <2>3. o \in Orders /\ th[t].data[o] \in Entry /\ queue \in Queue
        /\ \A u \in Threads : th[u].data \in Queue
    BY DEF TypeOK, Thread, Queue
  <2>4. placed' \in [Orders -> Nat] /\ \A p \in Orders : placed[p] <= placed'[p]
    BY <1>1, <2>1, <2>3
  <2>5. ASSUME NEW d \in Queue, Genuine(d, placed)
        PROVE  Genuine(d, placed')
    BY <1>1, <2>4, <2>5 DEF Genuine, Queue, Entry
  <2>6. /\ th'[t].data[o].ref \in {placed[o] + 1, 0, th[t].data[o].ref}
        /\ th'[t].data[o].ref = placed[o] + 1 /\ r # "accepted" =>
             th'[t].data[o].ref = th[t].data[o].ref
        /\ th'[t].data[o].status # "pending"
    <3>1. CASE r = "accepted"
      BY <2>1, <2>3, <3>1 DEF AnsweredEntry, ReportedOk, Entry
    <3>2. CASE r \in {"silent", "unconfirmed"}
      BY <1>1, <2>1, <2>3, <3>2 DEF AnsweredEntry, ReportedOk, Entry
    <3>3. CASE r \notin {"accepted", "silent", "unconfirmed"}
      BY <2>1, <2>3, <3>3 DEF AnsweredEntry, ReportedOk, Entry
    <3>4. QED
      BY <3>1, <3>2, <3>3
  <2>7. Genuine(th'[t].data, placed')
    <3>1. Genuine(th[t].data, placed')
      BY <2>3, <2>5 DEF GenuineInv
    <3>2. th'[t].data[o].ref <= placed'[o]
      <4>1. th[t].data[o].ref <= placed'[o]
        BY <2>3, <3>1 DEF Genuine
      <4>2. r = "accepted" => placed'[o] = placed[o] + 1
        BY <1>1, <2>1, <2>3 DEF Reaching
      <4>3. QED
        BY <1>1, <2>3, <2>4, <2>6, <4>1, <4>2
    <3>3. QED
      BY <2>1, <2>3, <2>6, <3>1, <3>2 DEF Genuine
  <2>8. QED
    BY <2>1, <2>2, <2>3, <2>5, <2>7 DEF GenuineInv
<1>9. Genuine([o \in Orders |-> NoEntry], placed)
  BY <1>1 DEF Genuine, NoEntry
<1>10. ASSUME NEW t \in Threads, SavePendingOrders(t)
       PROVE  GenuineInv'
  BY <1>9, <1>10 DEF SavePendingOrders, GenuineInv, NoHandler, TypeOK
<1>11. ASSUME NEW T \in SUBSET Threads, Stop(T)
       PROVE  GenuineInv'
  BY <1>9, <1>11 DEF Stop, GenuineInv, NoHandler, TypeOK
<1>12. CASE UNCHANGED vars
  BY <1>12 DEF vars, GenuineInv
<1>13. QED
  BY <1>3, <1>4, <1>5, <1>6, <1>7, <1>8, <1>10, <1>11, <1>12
     DEF Next, Handler, RequestFails, Crash

-----------------------------------------------------------------------------

LEMMA FreshStep == TypeOK /\ FreshInv /\ [Next]_vars => FreshInv'
<1> SUFFICES ASSUME TypeOK, FreshInv, [Next]_vars
             PROVE  FreshInv'
  OBVIOUS
<1>1. ASSUME NEW t \in Threads, NEW op, NEW about, NEW pc, NEW data,
             Start(t, op, about, pc, data), issued \subseteq issued',
             \A o \in Orders \ issued' : o \notin about /\ data[o].status = "absent"
      PROVE  FreshInv'
  BY <1>1, StartEffect DEF FreshInv
<1>2. ASSUME NEW t \in Threads, NEW o \in Orders,
             \/ SubmitPendingOrder(t, o)
             \/ DeclineOrder(t, o)
             \/ ForceDeclineOrder(t, o)
             \/ PreviewOrder(t, o)
             \/ ApproveOrder(t, o)
      PROVE  FreshInv'
  <2>1. queue \in Queue
    BY DEF TypeOK
  <2>2. CASE SubmitPendingOrder(t, o)
    <3> DEFINE data == [queue EXCEPT ![o] = NewEntry]
    <3>1. \A p \in Orders \ {o} : data[p] = queue[p]
      BY <2>1 DEF Queue
    <3>2. Start(t, "submit", {o}, "save", data) /\ issued' = issued \union {o}
      BY <2>2 DEF SubmitPendingOrder
    <3> HIDE DEF data
    <3>3. QED
      BY <1>1, <3>1, <3>2 DEF FreshInv
  <2>3. CASE DeclineOrder(t, o) \/ ForceDeclineOrder(t, o)
    <3> DEFINE data == [queue EXCEPT ![o].status = "declined"]
    <3>1. \A p \in Orders \ {o} : data[p] = queue[p]
      BY <2>1 DEF Queue
    <3>2. PICK op \in {"decline", "force"} : Start(t, op, {o}, "save", data)
      BY <2>3 DEF DeclineOrder, ForceDeclineOrder
    <3>3. queue[o].status # "absent" /\ issued' = issued
      BY <2>3 DEF DeclineOrder, ForceDeclineOrder
    <3>4. o \in issued
      BY <3>3 DEF FreshInv
    <3> HIDE DEF data
    <3>5. QED
      BY <1>1, <3>1, <3>2, <3>3, <3>4 DEF FreshInv
  <2>4. CASE PreviewOrder(t, o) \/ ApproveOrder(t, o)
    BY <1>1, <2>4 DEF PreviewOrder, ApproveOrder, Offered, FreshInv
  <2>5. QED
    BY <1>2, <2>2, <2>3, <2>4
<1>3. ASSUME NEW t \in Threads, ExpireStaleOrders(t)
      PROVE  FreshInv'
  BY <1>1, <1>3 DEF ExpireStaleOrders, FreshInv, Stale
<1>4. ASSUME NEW t \in Threads, ResolveLegConids(t)
      PROVE  FreshInv'
  <2>1. PICK o \in th[t].about :
          /\ \A p \in Orders \ {o} : th'[t].data[p] = th[t].data[p]
          /\ th'[t].about = th[t].about
          /\ \A u \in Threads \ {t} : th'[u] = th[u]
    BY <1>4, ResolveEffect
  <2>2. UNCHANGED <<queue, placed, issued>>
    BY <1>4 DEF ResolveLegConids
  <2>3. QED
    BY <2>1, <2>2 DEF FreshInv
<1>5. ASSUME NEW t \in Threads, PlaceOrder(t)
      PROVE  FreshInv'
  <2>1. PICK o \in th[t].about, r \in Outcomes :
          /\ placed' = IF r \in Reaching
                       THEN [placed EXCEPT ![o] = @ + 1] ELSE placed
          /\ \A p \in Orders \ {o} : th'[t].data[p] = th[t].data[p]
          /\ th'[t].about = th[t].about
          /\ \A u \in Threads \ {t} : th'[u] = th[u]
    BY <1>5, PlaceEffect
  <2>2. UNCHANGED <<queue, issued>>
    BY <1>5 DEF PlaceOrder
  <2>3. \A p \in Orders \ {o} : placed'[p] = placed[p]
    BY <2>1 DEF TypeOK
  <2>4. QED
    BY <2>1, <2>2, <2>3 DEF FreshInv
<1>6. ASSUME NEW t \in Threads, SavePendingOrders(t)
      PROVE  FreshInv'
  BY <1>6 DEF SavePendingOrders, FreshInv, NoHandler, NoEntry, TypeOK
<1>7. ASSUME NEW T \in SUBSET Threads, Stop(T)
      PROVE  FreshInv'
  BY <1>7 DEF Stop, FreshInv, NoHandler, NoEntry, TypeOK
<1>8. CASE UNCHANGED vars
  BY <1>8 DEF vars, FreshInv
<1>9. QED
  BY <1>2, <1>3, <1>4, <1>5, <1>6, <1>7, <1>8
     DEF Next, Handler, RequestFails, Crash

\* The handlers that start alone start from the file itself.
LEMMA AloneStart ==
  ASSUME TypeOK, HandlerInv, AloneInv,
         NEW t \in Threads, NEW op, NEW about, NEW pc, NEW data,
         Start(t, op, about, pc, data),
         ~overlapped' => CopyInv(t)'
  PROVE  AloneInv'
<1> SUFFICES ASSUME ~overlapped'
             PROVE  /\ \A u, v \in Threads : ~Idle(u)' /\ ~Idle(v)' => u = v
                    /\ \A o \in Orders : placed'[o] <= excused'[o] + 1
                    /\ \A o \in Orders :
                         Offered(queue'[o]) /\ Forgotten(Threads, o)' = {}
                           => placed'[o] <= excused'[o]
                    /\ \A u \in Threads : ~Idle(u)' => CopyInv(u)'
  BY DEF AloneInv
<1>1. /\ ~overlapped /\ \A u \in Threads : Idle(u)
      /\ \A u \in Threads \ {t} : th'[u] = th[u]
      /\ UNCHANGED <<queue, placed, excused>>
  BY StartEffect
<1>2. \A u \in Threads : ~th[u].live
  BY <1>1 DEF HandlerInv, Shape, Idle
<1>3. \A o \in Orders : Forgotten(Threads, o) = {}
  BY <1>2 DEF Forgotten
<1>4. \A u \in Threads : ~Idle(u)' => u = t
  BY <1>1 DEF Idle
<1>5. QED
  BY <1>1, <1>3, <1>4 DEF AloneInv

LEMMA AloneStarted ==
  ASSUME TypeOK, HandlerInv, FreshInv, AloneInv, NEW t \in Threads,
         \/ ExpireStaleOrders(t)
         \/ \E o \in Orders : \/ SubmitPendingOrder(t, o)
                              \/ DeclineOrder(t, o)
                              \/ ForceDeclineOrder(t, o)
                              \/ PreviewOrder(t, o)
                              \/ ApproveOrder(t, o)
  PROVE  AloneInv'
<1>1. queue \in Queue
  BY DEF TypeOK
<1>2. ASSUME NEW op, NEW about, NEW pc, NEW data,
             Start(t, op, about, pc, data), ~overlapped'
      PROVE  /\ th'[t].pc = pc /\ th'[t].op = op /\ th'[t].about = about
             /\ th'[t].data = data
             /\ UNCHANGED <<queue, placed, excused>>
             /\ \A o \in Orders : Offered(queue[o]) => placed[o] <= excused[o]
  <2>1. ~overlapped /\ \A u \in Threads : Idle(u)
    BY <1>2, StartEffect
  <2>2. \A o \in Orders : Forgotten(Threads, o) = {}
    BY <2>1 DEF HandlerInv, Shape, Idle, Forgotten
  <2>3. QED
    BY <1>2, <2>1, <2>2, StartEffect DEF AloneInv
<1>3. ASSUME ExpireStaleOrders(t)
      PROVE  AloneInv'
  <2> DEFINE about == {o \in Orders : Stale(o)}
             data == [o \in Orders |-> IF Stale(o)
                                       THEN [queue[o] EXCEPT !.status = "expired"]
                                       ELSE queue[o]]
  <2>1. Start(t, "expire", about, "save", data)
    BY <1>3 DEF ExpireStaleOrders
  <2>2. \A o \in about : data[o].status = "expired" /\ queue[o].status = "submitted"
    BY <1>1 DEF Queue, Entry, Stale
  <2>3. \A o \in Orders \ about : data[o] = queue[o]
    OBVIOUS
  <2> HIDE DEF about, data
  <2>4. ~overlapped' => CopyInv(t)'
    BY <1>2, <2>1, <2>2, <2>3 DEF CopyInv
  <2>5. QED
    BY <2>1, <2>4, AloneStart
<1>4. ASSUME NEW o \in Orders, SubmitPendingOrder(t, o)
      PROVE  AloneInv'
  <2> DEFINE data == [queue EXCEPT ![o] = NewEntry]
  <2>1. Start(t, "submit", {o}, "save", data)
    BY <1>4 DEF SubmitPendingOrder
  <2>2. data[o].status = "pending" /\ \A p \in Orders \ {o} : data[p] = queue[p]
    BY <1>1 DEF Queue, NewEntry
  <2>3. queue[o].status = "absent" /\ placed[o] <= excused[o]
    BY <1>4 DEF SubmitPendingOrder, FreshInv, TypeOK
  <2> HIDE DEF data
  <2>4. ~overlapped' => CopyInv(t)'
    BY <1>2, <2>1, <2>2, <2>3 DEF CopyInv
  <2>5. QED
    BY <2>1, <2>4, AloneStart
<1>5. ASSUME NEW o \in Orders, NEW op \in {"decline", "force"},
             Start(t, op, {o}, "save", [queue EXCEPT ![o].status = "declined"])
      PROVE  AloneInv'
  <2> DEFINE data == [queue EXCEPT ![o].status = "declined"]
  <2>1. data[o].status = "declined" /\ \A p \in Orders \ {o} : data[p] = queue[p]
    BY <1>1 DEF Queue, Entry
  <2>2. ~Offered(data[o])
    BY <2>1 DEF Offered
  <2>3. Start(t, op, {o}, "save", data)
    BY <1>5
  <2> HIDE DEF data
  <2>4. ~overlapped' => CopyInv(t)'
    BY <1>2, <2>1, <2>2, <2>3 DEF CopyInv
  <2>5. QED
    BY <2>3, <2>4, AloneStart
<1>6. ASSUME NEW o \in Orders, PreviewOrder(t, o) \/ ApproveOrder(t, o)
      PROVE  AloneInv'
  <2>1. PICK op \in {"preview", "approve"} :
          /\ Start(t, op, {o}, "resolve", queue)
          /\ op = "approve" => Offered(queue[o])
    BY <1>6 DEF PreviewOrder, ApproveOrder
  <2>2. ~overlapped' => CopyInv(t)'
    BY <1>2, <2>1 DEF CopyInv
  <2>3. QED
    BY <2>1, <2>2, AloneStart
<1>7. QED
  BY <1>3, <1>4, <1>5, <1>6 DEF DeclineOrder, ForceDeclineOrder

LEMMA AloneStep ==
  ASSUME TypeOK, HandlerInv, FreshInv, AloneInv, [Next]_vars
  PROVE  AloneInv'
<1> USE DEF AloneInv
<1>1. ASSUME NEW t \in Threads, ResolveLegConids(t)
      PROVE  AloneInv'
  <2>1. PICK o \in th[t].about, found \in BOOLEAN :
          /\ th[t].pc = "resolve"
          /\ th'[t].pc = IF th[t].op = "approve" /\ found THEN "place" ELSE "save"
          /\ th'[t].op = th[t].op
          /\ th'[t].about = th[t].about
          /\ th'[t].live = th[t].live
          /\ th'[t].data[o] = ResolvedEntry(th[t].data[o], th[t].op, found)
          /\ \A p \in Orders \ {o} : th'[t].data[p] = th[t].data[p]
          /\ \A u \in Threads \ {t} : th'[u] = th[u]
    BY <1>1, ResolveEffect
  <2>2. UNCHANGED <<queue, placed, excused, overlapped>>
    BY <1>1 DEF ResolveLegConids, history
  <2>3. o \in Orders /\ th[t].data[o] \in Entry
    BY DEF TypeOK, Thread, Queue
  <2> SUFFICES ASSUME ~overlapped
               PROVE  AloneInv'
    BY <2>2
  <2>4. ~Idle(t) /\ CopyInv(t) /\ Shape(th[t])
    BY <2>1 DEF Idle, HandlerInv
  <2>5. \A p \in Orders : Forgotten(Threads, p)' = Forgotten(Threads, p)
    BY <2>1 DEF Forgotten
  <2>6. \A u \in Threads : ~Idle(u)' => ~Idle(u)
    BY <2>1 DEF Idle
  <2>7. /\ th'[t].data[o].status =
             IF th[t].op = "approve" /\ ~found THEN "failed" ELSE th[t].data[o].status
    BY <2>1, <2>3 DEF ResolvedEntry, Entry
  <2>8. Offered(th'[t].data[o]) => Offered(th[t].data[o])
    BY <2>3, <2>4, <2>7, <2>1 DEF CopyInv, Offered
  <2>9. CopyInv(t)'
    <3> SUFFICES ASSUME NEW p \in Orders
                 PROVE  /\ p \notin th'[t].about => th'[t].data[p] = queue[p]
                        /\ queue[p].status = "declined" => th'[t].data[p].status = "declined"
                        /\ queue[p].status # "absent" => th'[t].data[p].status # "absent"
                        /\ p \in th'[t].about =>
                             /\ th'[t].op = "expire" =>
                                  queue[p].status = "submitted" /\ th'[t].data[p].status = "expired"
                             /\ th'[t].op = "approve" => Offered(queue[p])
                             /\ th'[t].op = "approve" /\ th'[t].pc \in {"resolve", "place"} =>
                                  Offered(th'[t].data[p])
                             /\ th'[t].op # "expire" /\ Offered(th'[t].data[p]) =>
                                  placed[p] <= excused[p]
      BY <2>2 DEF CopyInv
    <3>1. CASE p = o
      BY <2>1, <2>3, <2>4, <2>7, <2>8, <3>1 DEF CopyInv, Shape, Offered
    <3>2. CASE p # o
      BY <2>1, <2>3, <2>4, <3>2 DEF CopyInv, Shape
    <3>3. QED
      BY <3>1, <3>2
  <2>10. QED
    BY <2>1, <2>2, <2>4, <2>5, <2>6, <2>9 DEF Idle
<1>2. ASSUME NEW t \in Threads, PlaceOrder(t)
      PROVE  AloneInv'
  <2>1. PICK o \in th[t].about, r \in Outcomes :
          /\ th[t].pc = "place"
          /\ placed' = IF r \in Reaching
                       THEN [placed EXCEPT ![o] = @ + 1] ELSE placed
          /\ excused' = IF r = "lost" THEN [excused EXCEPT ![o] = @ + 1]
                                     ELSE excused
          /\ th'[t].pc = "save"
          /\ th'[t].op = th[t].op
          /\ th'[t].about = th[t].about
          /\ th'[t].live = (r \in Acknowledged)
          /\ th'[t].data[o] = AnsweredEntry(th[t].data[o], r, placed[o] + 1)
          /\ \A p \in Orders \ {o} : th'[t].data[p] = th[t].data[p]
          /\ \A u \in Threads \ {t} : th'[u] = th[u]
    BY <1>2, PlaceEffect
  <2>2. UNCHANGED <<queue, overlapped>>
    BY <1>2 DEF PlaceOrder
  <2>3. o \in Orders /\ th[t].data[o] \in Entry
        /\ placed \in [Orders -> Nat] /\ excused \in [Orders -> Nat]
    BY DEF TypeOK, Thread, Queue
  <2> SUFFICES ASSUME ~overlapped
               PROVE  AloneInv'
    BY <2>2
  <2>4. /\ ~Idle(t) /\ CopyInv(t) /\ Shape(th[t]) /\ th[t].op = "approve"
        /\ \A u \in Threads \ {t} : Idle(u) /\ ~th[u].live
    BY <2>1 DEF Idle, HandlerInv, Shape
  <2>5. placed[o] <= excused[o]
    BY <2>1, <2>3, <2>4 DEF CopyInv
  <2>6. \A p \in Orders \ {o} : placed'[p] = placed[p] /\ excused'[p] = excused[p]
    BY <2>1, <2>3
  <2>7. /\ placed'[o] <= excused'[o] + 1
        /\ r \notin Acknowledged => placed'[o] <= excused'[o]
    <3>1. CASE r \in Acknowledged
      BY <2>1, <2>3, <2>5, <3>1 DEF Acknowledged, Reaching, ReportedOk
    <3>2. CASE r = "lost"
      BY <2>1, <2>3, <2>5, <3>2 DEF Reaching
    <3>3. CASE r \notin Reaching
      BY <2>1, <2>3, <2>5, <3>3 DEF Reaching
    <3>4. QED
      BY <3>1, <3>2, <3>3 DEF Acknowledged, Reaching, ReportedOk
  <2>8. /\ th'[t].data[o].status \in {"submitted", "failed"}
        /\ r \in Acknowledged => th'[t].data[o].status = "submitted"
    BY <2>1, <2>3 DEF AnsweredEntry, Acknowledged, ReportedOk, Entry
  <2>9. \A p \in th[t].about : p = o
    BY <2>1, <2>4 DEF Shape
  <2>10. \A p \in Orders : Offered(queue[p]) /\ Forgotten(Threads, p)' = {}
                             => placed'[p] <= excused'[p]
    <3> SUFFICES ASSUME NEW p \in Orders, Offered(queue[p]),
                        Forgotten(Threads, p)' = {}
                 PROVE  placed'[p] <= excused'[p]
      OBVIOUS
    <3>1. CASE p = o
      <4>1. ~th'[t].live
        BY <2>1, <3>1 DEF Forgotten
      <4>2. QED
        BY <2>1, <2>7, <3>1, <4>1
    <3>2. CASE p # o
      <4>1. ~(p \in th[t].about)
        BY <2>9, <3>2
      <4>2. Forgotten(Threads, p) = {}
        BY <2>4, <4>1 DEF Forgotten
      <4>3. QED
        BY <2>6, <3>2, <4>2
    <3>3. QED
      BY <3>1, <3>2
  <2>11. CopyInv(t)'
    <3>1. \A p \in Orders : p \notin th'[t].about => th'[t].data[p] = queue[p]
      BY <2>1, <2>4 DEF CopyInv
    <3>2. \A p \in Orders : p \in th'[t].about => p = o
      BY <2>1, <2>9
    <3>3. Offered(queue[o])
      BY <2>3, <2>4, <2>1 DEF CopyInv
    <3>4. Offered(th'[t].data[o]) => placed'[o] <= excused'[o]
      BY <2>7, <2>8 DEF Offered
    <3>5. QED
      BY <2>1, <2>2, <2>3, <2>4, <2>8, <3>1, <3>2, <3>3, <3>4 DEF CopyInv, Offered
  <2>12. \A p \in Orders : placed'[p] <= excused'[p] + 1
    BY <2>3, <2>6, <2>7
  <2>13. \A u \in Threads : ~Idle(u)' => u = t
    BY <2>1, <2>4 DEF Idle
  <2>14. QED
    BY <2>2, <2>10, <2>11, <2>12, <2>13
<1>3. ASSUME NEW t \in Threads, SavePendingOrders(t)
      PROVE  AloneInv'
  <2>1. /\ th[t].pc = "save"
        /\ queue' = th[t].data
        /\ th' = [th EXCEPT ![t] = NoHandler]
        /\ excused' = [o \in Orders |->
                         IF Released(t, o) THEN excused[o] + 1 ELSE excused[o]]
        /\ UNCHANGED <<placed, overlapped>>
    BY <1>3 DEF SavePendingOrders
  <2>2. placed \in [Orders -> Nat] /\ excused \in [Orders -> Nat]
    BY DEF TypeOK
  <2> SUFFICES ASSUME ~overlapped
               PROVE  AloneInv'
    BY <2>1
  <2>3. /\ ~Idle(t) /\ CopyInv(t)
        /\ \A u \in Threads \ {t} : Idle(u) /\ ~th[u].live
    BY <2>1 DEF Idle, HandlerInv, Shape
  <2>4. \A u \in Threads : Idle(u)'
    BY <2>1, <2>3 DEF Idle, NoHandler, TypeOK
  <2>5. ASSUME NEW o \in Orders, Offered(queue'[o])
        PROVE  placed[o] <= excused'[o]
    <3>1. CASE o \notin th[t].about
      <4>1. Forgotten(Threads, o) = {} /\ queue'[o] = queue[o]
        BY <2>1, <2>3, <3>1 DEF Forgotten, CopyInv
      <4>2. placed[o] <= excused[o]
        BY <2>5, <4>1
      <4>3. QED
        BY <2>1, <2>2, <4>2
    <3>2. CASE o \in th[t].about /\ th[t].op = "expire"
      <4>1. Released(t, o)
        BY <2>3, <3>2 DEF CopyInv, Released
      <4>2. placed[o] <= excused[o] + 1
        OBVIOUS
      <4>3. QED
        BY <2>1, <2>2, <4>1, <4>2
    <3>3. CASE o \in th[t].about /\ th[t].op # "expire"
      <4>1. placed[o] <= excused[o]
        BY <2>1, <2>3, <2>5, <3>3 DEF CopyInv
      <4>2. QED
        BY <2>1, <2>2, <4>1
    <3>4. QED
      BY <3>1, <3>2, <3>3
  <2>6. \A o \in Orders : placed[o] <= excused'[o] + 1
    BY <2>1, <2>2
  <2>7. QED
    BY <2>1, <2>4, <2>5, <2>6
<1>4. ASSUME NEW T \in SUBSET Threads, Stop(T),
             ~overlapped => \A u \in Threads : ~Idle(u) => u \in T
      PROVE  AloneInv'
  <2>1. /\ th' = [t \in Threads |-> IF t \in T THEN NoHandler ELSE th[t]]
        /\ excused' = [o \in Orders |->
                         excused[o] + Cardinality(Forgotten(T, o))]
        /\ UNCHANGED <<queue, placed, overlapped>>
    BY <1>4 DEF Stop
  <2>2. placed \in [Orders -> Nat] /\ excused \in [Orders -> Nat]
    BY DEF TypeOK
  <2> SUFFICES ASSUME ~overlapped
               PROVE  AloneInv'
    BY <2>1
  <2>3. \A u \in Threads : Idle(u)'
    BY <1>4, <2>1 DEF Idle, NoHandler
  <2>4. ASSUME NEW o \in Orders
        PROVE  /\ placed[o] <= excused'[o] + 1
               /\ Offered(queue[o]) => placed[o] <= excused'[o]
    <3>1. /\ Cardinality(Forgotten(T, o)) \in Nat
          /\ Forgotten(T, o) # {} => Cardinality(Forgotten(T, o)) >= 1
      BY ForgottenFinite
    <3>2. excused'[o] = excused[o] + Cardinality(Forgotten(T, o))
      BY <2>1
    <3>3. placed[o] <= excused[o] + 1
      OBVIOUS
    <3>4. Forgotten(Threads, o) = Forgotten(T, o)
      BY <1>4 DEF Forgotten, HandlerInv, Shape, Idle
    <3>5. CASE Forgotten(T, o) = {}
      <4>1. Offered(queue[o]) => placed[o] <= excused[o]
        BY <3>4, <3>5
      <4>2. QED
        BY <2>2, <3>1, <3>2, <3>3, <4>1
    <3>6. CASE Forgotten(T, o) # {}
      BY <2>2, <3>1, <3>2, <3>3, <3>6
    <3>7. QED
      BY <3>5, <3>6
  <2>5. QED
    BY <2>1, <2>3, <2>4
<1>5. CASE UNCHANGED vars
  BY <1>5 DEF vars, Idle, Forgotten, CopyInv
<1>6. ASSUME NEW t \in Threads, RequestFails(t)
      PROVE  AloneInv'
  BY <1>4, <1>6 DEF RequestFails
<1>7. ASSUME Crash
      PROVE  AloneInv'
  BY <1>4, <1>7 DEF Crash
<1>8. QED
  BY <1>1, <1>2, <1>3, <1>5, <1>6, <1>7, AloneStarted DEF Next, Handler

LEMMA InductiveInvariant == Spec => []IInv
<1>1. Init => AskingInv
  <2>1. ASSUME Init, NEW o \in Orders
        PROVE  placed[o] + Cardinality(Asking(o)) <= approvals[o]
    <3>1. Asking(o) = {}
      BY <2>1 DEF Init, Asking, NoHandler
    <3>2. Cardinality(Asking(o)) = 0
      BY <3>1, FS_EmptySet
    <3>3. QED
      BY <2>1, <3>2 DEF Init
  <2>2. QED
    BY <2>1 DEF AskingInv
<1>2. Init => GenuineInv
  BY DEF Init, GenuineInv, Genuine, NoHandler, NoEntry
<1>3. Init => FreshInv
  BY DEF Init, FreshInv, NoHandler, NoEntry
<1>4. Init => HandlerInv
  BY DEF Init, HandlerInv, Shape, NoHandler
<1>5. Init => AloneInv
  <2>1. Init => \A t \in Threads : Idle(t)
    BY DEF Init, Idle, NoHandler
  <2>2. Init => \A o \in Orders : placed[o] = 0 /\ excused[o] = 0
    BY DEF Init
  <2>3. QED
    BY <2>1, <2>2 DEF AloneInv
<1>6. TypeOK /\ AskingInv /\ GenuineInv /\ FreshInv /\ HandlerInv /\ AloneInv
        /\ [Next]_vars
      => (AskingInv /\ GenuineInv /\ FreshInv /\ HandlerInv /\ AloneInv)'
  BY AskingStep, GenuineStep, FreshStep, HandlerStep, AloneStep
<1>7. QED
  BY <1>1, <1>2, <1>3, <1>4, <1>5, <1>6, TypeCorrect, PTL DEF Spec, IInv

\* However handlers interleave, fail and crash, the broker holds at most one
\* order for each call of approve_order.
THEOREM ApprovedBeforePlaced == Spec => []PlacedOnlyByApproval
<1>1. IInv => PlacedOnlyByApproval
  <2> SUFFICES ASSUME TypeOK, AskingInv, NEW o \in Orders
               PROVE  placed[o] <= approvals[o]
    BY DEF PlacedOnlyByApproval, IInv
  <2>1. Asking(o) \subseteq Threads /\ IsFiniteSet(Threads)
    BY OrdersAssumption DEF Asking, OrdersAssumption
  <2>2. Cardinality(Asking(o)) \in Nat
    BY <2>1, FS_Subset, FS_CardinalityType
  <2>3. placed[o] \in Nat /\ approvals[o] \in Nat
    BY DEF TypeOK
  <2>4. QED
    BY <2>2, <2>3 DEF AskingInv
<1>2. QED
  BY <1>1, InductiveInvariant, PTL

\* Whatever stale copy is saved over whatever file, an ibkr_order_id in the
\* queue was issued by the broker for that order.
THEOREM IdsAreGenuine == Spec => []BrokerIdGenuine
<1>1. IInv => BrokerIdGenuine
  BY DEF IInv, GenuineInv, Genuine, BrokerIdGenuine
<1>2. QED
  BY <1>1, InductiveInvariant, PTL

\* With no two handlers overlapping, an order is at the broker at most once
\* beyond the placements that were forgotten, lost or expired.
THEOREM PlacedOnceAlone == Spec => []OneLivePlacement
<1>1. IInv => OneLivePlacement
  BY DEF IInv, AloneInv, OneLivePlacement
<1>2. QED
  BY <1>1, InductiveInvariant, PTL

\* With no two handlers overlapping, an order offered for approval is not at
\* the broker, but for those placements.
THEOREM OfferedNotLiveAlone == Spec => []OfferedMeansNotLive
<1>1. IInv => OfferedMeansNotLive
  BY DEF IInv, AloneInv, OfferedMeansNotLive
<1>2. QED
  BY <1>1, InductiveInvariant, PTL

\* With no two handlers overlapping, a declined order stays declined and no
\* entry leaves the queue.
THEOREM DeclinedStaysDeclined == Spec => DeclineIsFinal
<1> DEFINE Final ==
             ~overlapped' =>
               \A o \in Orders :
                 /\ queue[o].status = "declined" => queue'[o].status = "declined"
                 /\ queue[o].status # "absent" => queue'[o].status # "absent"
<1>1. ASSUME IInv, [Next]_vars
      PROVE  [Final]_vars
  <2>1. ASSUME NEW t \in Threads, SavePendingOrders(t)
        PROVE  Final
    <3>1. ~overlapped' => CopyInv(t)
      BY <1>1, <2>1 DEF IInv, AloneInv, SavePendingOrders, Idle
    <3>2. queue' = th[t].data
      BY <2>1 DEF SavePendingOrders
    <3>3. QED
      BY <3>1, <3>2 DEF CopyInv
  <2>2. ASSUME UNCHANGED queue
        PROVE  Final
    BY <2>2
  <2>3. ASSUME NEW t \in Threads, NEW o \in Orders,
               \/ SubmitPendingOrder(t, o) \/ DeclineOrder(t, o)
               \/ ForceDeclineOrder(t, o) \/ PreviewOrder(t, o)
               \/ ApproveOrder(t, o)
        PROVE  UNCHANGED queue
    BY <2>3 DEF SubmitPendingOrder, DeclineOrder, ForceDeclineOrder,
                PreviewOrder, ApproveOrder, Start
  <2>4. ASSUME NEW t \in Threads,
               \/ ExpireStaleOrders(t) \/ ResolveLegConids(t)
               \/ PlaceOrder(t) \/ RequestFails(t)
        PROVE  UNCHANGED queue
    BY <2>4 DEF ExpireStaleOrders, ResolveLegConids, PlaceOrder, RequestFails,
                Start, Stop
  <2>5. Crash => UNCHANGED queue
    BY DEF Crash, Stop
  <2> HIDE DEF Final
  <2>6. QED
    BY <1>1, <2>1, <2>2, <2>3, <2>4, <2>5 DEF Next, Handler
<1>2. QED
  BY <1>1, InductiveInvariant, PTL DEF Spec, DeclineIsFinal

=============================================================================
