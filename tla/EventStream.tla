------------------------------ MODULE EventStream ------------------------------
(***************************************************************************)
(* GET /stream (routes/stream.py): one generator per connection looks at   *)
(* the briefing, the positions and the alerts in turn, every five seconds, *)
(* and sends what has changed since it last sent it.  It remembers hashes, *)
(* which are taken to tell versions apart, and starts without any.  A lost *)
(* connection takes with it what was on the wire; the browser opens the    *)
(* next one by itself and goes on showing what it has.                     *)
(***************************************************************************)
EXTENDS Naturals, Sequences

CONSTANTS
  Kinds,      \* the names of the events, in the order of a tick
  Versions,   \* what the data of a kind may be
  Buffer,     \* bound on the events on the wire
  Never       \* no version

\* What the model assumes of its constants; the module that instantiates it
\* states it as an ASSUME.
StreamAssumption ==
  /\ Kinds \in Seq(STRING) /\ Kinds # <<>>
  /\ Buffer \in Nat \ {0} /\ Never \notin Versions

VARIABLES
  data,       \* the version of each kind that a read returns
  readable,   \* the kinds a read of which raises nothing
  connected,  \* there is a connection and a generator for it
  turn,       \* the kind the generator looks at next
  sent,       \* last_hashes of the generator
  wire,       \* the events sent and not yet received
  shown       \* what the browser shows of each kind

vars == <<data, readable, connected, turn, sent, wire, shown>>

Names == {Kinds[i] : i \in 1 .. Len(Kinds)}
NoneSent == [k \in Names |-> Never]

TypeOK ==
  /\ data \in [Names -> Versions] /\ readable \subseteq Names
  /\ connected \in BOOLEAN /\ turn \in 1 .. Len(Kinds)
  /\ sent \in [Names -> Versions \union {Never}]
  /\ shown \in [Names -> Versions \union {Never}]
  /\ Len(wire) <= Buffer

Init ==
  /\ data \in [Names -> Versions] /\ readable = Names
  /\ connected = FALSE /\ turn = 1 /\ wire = <<>>
  /\ sent = NoneSent /\ shown = NoneSent

\* The variant in which the hashes outlive the connection, as a module-level
\* dictionary would.
ConnectKeepsHashes ==
  /\ ~connected
  /\ connected' = TRUE /\ turn' = 1 /\ wire' = <<>>
  /\ UNCHANGED <<data, readable, sent, shown>>

Connect ==
  /\ ~connected
  /\ connected' = TRUE /\ turn' = 1 /\ wire' = <<>> /\ sent' = NoneSent
  /\ UNCHANGED <<data, readable, shown>>

\* The connection is lost and its generator ends.
Disconnect ==
  /\ connected
  /\ connected' = FALSE /\ wire' = <<>>
  /\ UNCHANGED <<data, readable, turn, sent, shown>>

\* The generator looks at one kind.  A read that raises is logged and passed
\* over, and its hash stays; other coroutines run between two kinds.
Look ==
  /\ connected
  /\ LET k == Kinds[turn]
     IN \/ /\ k \in readable /\ sent[k] # data[k]
           /\ Len(wire) < Buffer
           /\ sent' = [sent EXCEPT ![k] = data[k]]
           /\ wire' = Append(wire, [kind |-> k, version |-> data[k]])
        \/ /\ k \notin readable \/ sent[k] = data[k]
           /\ UNCHANGED <<sent, wire>>
  /\ turn' = (turn % Len(Kinds)) + 1
  /\ UNCHANGED <<data, readable, connected, shown>>

\* The browser puts an event in its cache.
Receive ==
  /\ wire # <<>>
  /\ shown' = [shown EXCEPT ![Head(wire).kind] = Head(wire).version]
  /\ wire' = Tail(wire)
  /\ UNCHANGED <<data, readable, connected, turn, sent>>

\* A route or a script changes the data, which may become unreadable.
Change ==
  /\ \/ /\ \E k \in Names, v \in Versions : data' = [data EXCEPT ![k] = v]
        /\ UNCHANGED readable
     \/ /\ \E k \in Names : readable' \in {readable \ {k}, readable \union {k}}
        /\ UNCHANGED data
  /\ UNCHANGED <<connected, turn, sent, wire, shown>>

Next == Connect \/ Disconnect \/ Look \/ Receive \/ Change

\* The generator sleeps five seconds and goes on, and the browser reads what
\* arrives and reconnects.
Fairness == WF_vars(Connect) /\ WF_vars(Look) /\ WF_vars(Receive)

Spec == Init /\ [][Next]_vars /\ Fairness

------------------------------------------------------------------------------
(* Properties                                                              *)

\* A browser that is left connected comes to show the data of a kind that can
\* be read and has stopped changing, whatever it missed before.
BrowserCatchesUp ==
  \A k \in Names, v \in Versions :
    <>[](connected /\ k \in readable /\ data[k] = v) => <>[](shown[k] = v)

=============================================================================
