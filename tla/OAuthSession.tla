----------------------------- MODULE OAuthSession -----------------------------
(***************************************************************************)
(* The OAuth session with IBKR (services/ibkr_web/oauth_client.py): one    *)
(* object per process that worker threads acquire, use and drop without a  *)
(* lock.  A thread that finds no valid session obtains a live session      *)
(* token, writes the token and then its expiry into the object that is the *)
(* session at that moment, and opens the brokerage session; a request that *)
(* IBKR denies puts a new, empty object in its place.  (The access token   *)
(* is left out: a request signed without it reads it from its file.)       *)
(***************************************************************************)
EXTENDS Integers

CONSTANTS
  Threads,
  MaxTokens,   \* bound on the live session tokens that are issued
  None

\* What the model assumes of its constants; the module that instantiates it
\* states it as an ASSUME.
SessionAssumption == MaxTokens \in Nat /\ None \notin Int

Tokens == 1 .. MaxTokens

VARIABLES
  session,   \* the token of the session object and whether its expiry is ahead
  proc,      \* per thread: its step and the token it works with
  issued,    \* number of tokens IBKR has issued
  live,      \* tokens it still accepts
  opened,    \* tokens with a brokerage session
  failed,    \* history: tokens whose brokerage session IBKR refused to open
  denied     \* history: tokens with which a request has been denied

vars == <<session, proc, issued, live, opened, failed, denied>>

Empty == [lst |-> None, ahead |-> FALSE]
Idle == [at |-> "idle", lst |-> None]

\* is_valid: there is a token and its expiry lies ahead (it is 0 at first).
Valid == session.lst # None /\ session.ahead

------------------------------------------------------------------------------
TypeOK ==
  /\ session \in [lst: Tokens \union {None}, ahead: BOOLEAN]
  /\ proc \in [Threads ->
                 [at: {"idle", "token", "expiry", "open", "ready", "denied"},
                  lst: Tokens \union {None}]]
  /\ issued \in 0 .. MaxTokens
  /\ live \subseteq 1 .. issued /\ opened \subseteq 1 .. issued
  /\ failed \subseteq 1 .. issued /\ denied \subseteq 1 .. issued

Init ==
  /\ session = Empty
  /\ proc = [t \in Threads |-> Idle]
  /\ issued = 0
  /\ live = {} /\ opened = {} /\ failed = {} /\ denied = {}

Goes(t, at, k) == proc' = [proc EXCEPT ![t] = [at |-> at, lst |-> k]]

\* ensure_session: the session is valid and is used as it is.
UseSession(t) ==
  /\ proc[t].at = "idle" /\ Valid
  /\ Goes(t, "ready", session.lst)
  /\ UNCHANGED <<session, issued, live, opened, failed, denied>>

\* It is not: IBKR issues a live session token.  (When it refuses, the call
\* fails with nothing changed.)
AcquireToken(t) ==
  /\ proc[t].at = "idle" /\ ~Valid
  /\ issued < MaxTokens
  /\ issued' = issued + 1
  /\ live' = live \union {issued + 1}
  /\ Goes(t, "token", issued + 1)
  /\ UNCHANGED <<session, opened, failed, denied>>

\* The two assignments, each to the object that is the session by then.
StoreToken(t) ==
  /\ proc[t].at = "token"
  /\ session' = [session EXCEPT !.lst = proc[t].lst]
  /\ Goes(t, "expiry", proc[t].lst)
  /\ UNCHANGED <<issued, live, opened, failed, denied>>

StoreExpiry(t) ==
  /\ proc[t].at = "expiry"
  /\ session' = [session EXCEPT !.ahead = TRUE]
  /\ Goes(t, "open", proc[t].lst)
  /\ UNCHANGED <<issued, live, opened, failed, denied>>

\* ssodh/init opens the brokerage session of the token and the call goes on
\* with the session of the moment; or it fails, the call with it, and the
\* session stays as stored.
OpenBrokerage(t) ==
  /\ proc[t].at = "open"
  /\ \/ /\ proc[t].lst \in live
        /\ opened' = opened \union {proc[t].lst}
        /\ Goes(t, IF session.lst = None THEN "idle" ELSE "ready", session.lst)
        /\ UNCHANGED failed
     \/ /\ failed' = failed \union {proc[t].lst}
        /\ Goes(t, "idle", None)
        /\ UNCHANGED opened
  /\ UNCHANGED <<session, issued, live, denied>>

\* A request signed with the token: it is answered, fails for a reason that is
\* not its session, or is denied, as IBKR may do without a brokerage session
\* and does with a dead token.
Request(t) ==
  /\ proc[t].at = "ready"
  /\ \/ /\ proc[t].lst \in live
        /\ Goes(t, "idle", None)
        /\ UNCHANGED denied
     \/ /\ proc[t].lst \notin live \cap opened
        /\ denied' = denied \union {proc[t].lst}
        /\ Goes(t, "denied", proc[t].lst)
  /\ UNCHANGED <<session, issued, live, opened, failed>>

\* The variant in which a denied request leaves the session.
DropDeniedKeeps(t) ==
  /\ proc[t].at = "denied"
  /\ Goes(t, "idle", None)
  /\ UNCHANGED <<session, issued, live, opened, failed, denied>>

\* The denied request drops the session, which may be another one by now.
DropDenied(t) ==
  /\ proc[t].at = "denied"
  /\ session' = Empty
  /\ Goes(t, "idle", None)
  /\ UNCHANGED <<issued, live, opened, failed, denied>>

\* IBKR ends a token: another login, its nightly reset.
Revoke ==
  /\ \E k \in live : live' = live \ {k} /\ opened' = opened \ {k}
  /\ UNCHANGED <<session, proc, issued, failed, denied>>

\* The expiry of the session passes.
Expire ==
  /\ session.ahead
  /\ session' = [session EXCEPT !.ahead = FALSE]
  /\ UNCHANGED <<proc, issued, live, opened, failed, denied>>

Next ==
  \/ \E t \in Threads :
       \/ UseSession(t) \/ AcquireToken(t) \/ StoreToken(t) \/ StoreExpiry(t)
       \/ OpenBrokerage(t) \/ Request(t) \/ DropDenied(t)
  \/ Revoke \/ Expire

Spec == Init /\ [][Next]_vars

------------------------------------------------------------------------------
(* Properties                                                              *)

\* What GET /ibkr/status reports in this mode: a valid session is established.
Established == Valid

\* A session reported as established works: IBKR accepts its token and has its
\* brokerage session.  The code leaves these excuses: a thread is half way
\* through an acquisition or a drop, opening the brokerage session has failed,
\* or IBKR has ended the token and no request has been denied since.
EstablishedMeansUsable ==
  Established =>
    \/ session.lst \in live \cap opened
    \/ \E t \in Threads : proc[t].at \in {"token", "expiry", "open", "denied"}
    \/ session.lst \in failed \ denied
    \/ session.lst \notin live \union denied

=============================================================================
