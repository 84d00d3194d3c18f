--------------------------- MODULE KeepaliveGate ---------------------------
(***************************************************************************)
(* The elicitation-gated keepalive of pkg/keepalivegate.  A dialog is one  *)
(* elicitation/create call going through the sending middleware, in its    *)
(* own goroutine; the first dialog of a session starts a watchdog          *)
(* goroutine, which pings the client until the session's last dialog ends. *)
(*                                                                         *)
(* Time is kept as ages and countdowns, capped where the code stops        *)
(* telling values apart, so it needs no bound; the ticker's 30 s are left  *)
(* open, since nothing stated here depends on them.  A session without an  *)
(* entry in gate.sessions is one whose sessionState is zero.  A watchdog   *)
(* is named after the dialog whose ensureWatchdog started it.              *)
(***************************************************************************)
EXTENDS Integers, FiniteSets

CONSTANTS
  Sessions,     \* server sessions
  Dialogs,      \* elicitation calls, each made once
  SessionOf,    \* the session a dialog belongs to
  MinSpacing,   \* minSpacing, 2 s
  NoDialog

ASSUME KeepaliveAssumption ==
  /\ SessionOf \in [Dialogs -> Sessions]
  /\ MinSpacing \in Nat
  /\ NoDialog \notin Dialogs
  /\ IsFiniteSet(Dialogs)

VARIABLES
  open,       \* sessionState.open
  since,      \* time since sessionState.latestStart, capped at MinSpacing
  watch,      \* the watchdog sessionState.cancelWatch cancels
  pc,         \* where each dialog's goroutine stands
  wait,       \* what is left of a dialog's throttle timer
  wd,         \* where each watchdog goroutine stands
  cancelled   \* whether a watchdog's context is cancelled

vars == <<open, since, watch, pc, wait, wd, cancelled>>

InFlight == {"throttled", "starting", "open"}
Running == {"ping", "pinging", "waiting"}

\* The zero sessionState: a zero latestStart throttles nothing.
Init ==
  /\ open = [s \in Sessions |-> 0]
  /\ since = [s \in Sessions |-> MinSpacing]
  /\ watch = [s \in Sessions |-> NoDialog]
  /\ pc = [d \in Dialogs |-> "idle"]
  /\ wait = [d \in Dialogs |-> 0]
  /\ wd = [d \in Dialogs |-> "none"]
  /\ cancelled = [d \in Dialogs |-> FALSE]

\* (Defect: the time since the last start lengthens the throttle.)
ThrottleGrows(s) == MinSpacing + since[s]
\* What begin answers: the throttle is measured from the last begin.
Throttle(s) == MinSpacing - since[s]

Begin(d) ==
  LET s == SessionOf[d] IN
  /\ pc[d] = "idle"
  /\ wait' = [wait EXCEPT ![d] = Throttle(s)]
  /\ since' = [since EXCEPT ![s] = 0]
  /\ open' = [open EXCEPT ![s] = @ + 1]
  /\ pc' = [pc EXCEPT ![d] = IF Throttle(s) > 0 THEN "throttled" ELSE "starting"]
  /\ UNCHANGED <<watch, wd, cancelled>>

TimerFires(d) ==
  /\ pc[d] = "throttled"
  /\ wait[d] = 0
  /\ pc' = [pc EXCEPT ![d] = "starting"]
  /\ UNCHANGED <<open, since, watch, wait, wd, cancelled>>

\* (Defect: the last dialog's end does not cancel the watchdog.)
CancelNothing(s) == UNCHANGED cancelled
CancelWatch(s) ==
  cancelled' = [d \in Dialogs |-> cancelled[d] \/ d = watch[s]]

\* done: the last dialog of a session cancels its watchdog and deletes the
\* entry, which forgets latestStart as well.
Done(s) ==
  /\ open' = [open EXCEPT ![s] = @ - 1]
  /\ IF open[s] = 1
       THEN /\ CancelWatch(s)
            /\ watch' = [watch EXCEPT ![s] = NoDialog]
            /\ since' = [since EXCEPT ![s] = MinSpacing]
       ELSE UNCHANGED <<cancelled, watch, since>>

\* (Defect: the early return of the throttle misses its done.)
AbandonWithoutDone(d) ==
  /\ pc[d] = "throttled"
  /\ pc' = [pc EXCEPT ![d] = "closed"]
  /\ UNCHANGED <<open, since, watch, wait, wd, cancelled>>

\* The caller's context ends while the dialog is throttled.
Abandon(d) ==
  /\ pc[d] = "throttled"
  /\ pc' = [pc EXCEPT ![d] = "closed"]
  /\ Done(SessionOf[d])
  /\ UNCHANGED <<wait, wd>>

\* (Defect: every dialog starts a watchdog, over the one already running.)
AnyDialog(s) == TRUE
FirstDialog(s) == watch[s] = NoDialog

\* ensureWatchdog, then the request goes out.
EnsureWatchdog(d) ==
  LET s == SessionOf[d] IN
  /\ pc[d] = "starting"
  /\ pc' = [pc EXCEPT ![d] = "open"]
  /\ IF FirstDialog(s)
       THEN /\ watch' = [watch EXCEPT ![s] = d]
            /\ wd' = [wd EXCEPT ![d] = "ping"]
       ELSE UNCHANGED <<watch, wd>>
  /\ UNCHANGED <<open, since, wait, cancelled>>

\* The user answered, the client failed or the caller's context ended.
Close(d) ==
  /\ pc[d] = "open"
  /\ pc' = [pc EXCEPT ![d] = "closed"]
  /\ Done(SessionOf[d])
  /\ UNCHANGED <<wait, wd>>

-----------------------------------------------------------------------------
(* The watchdog goroutine.  The first ping is not preceded by a look at    *)
(* the context, and its select may choose the ticker over a context that   *)
(* is done; a ping with a cancelled context may or may not be written.     *)

Step(d, from, to) ==
  /\ wd[d] = from
  /\ wd' = [wd EXCEPT ![d] = to]
  /\ UNCHANGED <<open, since, watch, pc, wait, cancelled>>

SendPing(d) == Step(d, "ping", "pinging")

Pong(d) == Step(d, "pinging", "waiting")

\* A refused, unanswered (interval/2) or cancelled ping ends the watchdog.
PingFails(d) == Step(d, "ping", "exited") \/ Step(d, "pinging", "exited")

TickerFires(d) == Step(d, "waiting", "ping")

StopWatchdog(d) == cancelled[d] /\ Step(d, "waiting", "exited")

-----------------------------------------------------------------------------

Age(t) == IF t < MinSpacing THEN t + 1 ELSE t
CountDown(t) == IF t > 0 THEN t - 1 ELSE t

Time ==
  /\ since' = [s \in Sessions |-> Age(since[s])]
  /\ wait' = [d \in Dialogs |-> CountDown(wait[d])]
  /\ UNCHANGED <<open, watch, pc, wd, cancelled>>

Dialog(d) ==
  \/ Begin(d)
  \/ TimerFires(d)
  \/ Abandon(d)
  \/ EnsureWatchdog(d)
  \/ Close(d)

Watchdog(d) ==
  \/ SendPing(d)
  \/ Pong(d)
  \/ PingFails(d)
  \/ TickerFires(d)
  \/ StopWatchdog(d)

Next ==
  \/ \E d \in Dialogs : Dialog(d) \/ Watchdog(d)
  \/ Time

Spec == Init /\ [][Next]_vars

\* Goroutines run; a ping ends in a pong or at its deadline; and a select
\* with the context ready does not choose the ticker for ever.
Fairness ==
  \A d \in Dialogs : /\ WF_vars(SendPing(d) \/ Pong(d) \/ PingFails(d))
                     /\ SF_vars(StopWatchdog(d))

FairSpec == Spec /\ Fairness

-----------------------------------------------------------------------------

\* Type correctness of the gate's entries, the dialogs and the watchdogs.
TypeOK ==
  /\ open \in [Sessions -> Nat]
  /\ since \in [Sessions -> 0..MinSpacing]
  /\ watch \in [Sessions -> Dialogs \cup {NoDialog}]
  /\ pc \in [Dialogs -> InFlight \cup {"idle", "closed"}]
  /\ wait \in [Dialogs -> 0..MinSpacing]
  /\ wd \in [Dialogs -> Running \cup {"none", "exited"}]
  /\ cancelled \in [Dialogs -> BOOLEAN]

\* The dialogs of a session that have begun and are not done.
DialogsOf(s) == {d \in Dialogs : SessionOf[d] = s /\ pc[d] \in InFlight}

\* A session's count is the number of its dialogs between begin and done, on
\* every path out of the middleware: a leaked count would keep the pings
\* going, a lost one would stop them under an open dialog.
OpenCount ==
  \A s \in Sessions : open[s] = Cardinality(DialogsOf(s))

\* A watchdog that nobody has cancelled is the one its session's entry can
\* cancel, and some dialog of that session is in flight: no session without a
\* dialog is pinged for ever, and none by two live watchdogs.
NoOrphanWatchdog ==
  \A d \in Dialogs : wd[d] \in Running /\ ~cancelled[d] =>
    /\ watch[SessionOf[d]] = d
    /\ DialogsOf(SessionOf[d]) # {}

\* The rest of the inductive invariant.  The watchdog of an entry is a
\* started one of the session's own, not cancelled, and the session has
\* dialogs in flight.
WatchOwned ==
  \A s \in Sessions : watch[s] # NoDialog =>
    /\ open[s] > 0
    /\ SessionOf[watch[s]] = s
    /\ wd[watch[s]] # "none" /\ ~cancelled[watch[s]]

\* A dialog has no watchdog before its ensureWatchdog.
NotYetWatched ==
  \A d \in Dialogs : pc[d] \in {"idle", "throttled", "starting"} =>
    wd[d] = "none" /\ ~cancelled[d]

\* The inductive invariant behind NoOrphanWatchdog.
IInv ==
  /\ TypeOK
  /\ OpenCount
  /\ WatchOwned
  /\ NotYetWatched
  /\ NoOrphanWatchdog

\* Once the last dialog of its session has ended a watchdog goes silent.
WatchdogStops ==
  \A d \in Dialogs :
    wd[d] \in Running /\ open[SessionOf[d]] = 0 ~> wd[d] = "exited"

\* The comment of minSpacing: rapid open/close/open cannot overlap watchdogs.
WatchdogsNeverOverlap ==
  \A d, e \in Dialogs :
    wd[d] \in Running /\ wd[e] \in Running /\ SessionOf[d] = SessionOf[e] => d = e

\* cmd/serve.go: while a dialog is open the client is pinged.  At the least,
\* a dialog that opens finds or starts a watchdog that is alive.
OpensUnderWatch ==
  [][\A d \in Dialogs :
       EnsureWatchdog(d) => wd'[watch'[SessionOf[d]]] \in Running]_vars

=============================================================================
