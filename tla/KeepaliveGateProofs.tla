----------------------- MODULE KeepaliveGateProofs -----------------------
(***************************************************************************)
(* The keepalive gate, for every finite set of dialogs and every set of    *)
(* sessions: the count of a session is right on every path, and a watchdog *)
(* that nobody has cancelled can still be, by a dialog in flight.          *)
(***************************************************************************)
EXTENDS KeepaliveGate, FiniteSetTheorems, TLAPS

\* The dialogs of a session are finitely many.
LEMMA DialogsFinite ==
  ASSUME NEW s \in Sessions
  PROVE  IsFiniteSet(DialogsOf(s)) /\ Cardinality(DialogsOf(s)) \in Nat
BY KeepaliveAssumption, FS_Subset, FS_CardinalityType DEF DialogsOf

\* A dialog that begins adds one to its session's dialogs and to no other's.
LEMMA DialogEnters ==
  ASSUME TypeOK, NEW d \in Dialogs, pc[d] \notin InFlight,
         NEW to \in InFlight, pc' = [pc EXCEPT ![d] = to]
  PROVE  \A s \in Sessions : Cardinality(DialogsOf(s)') =
           IF s = SessionOf[d] THEN Cardinality(DialogsOf(s)) + 1
                               ELSE Cardinality(DialogsOf(s))
<1> SUFFICES ASSUME NEW s \in Sessions
             PROVE  Cardinality(DialogsOf(s)') =
                      IF s = SessionOf[d] THEN Cardinality(DialogsOf(s)) + 1
                                          ELSE Cardinality(DialogsOf(s))
  OBVIOUS
<1>1. CASE s = SessionOf[d]
  <2>1. DialogsOf(s)' = DialogsOf(s) \cup {d} /\ d \notin DialogsOf(s)
    BY <1>1 DEF DialogsOf, TypeOK
  <2> QED
    BY <1>1, <2>1, DialogsFinite, FS_AddElement
<1>2. CASE s # SessionOf[d]
  <2>1. DialogsOf(s)' = DialogsOf(s)
    BY <1>2 DEF DialogsOf, TypeOK
  <2> QED
    BY <1>2, <2>1
<1> QED
  BY <1>1, <1>2

\* A dialog that ends takes one from its session's dialogs, from no other's.
LEMMA DialogLeaves ==
  ASSUME TypeOK, NEW d \in Dialogs, pc[d] \in InFlight,
         pc' = [pc EXCEPT ![d] = "closed"]
  PROVE  \A s \in Sessions : Cardinality(DialogsOf(s)') =
           IF s = SessionOf[d] THEN Cardinality(DialogsOf(s)) - 1
                               ELSE Cardinality(DialogsOf(s))
<1> SUFFICES ASSUME NEW s \in Sessions
             PROVE  Cardinality(DialogsOf(s)') =
                      IF s = SessionOf[d] THEN Cardinality(DialogsOf(s)) - 1
                                          ELSE Cardinality(DialogsOf(s))
  OBVIOUS
<1>1. CASE s = SessionOf[d]
  <2>1. DialogsOf(s)' = DialogsOf(s) \ {d} /\ d \in DialogsOf(s)
    BY <1>1 DEF DialogsOf, TypeOK, InFlight
  <2> QED
    BY <1>1, <2>1, DialogsFinite, FS_RemoveElement
<1>2. CASE s # SessionOf[d]
  <2>1. DialogsOf(s)' = DialogsOf(s)
    BY <1>2 DEF DialogsOf, TypeOK
  <2> QED
    BY <1>2, <2>1
<1> QED
  BY <1>1, <1>2

\* A dialog that moves on while in flight changes no session's dialogs.
LEMMA DialogStays ==
  ASSUME TypeOK, NEW d \in Dialogs, pc[d] \in InFlight,
         NEW to \in InFlight, pc' = [pc EXCEPT ![d] = to]
  PROVE  \A s \in Sessions : DialogsOf(s)' = DialogsOf(s)
BY DEF DialogsOf, TypeOK

\* A session with a dialog in flight has a positive count.
LEMMA InFlightCounts ==
  ASSUME OpenCount, NEW d \in Dialogs, pc[d] \in InFlight
  PROVE  open[SessionOf[d]] > 0
<1>1. SessionOf[d] \in Sessions /\ d \in DialogsOf(SessionOf[d])
  BY KeepaliveAssumption DEF DialogsOf
<1> QED
  BY <1>1, DialogsFinite, FS_EmptySet DEF OpenCount

\* The inductive invariant holds at the start: no entry and no dialog.
LEMMA KeepaliveInit == Init => IInv
<1> SUFFICES ASSUME Init PROVE IInv
  OBVIOUS
<1> USE KeepaliveAssumption DEF Init
<1>1. TypeOK
  BY DEF TypeOK
<1>2. \A s \in Sessions : DialogsOf(s) = {}
  BY DEF DialogsOf, InFlight
<1>3. OpenCount
  BY <1>2, FS_EmptySet DEF OpenCount
<1>4. WatchOwned /\ NotYetWatched /\ NoOrphanWatchdog
  BY DEF WatchOwned, NotYetWatched, NoOrphanWatchdog, Running
<1> QED
  BY <1>1, <1>3, <1>4 DEF IInv

\* What done does to the invariant, for a dialog that ends.
LEMMA DonePreserves ==
  ASSUME IInv, NEW d \in Dialogs, pc[d] \in InFlight,
         pc' = [pc EXCEPT ![d] = "closed"],
         Done(SessionOf[d]), UNCHANGED <<wait, wd>>
  PROVE  IInv'
<1> DEFINE s == SessionOf[d]
<1>0. /\ TypeOK /\ OpenCount /\ WatchOwned /\ NotYetWatched /\ NoOrphanWatchdog
      /\ s \in Sessions
  BY KeepaliveAssumption DEF IInv
<1>1. open[s] > 0 /\ open[s] \in Nat
  BY <1>0, InFlightCounts DEF TypeOK
<1>2. /\ open' = [open EXCEPT ![s] = @ - 1]
      /\ open[s] # 1 => UNCHANGED <<cancelled, watch, since>>
      /\ open[s] = 1 =>
           /\ cancelled' = [e \in Dialogs |-> cancelled[e] \/ e = watch[s]]
           /\ watch' = [watch EXCEPT ![s] = NoDialog]
           /\ since' = [since EXCEPT ![s] = MinSpacing]
  BY DEF Done, CancelWatch
<1> HIDE DEF s
<1>3. TypeOK'
  <2>1. open' \in [Sessions -> Nat] /\ pc' \in [Dialogs -> InFlight \cup {"idle", "closed"}]
    BY <1>0, <1>1, <1>2 DEF TypeOK
  <2>2. CASE open[s] = 1
    <3>1. cancelled' \in [Dialogs -> BOOLEAN]
      BY <1>2, <2>2, Zenon
    <3>2. /\ since' \in [Sessions -> 0..MinSpacing]
          /\ watch' \in [Sessions -> Dialogs \cup {NoDialog}]
      BY <1>0, <1>2, <2>2, KeepaliveAssumption DEF TypeOK
    <3> QED
      BY <1>0, <2>1, <3>1, <3>2 DEF TypeOK
  <2>3. CASE open[s] # 1
    BY <1>0, <1>2, <2>1, <2>3 DEF TypeOK
  <2> QED
    BY <2>2, <2>3
<1>4. OpenCount'
  <2>1. \A t \in Sessions : Cardinality(DialogsOf(t)') =
          IF t = s THEN Cardinality(DialogsOf(t)) - 1 ELSE Cardinality(DialogsOf(t))
    BY <1>0, DialogLeaves DEF s
  <2> QED
    BY <1>0, <1>2, <2>1 DEF OpenCount, TypeOK
<1>5. NotYetWatched'
  <2>1. \A e \in Dialogs : pc'[e] \in {"idle", "throttled", "starting"} =>
          e # d /\ pc[e] = pc'[e] /\ e # watch[s]
    <3> SUFFICES ASSUME NEW e \in Dialogs, pc'[e] \in {"idle", "throttled", "starting"}
                 PROVE  e # d /\ pc[e] = pc'[e] /\ e # watch[s]
      OBVIOUS
    <3>1. e # d /\ pc[e] = pc'[e]
      BY <1>0 DEF TypeOK
    <3>2. watch[s] # NoDialog => wd[watch[s]] # "none"
      BY <1>0 DEF WatchOwned
    <3> QED
      BY <1>0, <3>1, <3>2, KeepaliveAssumption DEF NotYetWatched, TypeOK
  <2> QED
    BY <1>0, <1>2, <2>1 DEF NotYetWatched, TypeOK
<1>6. WatchOwned'
  <2> SUFFICES ASSUME NEW t \in Sessions, watch'[t] # NoDialog
               PROVE  open'[t] > 0 /\ SessionOf[watch'[t]] = t
                      /\ wd'[watch'[t]] # "none" /\ ~cancelled'[watch'[t]]
    BY DEF WatchOwned
  <2>1. watch'[t] = watch[t] /\ watch[t] \in Dialogs /\ (t = s => open[s] > 1)
    BY <1>0, <1>1, <1>2 DEF TypeOK
  <2>2. open'[t] > 0
    BY <1>0, <1>2, <2>1 DEF WatchOwned, TypeOK
  <2>3. ~cancelled'[watch[t]]
    BY <1>0, <1>2, <2>1 DEF WatchOwned, TypeOK
  <2> QED
    BY <1>0, <2>1, <2>2, <2>3 DEF WatchOwned
<1>7. NoOrphanWatchdog'
  <2> SUFFICES ASSUME NEW e \in Dialogs, wd'[e] \in Running, ~cancelled'[e]
               PROVE  watch'[SessionOf[e]] = e /\ DialogsOf(SessionOf[e])' # {}
    BY DEF NoOrphanWatchdog
  <2>1. ~cancelled[e] /\ (open[s] = 1 => e # watch[s])
    BY <1>0, <1>2 DEF TypeOK
  <2>2. watch[SessionOf[e]] = e
    BY <1>0, <2>1 DEF NoOrphanWatchdog
  <2>3. watch'[SessionOf[e]] = e /\ SessionOf[e] \in Sessions
    BY <1>0, <1>2, <2>1, <2>2, KeepaliveAssumption DEF TypeOK
  <2>4. open'[SessionOf[e]] > 0
    BY <1>6, <2>3, KeepaliveAssumption DEF WatchOwned
  <2>5. Cardinality(DialogsOf(SessionOf[e])') > 0
    BY <1>4, <2>3, <2>4 DEF OpenCount
  <2> QED
    BY <2>3, <2>5, FS_EmptySet
<1> QED
  BY <1>3, <1>4, <1>5, <1>6, <1>7 DEF IInv

\* A step that touches neither the dialogs in flight nor the entries keeps
\* the invariant if no watchdog starts or is cancelled by it.
LEMMA WatchdogPreserves ==
  ASSUME IInv, NEW d \in Dialogs, NEW to \in Running \cup {"exited"},
         wd[d] \in Running, wd' = [wd EXCEPT ![d] = to],
         UNCHANGED <<open, since, watch, pc, wait, cancelled>>
  PROVE  IInv'
<1>0. /\ TypeOK /\ OpenCount /\ WatchOwned /\ NotYetWatched /\ NoOrphanWatchdog
  BY DEF IInv
<1>1. TypeOK'
  BY <1>0 DEF TypeOK
<1>2. \A s : DialogsOf(s)' = DialogsOf(s)
  BY DEF DialogsOf
<1>3. OpenCount'
  BY <1>0, <1>2 DEF OpenCount
<1>4. WatchOwned' /\ NotYetWatched'
  BY <1>0 DEF WatchOwned, NotYetWatched, TypeOK, Running
<1>5. NoOrphanWatchdog'
  BY <1>0, <1>2 DEF NoOrphanWatchdog, TypeOK
<1> QED
  BY <1>1, <1>3, <1>4, <1>5 DEF IInv

\* A dialog that begins keeps the invariant.
LEMMA BeginPreserves ==
  ASSUME IInv, NEW d \in Dialogs, Begin(d)
  PROVE  IInv'
<1> DEFINE s == SessionOf[d]
<1>0. /\ TypeOK /\ OpenCount /\ WatchOwned /\ NotYetWatched /\ NoOrphanWatchdog
      /\ s \in Sessions
  BY KeepaliveAssumption DEF IInv
<1>1. PICK to \in {"throttled", "starting"} : pc' = [pc EXCEPT ![d] = to]
  BY DEF Begin
<1>2. pc[d] = "idle" /\ to \in InFlight /\ pc[d] \notin InFlight
  BY <1>1 DEF Begin, InFlight
<1>3. TypeOK'
  BY <1>0, <1>1, <1>2, KeepaliveAssumption DEF TypeOK, Begin, Throttle
<1>4. \A t \in Sessions : Cardinality(DialogsOf(t)') =
        IF t = s THEN Cardinality(DialogsOf(t)) + 1 ELSE Cardinality(DialogsOf(t))
  BY <1>0, <1>1, <1>2, DialogEnters
<1>5. OpenCount'
  BY <1>0, <1>4 DEF OpenCount, TypeOK, Begin
<1>6. WatchOwned' /\ NotYetWatched'
  BY <1>0, <1>1, <1>2 DEF WatchOwned, NotYetWatched, TypeOK, Begin
<1>7. \A t \in Sessions : DialogsOf(t) \subseteq DialogsOf(t)'
  BY <1>0, <1>1, <1>2 DEF DialogsOf, TypeOK
<1>8. NoOrphanWatchdog'
  BY <1>0, <1>7, KeepaliveAssumption DEF NoOrphanWatchdog, Begin
<1> QED
  BY <1>3, <1>5, <1>6, <1>8 DEF IInv

\* A dialog whose throttle ends, or whose watchdog is ensured, keeps it.
LEMMA StartPreserves ==
  ASSUME IInv, NEW d \in Dialogs, TimerFires(d) \/ EnsureWatchdog(d)
  PROVE  IInv'
<1> DEFINE s == SessionOf[d]
<1>0. /\ TypeOK /\ OpenCount /\ WatchOwned /\ NotYetWatched /\ NoOrphanWatchdog
      /\ s \in Sessions
  BY KeepaliveAssumption DEF IInv
<1>1. PICK to \in {"starting", "open"} : pc' = [pc EXCEPT ![d] = to]
  BY DEF TimerFires, EnsureWatchdog
<1>2. pc[d] \in {"throttled", "starting"} /\ to \in InFlight /\ pc[d] \in InFlight
  BY <1>1 DEF TimerFires, EnsureWatchdog, InFlight
<1>3. \A t \in Sessions : DialogsOf(t)' = DialogsOf(t)
  BY <1>0, <1>1, <1>2, DialogStays
<1>4. OpenCount'
  BY <1>0, <1>3 DEF OpenCount, TimerFires, EnsureWatchdog
<1>5. wd[d] = "none" /\ ~cancelled[d]
  BY <1>0, <1>2 DEF NotYetWatched
<1>6. CASE TimerFires(d)
  <2>1. TypeOK'
    BY <1>0, <1>1, <1>2, <1>6 DEF TypeOK, TimerFires
  <2>2. WatchOwned' /\ NotYetWatched'
    BY <1>0, <1>2, <1>5, <1>6 DEF WatchOwned, NotYetWatched, TypeOK, TimerFires
  <2>3. NoOrphanWatchdog'
    BY <1>0, <1>3, <1>6, KeepaliveAssumption DEF NoOrphanWatchdog, TimerFires
  <2> QED
    BY <1>4, <2>1, <2>2, <2>3 DEF IInv
<1>7. CASE EnsureWatchdog(d)
  <2>1. TypeOK'
    BY <1>0, <1>1, <1>2, <1>7 DEF TypeOK, EnsureWatchdog, Running
  <2>2. open[s] > 0 /\ d \in DialogsOf(s)
    BY <1>0, <1>2, InFlightCounts DEF DialogsOf
  <2>3. NotYetWatched'
    BY <1>0, <1>7 DEF NotYetWatched, TypeOK, EnsureWatchdog
  <2>4. WatchOwned'
    BY <1>0, <1>5, <1>7, <2>2, KeepaliveAssumption
       DEF WatchOwned, TypeOK, EnsureWatchdog, FirstDialog
  <2>5. NoOrphanWatchdog'
    <3> SUFFICES ASSUME NEW e \in Dialogs, wd'[e] \in Running, ~cancelled'[e]
                 PROVE  watch'[SessionOf[e]] = e /\ DialogsOf(SessionOf[e])' # {}
      BY DEF NoOrphanWatchdog
    <3>1. SessionOf[e] \in Sessions /\ ~cancelled[e]
      BY <1>7, KeepaliveAssumption DEF EnsureWatchdog
    <3>2. CASE wd[e] \in Running
      <4>1. watch[SessionOf[e]] = e /\ DialogsOf(SessionOf[e]) # {}
        BY <1>0, <3>1, <3>2 DEF NoOrphanWatchdog
      <4>2. watch'[SessionOf[e]] = e
        BY <1>0, <1>7, <3>1, <4>1, KeepaliveAssumption
           DEF TypeOK, EnsureWatchdog, FirstDialog
      <4> QED
        BY <1>3, <3>1, <4>1, <4>2
    <3>3. CASE wd[e] \notin Running
      <4>1. e = d /\ watch'[s] = d
        BY <1>0, <1>7, <3>3 DEF TypeOK, EnsureWatchdog
      <4> QED
        BY <1>0, <1>3, <2>2, <4>1
    <3> QED
      BY <3>2, <3>3
  <2> QED
    BY <1>4, <2>1, <2>3, <2>4, <2>5 DEF IInv
<1> QED
  BY <1>6, <1>7

\* Time only moves the throttles.
LEMMA TimePreserves == IInv /\ Time => IInv'
<1> SUFFICES ASSUME IInv, Time PROVE IInv'
  OBVIOUS
<1>0. /\ TypeOK /\ OpenCount /\ WatchOwned /\ NotYetWatched /\ NoOrphanWatchdog
  BY DEF IInv
<1>1. TypeOK'
  BY <1>0, KeepaliveAssumption DEF TypeOK, Time, Age, CountDown
<1>2. \A s : DialogsOf(s)' = DialogsOf(s)
  BY DEF DialogsOf, Time
<1>3. OpenCount' /\ NoOrphanWatchdog'
  BY <1>0, <1>2 DEF OpenCount, NoOrphanWatchdog, Time
<1>4. WatchOwned' /\ NotYetWatched'
  BY <1>0 DEF WatchOwned, NotYetWatched, Time
<1> QED
  BY <1>1, <1>3, <1>4 DEF IInv

\* The invariant is inductive.
LEMMA KeepaliveStep == IInv /\ [Next]_vars => IInv'
<1> SUFFICES ASSUME IInv, [Next]_vars PROVE IInv'
  OBVIOUS
<1>1. ASSUME NEW d \in Dialogs, Dialog(d) PROVE IInv'
  <2>1. CASE Begin(d)
    BY <2>1, BeginPreserves
  <2>2. CASE TimerFires(d) \/ EnsureWatchdog(d)
    BY <2>2, StartPreserves
  <2>3. CASE Abandon(d) \/ Close(d)
    BY <2>3, DonePreserves DEF Abandon, Close, InFlight
  <2> QED
    BY <1>1, <2>1, <2>2, <2>3 DEF Dialog
<1>2. ASSUME NEW d \in Dialogs, Watchdog(d) PROVE IInv'
  BY <1>2, WatchdogPreserves
     DEF Watchdog, SendPing, Pong, PingFails, TickerFires, StopWatchdog, Step, Running
<1>3. CASE Time
  BY <1>3, TimePreserves
<1>4. CASE UNCHANGED vars
  BY <1>4 DEF vars, IInv, TypeOK, OpenCount, WatchOwned, NotYetWatched,
     NoOrphanWatchdog, DialogsOf
<1> QED
  BY <1>1, <1>2, <1>3, <1>4 DEF Next

\* The gate's variables keep their types: the sessions' entries, the dialogs in
\* the middleware and their watchdogs.
THEOREM KeepaliveTypeCorrect == Spec => []TypeOK
<1>1. IInv => TypeOK
  BY DEF IInv
<1> QED
  BY KeepaliveInit, KeepaliveStep, <1>1, PTL DEF Spec

\* The inductive invariant of the gate: the registered watchdog of a session is
\* one of its own dialogs, started by ensureWatchdog and not cancelled by done.
THEOREM KeepaliveInvariant == Spec => []IInv
BY KeepaliveInit, KeepaliveStep, PTL DEF Spec

\* The count of a session is the number of its dialogs between begin and
\* done, on every path out of the middleware.
THEOREM CountsDialogs == Spec => []OpenCount
<1>1. IInv => OpenCount
  BY DEF IInv
<1> QED
  BY KeepaliveInit, KeepaliveStep, <1>1, PTL DEF Spec

\* A watchdog that nobody has cancelled belongs to a session with a dialog in
\* flight, whose end will cancel it: pings never outlive the dialogs unseen.
THEOREM NoWatchdogIsOrphaned == Spec => []NoOrphanWatchdog
<1>1. IInv => NoOrphanWatchdog
  BY DEF IInv
<1> QED
  BY KeepaliveInit, KeepaliveStep, <1>1, PTL DEF Spec

==========================================================================
