--------------------------- MODULE ControlProofs ---------------------------
(***************************************************************************)
(* Control for every set of receivers, workers and commands: no wakeup is  *)
(* lost, no endpoint is leaked, and the queue is a mailbox.                *)
(***************************************************************************)
EXTENDS Control, TLAPS

USE ControlAssumption

LEMMA ClampInRange ==
    ASSUME NEW n \in Int
    PROVE  Clamp(n) \in Values
BY DEF Clamp, Values

LEMMA EmptyIsABatch == Empty \in [Metrics -> Slots]
BY DEF Empty, Slots

LEMMA WorkerStepType ==
    ASSUME TypeOK, NEW w \in Workers, WorkerStep(w)
    PROVE  TypeOK'
<1> USE EmptyIsABatch
<1>0. {"off", "wait", "drain", "open", "percent", "muted", "brightness"} \subseteq Labels
  BY DEF Labels
<1>1. CASE ComInit(w)
  BY <1>0, <1>1 DEF TypeOK, ComInit, Goto, queueVars, countVars
<1>2. CASE Wake(w)
  BY <1>0, <1>2 DEF TypeOK, Wake, Goto, countVars
<1>3. CASE Quit(w)
  BY <1>0, <1>3 DEF TypeOK, Quit, Goto, queueVars, countVars
<1>4. CASE Drain(w)
  BY <1>0, <1>4 DEF TypeOK, Drain, Goto
<1>5. CASE Open(w)
  <2>1. \E to \in Labels : pc' = [pc EXCEPT ![w] = to]
    BY <1>0, <1>5 DEF Open, Goto
  <2>2. endpoint' \in SUBSET Workers
    BY <1>5 DEF TypeOK, Open
  <2>3. strayed' \in SUBSET Metrics
    BY <1>5 DEF TypeOK, Open, Dropped, Metrics
  <2> QED
    BY <1>5, <2>1, <2>2, <2>3 DEF TypeOK, Open, queueVars
<1>6. ASSUME NEW m \in Metrics, NEW next \in Labels, Apply(w, m, next),
             batch' \in [Workers -> [Metrics -> Slots]]
      PROVE  TypeOK'
  <2>1. device' \in [Metrics -> Slots]
    BY <1>6 DEF TypeOK, Apply
  <2> QED
    BY <1>6, <2>1 DEF TypeOK, Apply, Goto, queueVars, countVars
<1>7. ASSUME NEW m \in Metrics, NEW next \in Labels, ApplyFails(w, m, next)
      PROVE  TypeOK'
  BY <1>7 DEF TypeOK, ApplyFails, Goto, Dropped, queueVars, countVars
<1>8. UNCHANGED batch => batch' \in [Workers -> [Metrics -> Slots]]
  BY DEF TypeOK
<1>9. CASE SetPercent(w) \/ SetMuted(w)
  BY <1>0, <1>6, <1>7, <1>8, <1>9 DEF SetPercent, SetMuted, Metrics
<1>10. CASE SetBrightness(w)
  <2>1. batch' \in [Workers -> [Metrics -> Slots]]
    BY <1>10 DEF TypeOK, SetBrightness
  <2>2. CASE Apply(w, "brightness", "wait")
    BY <1>0, <1>6, <2>1, <2>2 DEF Metrics
  <2>3. CASE ~Apply(w, "brightness", "wait")
    BY <1>0, <1>10, <2>1, <2>3 DEF TypeOK, SetBrightness, Goto, Dropped, Metrics, queueVars, countVars
  <2> QED
    BY <2>2, <2>3
<1> QED
  BY <1>1, <1>2, <1>3, <1>4, <1>5, <1>9, <1>10 DEF WorkerStep

\* The types, and with them the range of every value queued or set.
LEMMA TypeInductive == TypeOK /\ [Next]_vars => TypeOK'
<1> SUFFICES ASSUME TypeOK, [Next]_vars
             PROVE  TypeOK'
  OBVIOUS
<1>1. ASSUME NEW r \in Receivers, NEW m \in Metrics, NEW n \in Commands, Enqueue(r, m, n)
      PROVE  TypeOK'
  <2>1. Clamp(n) \in Slots
    BY ClampInRange DEF Slots
  <2> QED
    BY <1>1, <2>1 DEF TypeOK, Enqueue, workerVars
<1>2. ASSUME NEW r \in Receivers, Signal(r)
      PROVE  TypeOK'
  BY <1>2 DEF TypeOK, Signal, workerVars, countVars
<1>3. ASSUME NEW w \in Workers, Start(w)
      PROVE  TypeOK'
  BY <1>3 DEF TypeOK, Start, Labels, queueVars
<1>4. CASE Stop
  BY <1>4 DEF TypeOK, Stop, queueVars, countVars
<1>5. CASE UNCHANGED vars
  BY <1>5 DEF TypeOK, vars, queueVars, workerVars, countVars
<1> QED
  BY <1>1, <1>2, <1>3, <1>4, <1>5, WorkerStepType DEF Next

\* Type correctness of the queue, its workers and the device, whatever is sent.
THEOREM TypeCorrect == Spec => []TypeOK
<1>1. Init => TypeOK
  <2> SUFFICES ASSUME Init
               PROVE  TypeOK
    OBVIOUS
  <2>1. /\ latest \in [Metrics -> Slots] /\ device \in [Metrics -> Slots]
        /\ intent \in [Metrics -> Slots] /\ batch \in [Workers -> [Metrics -> Slots]]
    BY EmptyIsABatch DEF Init
  <2>2. pc \in [Workers -> Labels]
    BY DEF Init, Labels
  <2>3. token \in BOOLEAN
    BY DEF Init
  <2>4. /\ signalling \in SUBSET Receivers
        /\ reporting \in Workers \cup {NoWorker} /\ cancelled \in SUBSET Workers
        /\ endpoint \in SUBSET Workers /\ commands \in 0..MaxCommands /\ starts \in 0..MaxStarts
    BY DEF Init, Empty
  <2>5. strayed \in SUBSET Metrics
    BY DEF Init
  <2> QED
    BY <2>1, <2>2, <2>3, <2>4, <2>5 DEF TypeOK
<1> QED
  BY <1>1, TypeInductive, PTL DEF Spec

-----------------------------------------------------------------------------
(***************************************************************************)
(* No lost wakeup.  The formula is inductive given the types: a step that  *)
(* takes the token puts its worker at "drain", a step that leaves "drain"  *)
(* empties the map, and one that adds to the map adds a signaller.         *)
(***************************************************************************)

LEMMA NoLostWakeupInductive ==
    TypeOK /\ NoLostWakeup /\ [Next]_vars => NoLostWakeup'
<1> SUFFICES ASSUME TypeOK, NoLostWakeup, [Next]_vars
             PROVE  NoLostWakeup'
  OBVIOUS
<1>1. ASSUME NEW r \in Receivers, NEW m \in Metrics, NEW n \in Commands, Enqueue(r, m, n)
      PROVE  NoLostWakeup'
  BY <1>1 DEF NoLostWakeup, Enqueue
<1>2. ASSUME NEW r \in Receivers, Signal(r)
      PROVE  NoLostWakeup'
  BY <1>2 DEF NoLostWakeup, Signal
<1>3. ASSUME NEW w \in Workers, NEW from, NEW to, from # "drain",
             Goto(w, from, to), UNCHANGED queueVars
      PROVE  NoLostWakeup'
  BY <1>3 DEF TypeOK, NoLostWakeup, Goto, queueVars
<1>4. ASSUME NEW w \in Workers, Start(w)
      PROVE  NoLostWakeup'
  BY <1>3, <1>4 DEF Start, Goto
<1>5. ASSUME NEW w \in Workers, Wake(w)
      PROVE  NoLostWakeup'
  BY <1>5 DEF TypeOK, NoLostWakeup, Wake, Goto
<1>6. ASSUME NEW w \in Workers, Drain(w)
      PROVE  NoLostWakeup'
  <2>1. latest' = Empty
    BY <1>6 DEF Drain
  <2> QED
    BY <2>1 DEF NoLostWakeup, Empty
<1>7. ASSUME NEW w \in Workers, ComInit(w) \/ Quit(w)
      PROVE  NoLostWakeup'
  BY <1>3, <1>7 DEF ComInit, Quit
<1>8. ASSUME NEW w \in Workers, Open(w)
      PROVE  NoLostWakeup'
  BY <1>3, <1>8 DEF Open
<1>9. ASSUME NEW w \in Workers, SetPercent(w) \/ SetMuted(w) \/ SetBrightness(w)
      PROVE  NoLostWakeup'
  BY <1>3, <1>9 DEF SetPercent, SetMuted, SetBrightness, Apply, ApplyFails
<1>10. CASE Stop \/ UNCHANGED vars
  BY <1>10 DEF NoLostWakeup, Stop, vars, queueVars, workerVars
<1> QED
  BY <1>1, <1>2, <1>4, <1>5, <1>6, <1>7, <1>8, <1>9, <1>10 DEF Next, WorkerStep

\* Whatever the order of enqueuing, cancelling and starting workers, an action in
\* the map is never left there without a token, a signal or a worker under way.
THEOREM NoWakeupIsLost == Spec => []NoLostWakeup
<1>1. Init => NoLostWakeup
  BY DEF Init, NoLostWakeup
<1> QED
  BY <1>1, TypeCorrect, NoLostWakeupInductive, PTL DEF Spec
-----------------------------------------------------------------------------
\* Only a worker inside its loop opens an endpoint, and leaving the loop releases it.
LEMMA EndpointInductive ==
    TypeOK /\ EndpointReleased /\ [Next]_vars => EndpointReleased'
<1> SUFFICES ASSUME TypeOK, EndpointReleased, [Next]_vars
             PROVE  EndpointReleased'
  OBVIOUS
<1>1. ASSUME NEW w \in Workers, Start(w)
      PROVE  EndpointReleased'
  BY <1>1 DEF TypeOK, EndpointReleased, Start
<1>2. ASSUME NEW w \in Workers, ComInit(w)
      PROVE  EndpointReleased'
  BY <1>2 DEF TypeOK, EndpointReleased, ComInit, Goto
<1>3. ASSUME NEW w \in Workers, Quit(w)
      PROVE  EndpointReleased'
  BY <1>3 DEF TypeOK, EndpointReleased, Quit, Goto
<1>4. ASSUME NEW w \in Workers, NEW from \in Labels, NEW to \in Labels \ {"off", "init"},
             from \notin {"off", "init"}, Goto(w, from, to), endpoint' \subseteq endpoint \cup {w}
      PROVE  EndpointReleased'
  BY <1>4 DEF TypeOK, EndpointReleased, Goto
<1>5. {"wait", "drain", "open", "percent", "muted", "brightness"} \subseteq Labels \ {"off", "init"}
  BY DEF Labels
<1>6. ASSUME NEW w \in Workers, Wake(w) \/ Drain(w) \/ Open(w)
      PROVE  EndpointReleased'
  BY <1>4, <1>5, <1>6 DEF Wake, Drain, Open
<1>7. ASSUME NEW w \in Workers, SetPercent(w) \/ SetMuted(w) \/ SetBrightness(w)
      PROVE  EndpointReleased'
  BY <1>4, <1>5, <1>7 DEF SetPercent, SetMuted, SetBrightness, Apply, ApplyFails
<1>8. ASSUME UNCHANGED <<pc, endpoint>>
      PROVE  EndpointReleased'
  BY <1>8 DEF EndpointReleased
<1>9. ASSUME NEW r \in Receivers, NEW m \in Metrics, NEW n \in Commands,
             Enqueue(r, m, n)
      PROVE  EndpointReleased'
  BY <1>8, <1>9 DEF Enqueue, workerVars
<1>10. ASSUME NEW r \in Receivers, Signal(r)
       PROVE  EndpointReleased'
  BY <1>8, <1>10 DEF Signal, workerVars
<1>11. CASE Stop \/ UNCHANGED vars
  BY <1>8, <1>11 DEF Stop, vars, workerVars
<1> QED
  BY <1>1, <1>2, <1>3, <1>6, <1>7, <1>9, <1>10, <1>11 DEF Next, WorkerStep

\* A control worker that has ended, cancelled or not, holds no COM endpoint.
THEOREM NoEndpointLeaks == Spec => []EndpointReleased
<1>1. Init => EndpointReleased
  BY DEF Init, EndpointReleased
<1> QED
  BY <1>1, TypeCorrect, EndpointInductive, PTL DEF Spec

-----------------------------------------------------------------------------
(***************************************************************************)
(* The safety half of the refinement: every step of Control puts a value   *)
(* in the box, takes all of them, opens or closes the box, or is invisible *)
(* to it.                                                                  *)
(***************************************************************************)
LEMMA StepsRefine ==
    TypeOK /\ [Next]_vars => [Box!Next]_<<latest, Served>>
<1> SUFFICES ASSUME TypeOK, [Next]_vars
             PROVE  [Box!Next]_<<latest, Served>>
  OBVIOUS
<1>1. ASSUME NEW r \in Receivers, NEW m \in Metrics, NEW n \in Commands, Enqueue(r, m, n)
      PROVE  Box!Next
  <2>1. Clamp(n) \in Values
    BY ClampInRange
  <2>2. Box!Put(m, Clamp(n))
    BY <1>1 DEF Enqueue, Box!Put, Served, workerVars
  <2> QED
    BY <2>1, <2>2 DEF Box!Next
<1>2. ASSUME NEW w \in Workers, Drain(w)
      PROVE  [Box!Next]_<<latest, Served>>
  <2>1. UNCHANGED Served
    BY <1>2 DEF Drain, Goto, Served, TypeOK
  <2> QED
    BY <1>2, <2>1 DEF Drain, Box!Next, Box!TakeAll, Empty, Box!Empty
<1>3. ASSUME UNCHANGED latest
      PROVE  [Box!Next]_<<latest, Served>>
  <2>1. Box!SetOpen(Served')
    BY <1>3 DEF Box!SetOpen
  <2>2. Served' \in BOOLEAN
    BY DEF Served
  <2> QED
    BY <2>1, <2>2 DEF Box!Next
<1>4. ASSUME NEW r \in Receivers, Signal(r)
      PROVE  UNCHANGED latest
  BY <1>4 DEF Signal
<1>5. ASSUME NEW w \in Workers, WorkerStep(w), ~Drain(w)
      PROVE  UNCHANGED latest
  BY <1>5 DEF WorkerStep, ComInit, Wake, Quit, Open, SetPercent, SetMuted, SetBrightness,
              Apply, ApplyFails, queueVars
<1>6. ASSUME NEW w \in Workers, Start(w)
      PROVE  UNCHANGED latest
  BY <1>6 DEF Start, queueVars
<1>7. CASE Stop \/ UNCHANGED vars
  BY <1>3, <1>7 DEF Stop, vars, queueVars
<1> QED
  BY <1>1, <1>2, <1>3, <1>4, <1>5, <1>6, <1>7 DEF Next

\* The queue with its channel and its workers implements the safety part of Mailbox:
\* a value leaves only by being taken with all others or replaced by a newer one.
THEOREM QueueIsAMailbox == Spec => Box!Spec
<1>1. Init => Box!Init
  BY DEF Init, Box!Init, Empty, Box!Empty, Served
<1> QED
  BY <1>1, TypeCorrect, StepsRefine, PTL DEF Spec, Box!Spec

-----------------------------------------------------------------------------
(***************************************************************************)
(* The newest command wins.  For a metric that has not strayed one worker  *)
(* at most has a command to apply, and the newest command is in the queue, *)
(* or else with that worker, or else on the device.                        *)
(***************************************************************************)

Follows(m) ==
    /\ latest[m] # NoValue => latest[m] = intent[m]
    /\ m \notin strayed =>
        /\ \A v, w \in Workers : Pending(v, m) /\ Pending(w, m) => v = w
        /\ latest[m] = NoValue =>
            /\ \A w \in Workers : Pending(w, m) => batch[w][m] = intent[m]
            /\ (\A w \in Workers : ~Pending(w, m)) => device[m] = intent[m]

FollowsAll == \A m \in Metrics : Follows(m)

\* A step that does not concern the metric.
Apart(m) ==
    /\ latest'[m] = latest[m] /\ intent'[m] = intent[m] /\ device'[m] = device[m]
    /\ m \in strayed => m \in strayed'
    /\ \A w \in Workers : /\ Pending(w, m)' <=> Pending(w, m)
                          /\ Pending(w, m) => batch'[w][m] = batch[w][m]

\* A step that drops the command a worker has for it.
Drops(m) == latest'[m] = latest[m] /\ intent'[m] = intent[m] /\ m \in strayed'

LEMMA FollowsApart ==
    ASSUME NEW m \in Metrics, Follows(m), Apart(m) \/ Drops(m)
    PROVE  Follows(m)'
BY DEF Follows, Apart, Drops

\* Pending, metric by metric.
LEMMA PendingAt ==
    \A w \in Workers :
        /\ Pending(w, "percent") <=> Has(w, "percent") /\ pc[w] \in {"open", "percent"}
        /\ Pending(w, "muted") <=> Has(w, "muted") /\ pc[w] \in {"open", "percent", "muted"}
        /\ Pending(w, "brightness") <=>
               Has(w, "brightness") /\ pc[w] \in {"open", "percent", "muted", "brightness"}
BY DEF Pending, Ahead

LEMMA FollowsInductive ==
    ASSUME TypeOK, FollowsAll, [Next]_vars
    PROVE  FollowsAll'
<1>0. /\ pc \in [Workers -> Labels] /\ batch \in [Workers -> [Metrics -> Slots]]
      /\ latest \in [Metrics -> Slots] /\ device \in [Metrics -> Slots]
      /\ intent \in [Metrics -> Slots] /\ strayed \in SUBSET Metrics
  BY DEF TypeOK
<1>1. ASSUME \A m \in Metrics : Apart(m) \/ Drops(m)
      PROVE  FollowsAll'
  BY <1>1, FollowsApart DEF FollowsAll
\* A step that moves a worker between labels at which it has nothing to apply.
<1>2. ASSUME NEW w \in Workers, NEW from, NEW to, Goto(w, from, to),
             {from, to} \cap {"open", "percent", "muted", "brightness"} = {},
             UNCHANGED <<latest, intent, strayed, device, batch>>
      PROVE  FollowsAll'
  <2>1. \A m \in Metrics : Apart(m)
    BY <1>0, <1>2 DEF Goto, Apart, Pending, Ahead, Has, Metrics
  <2> QED
    BY <1>1, <2>1
<1>3. ASSUME UNCHANGED <<latest, intent, strayed, device, batch, pc>>
      PROVE  FollowsAll'
  BY <1>1, <1>3 DEF Apart, Pending, Has
<1>4. ASSUME NEW r \in Receivers, NEW m \in Metrics, NEW n \in Commands, Enqueue(r, m, n)
      PROVE  FollowsAll'
  <2>1. Clamp(n) # NoValue
    BY ClampInRange
  <2>2. /\ latest'[m] = Clamp(n) /\ intent'[m] = Clamp(n)
        /\ UNCHANGED <<device, batch, pc, strayed>>
    BY <1>0, <1>4 DEF Enqueue, workerVars
  <2>3. \A w \in Workers : Pending(w, m)' <=> Pending(w, m)
    BY <2>2 DEF Pending, Has
  <2>4. Follows(m)'
    BY <2>1, <2>2, <2>3 DEF FollowsAll, Follows
  <2>5. \A k \in Metrics \ {m} : Apart(k)
    BY <1>0, <1>4, <2>2 DEF Enqueue, Apart, Pending, Has
  <2> QED
    BY <2>4, <2>5, FollowsApart DEF FollowsAll
<1>5. ASSUME NEW r \in Receivers, Signal(r)
      PROVE  FollowsAll'
  BY <1>3, <1>5 DEF Signal, workerVars, countVars
<1>6. ASSUME NEW w \in Workers, Start(w)
      PROVE  FollowsAll'
  BY <1>2, <1>6 DEF Start, Goto, queueVars
<1>7. CASE Stop \/ UNCHANGED vars
  BY <1>3, <1>7 DEF Stop, vars, queueVars, workerVars, countVars
<1>8. ASSUME NEW w \in Workers, ComInit(w) \/ Wake(w) \/ Quit(w)
      PROVE  FollowsAll'
  BY <1>2, <1>8 DEF ComInit, Wake, Quit, queueVars, countVars
\* A batch is taken: of a metric in it this worker has the newest command, alone
\* unless the metric strays.
<1>9. ASSUME NEW w \in Workers, Drain(w)
      PROVE  FollowsAll'
  <2>1. /\ pc[w] = "drain" /\ pc' = [pc EXCEPT ![w] = IF latest = Empty THEN "wait" ELSE "open"]
        /\ batch' = [batch EXCEPT ![w] = latest] /\ latest' = Empty
        /\ UNCHANGED <<intent, device>>
    BY <1>9 DEF Drain, Goto
  <2>2. ASSUME NEW m \in Metrics
        PROVE  Follows(m)'
    <3>1. \A v \in Workers \ {w} : (Pending(v, m)' <=> Pending(v, m)) /\ batch'[v][m] = batch[v][m]
      BY <1>0, <2>1 DEF Pending, Has
    <3>2. ~Pending(w, m) /\ latest'[m] = NoValue /\ batch'[w][m] = latest[m]
      BY <1>0, <2>1 DEF Pending, Ahead, Metrics, Empty
    <3>3. CASE latest[m] = NoValue
      <4>1. ~Pending(w, m)'
        BY <3>2, <3>3 DEF Pending, Has
      <4>2. m \in strayed' <=> m \in strayed
        BY <1>9, <3>3 DEF Drain
      <4>3. Apart(m)
        BY <2>1, <3>1, <3>2, <3>3, <4>1, <4>2 DEF Apart
      <4> QED
        BY <4>3, FollowsApart DEF FollowsAll
    <3>4. CASE latest[m] # NoValue
      <4>1. latest # Empty
        BY <3>4 DEF Empty
      <4>2. Pending(w, m)'
        BY <1>0, <2>1, <3>2, <3>4, <4>1 DEF Pending, Ahead, Has, Metrics
      <4>3. latest[m] = intent[m]
        BY <3>4 DEF FollowsAll, Follows
      <4>4. m \notin strayed' => \A v \in Workers \ {w} : ~Pending(v, m)'
        BY <1>9, <3>1, <3>4 DEF Drain
      <4> QED
        BY <2>1, <3>2, <4>2, <4>3, <4>4 DEF Follows
    <3> QED
      BY <3>3, <3>4
  <2> QED
    BY <2>2 DEF FollowsAll
<1>10. ASSUME NEW w \in Workers, Open(w)
       PROVE  FollowsAll'
  <2>1. UNCHANGED <<latest, intent, device, batch>> /\ pc[w] = "open"
    BY <1>10 DEF Open, Goto, queueVars
  <2>2. \A m \in Metrics : \A v \in Workers \ {w} : Pending(v, m)' <=> Pending(v, m)
    BY <1>0, <1>10, <2>1 DEF Open, Goto, Pending, Has
  <2>3. CASE pc'[w] = "percent" /\ UNCHANGED strayed
    <3>1. \A m \in Metrics : Pending(w, m)' <=> Pending(w, m)
      BY <2>1, <2>3 DEF Pending, Ahead, Has, Metrics
    <3> QED
      BY <1>1, <2>1, <2>2, <2>3, <3>1 DEF Apart
  <2>4. CASE pc'[w] = "brightness" /\ Dropped(w, {"percent", "muted"})
    <3>1. Pending(w, "brightness")' <=> Pending(w, "brightness")
      BY <2>1, <2>4 DEF Pending, Ahead, Has
    <3>2. \A m \in {"percent", "muted"} : ~Has(w, m) => ~Pending(w, m) /\ ~Pending(w, m)'
      BY <2>1 DEF Pending, Has
    <3>3. \A m \in {"percent", "muted"} : Has(w, m) => Drops(m)
      BY <2>1, <2>4 DEF Drops, Dropped
    <3> QED
      BY <1>1, <2>1, <2>2, <2>4, <3>1, <3>2, <3>3 DEF Apart, Dropped, Metrics
  <2>5. CASE ~Has(w, "percent") /\ ~Has(w, "muted") /\ pc'[w] = "brightness" /\ UNCHANGED strayed
    <3>1. Dropped(w, {"percent", "muted"})
      BY <2>5 DEF Dropped
    <3> QED
      BY <2>4, <2>5, <3>1
  <2> QED
    BY <1>0, <1>10, <2>3, <2>4, <2>5 DEF Open, Goto
\* An action of the batch reaches the device, or is dropped, or is not there.
<1>11. ASSUME NEW w \in Workers, NEW m \in Metrics, pc[w] = m,
              \A k \in Metrics : ~Pending(w, m)' /\ (k # m => (Pending(w, k)' <=> Pending(w, k))),
              \A k \in Metrics : Pending(w, k)' => batch'[w][k] = batch[w][k],
              \A v \in Workers \ {w} : pc'[v] = pc[v] /\ batch'[v] = batch[v],
              UNCHANGED <<latest, intent>>,
              \/ /\ device' = IF Has(w, m) THEN [device EXCEPT ![m] = batch[w][m]] ELSE device
                 /\ UNCHANGED strayed
              \/ Has(w, m) /\ Dropped(w, {m}) /\ UNCHANGED device
       PROVE  FollowsAll'
  <2>1. \A k \in Metrics : \A v \in Workers \ {w} : Pending(v, k)' <=> Pending(v, k)
    BY <1>11 DEF Pending, Has
  <2>2. \A k \in Metrics \ {m} : Apart(k)
    BY <1>0, <1>11, <2>1 DEF Apart, Dropped
  <2>3. CASE ~Has(w, m)
    <3>1. ~Pending(w, m) /\ ~Pending(w, m)'
      BY <1>11, <2>3 DEF Pending
    <3>2. Apart(m)
      BY <1>11, <2>1, <2>3, <3>1 DEF Apart
    <3> QED
      BY <1>1, <2>2, <3>2
  <2>4. CASE Has(w, m) /\ Dropped(w, {m}) /\ UNCHANGED device
    BY <1>1, <1>11, <2>2, <2>4 DEF Drops, Dropped
  <2>5. CASE Has(w, m) /\ device' = [device EXCEPT ![m] = batch[w][m]] /\ UNCHANGED strayed
    <3>1. Pending(w, m) /\ device'[m] = batch[w][m]
      BY <1>0, <1>11, <2>5 DEF Pending, Ahead, Metrics
    <3>2. Follows(m)'
      BY <1>11, <2>1, <2>5, <3>1 DEF FollowsAll, Follows
    <3> QED
      BY <2>2, <3>2, FollowsApart DEF FollowsAll
  <2> QED
    BY <1>11, <2>3, <2>4, <2>5
<1>12. ASSUME NEW w \in Workers, NEW m \in {"percent", "muted"},
              NEW next \in {"muted", "brightness"},
              (m = "percent" /\ next = "muted") \/ (m = "muted" /\ next = "brightness"),
              (Apply(w, m, next) /\ UNCHANGED batch) \/ ApplyFails(w, m, next)
       PROVE  FollowsAll'
  <2>1. /\ pc[w] = m /\ pc'[w] = next
        /\ \A v \in Workers \ {w} : pc'[v] = pc[v]
        /\ UNCHANGED <<batch, latest, intent>>
    BY <1>0, <1>12 DEF Apply, ApplyFails, Goto, queueVars, countVars
  <2>2. ~Pending(w, m)' /\ \A k \in Metrics \ {m} : Pending(w, k)' <=> Pending(w, k)
    BY <1>12, <2>1 DEF Pending, Ahead, Has, Metrics
  <2>3. \/ /\ device' = IF Has(w, m) THEN [device EXCEPT ![m] = batch[w][m]] ELSE device
           /\ UNCHANGED strayed
        \/ Has(w, m) /\ Dropped(w, {m}) /\ UNCHANGED device
    BY <1>12 DEF Apply, ApplyFails, countVars
  <2> QED
    BY <1>11, <1>12, <2>1, <2>2, <2>3 DEF Metrics
<1>13. ASSUME NEW w \in Workers, SetBrightness(w)
       PROVE  FollowsAll'
  <2>1. /\ pc[w] = "brightness" /\ pc'[w] = "wait"
        /\ \A v \in Workers \ {w} : pc'[v] = pc[v] /\ batch'[v] = batch[v]
        /\ UNCHANGED <<latest, intent>>
    BY <1>0, <1>13 DEF SetBrightness, Apply, Goto, queueVars, countVars
  <2>2. \A k \in Metrics : ~Pending(w, k)'
    BY <2>1 DEF Pending, Ahead, Metrics
  <2>3. \A k \in Metrics \ {"brightness"} : ~Pending(w, k)
    BY <2>1 DEF Pending, Ahead, Metrics
  <2>4. \/ /\ device' = IF Has(w, "brightness")
                        THEN [device EXCEPT !["brightness"] = batch[w]["brightness"]] ELSE device
           /\ UNCHANGED strayed
        \/ Has(w, "brightness") /\ Dropped(w, {"brightness"}) /\ UNCHANGED device
    BY <1>13 DEF SetBrightness, Apply, countVars
  <2> QED
    BY <1>11, <2>1, <2>2, <2>3, <2>4 DEF Metrics
<1> QED
  BY <1>4, <1>5, <1>6, <1>7, <1>8, <1>9, <1>10, <1>12, <1>13
     DEF Next, WorkerStep, SetPercent, SetMuted

\* Once the queue and the workers are through with a metric, the device shows the newest
\* command, unless that was dropped or raced an older one: whatever is sent, however often
\* reporting has been stopped and started.
THEOREM NewestCommandWins == Spec => []NewestWins
<1>1. Init => FollowsAll
  BY DEF Init, FollowsAll, Follows, Pending, Has, Empty
<1>2. FollowsAll => NewestWins
  BY DEF FollowsAll, Follows, NewestWins
<1> QED
  BY <1>1, <1>2, TypeCorrect, FollowsInductive, PTL DEF Spec
=============================================================================
