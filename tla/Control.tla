------------------------------ MODULE Control ------------------------------
(***************************************************************************)
(* Remote control on Windows: notify_set commands become actions in the    *)
(* actionQueue (core/runtime/control_queue.go), and the control worker     *)
(* that StartReporting starts (control_worker_windows.go) applies them to  *)
(* the audio endpoint and the monitor.                                     *)
(*                                                                         *)
(* Receivers are SDK read loops inside enqueueControlAction; Enqueue is    *)
(* two accesses, the map under q.mu and then the channel.  Workers are     *)
(* goroutine slots: StopReporting cancels a worker without waiting for it, *)
(* so that the next StartReporting can overlap it.                         *)
(*                                                                         *)
(* A command is an integer: a percentage, or 0 and 1 for the words         *)
(* parseBoolish knows.  Text that does not parse changes no state and is   *)
(* left out.                                                               *)
(***************************************************************************)
EXTENDS Integers, FiniteSets

CONSTANTS
    Receivers, Workers, NoWorker,
    Commands,               \* the integers a hub may send
    NoValue,                \* no entry for a metric
    DeviceFaults, ComFaults,\* may the device calls fail, and CoInitialize?
    MaxCommands, MaxStarts  \* bounds: commands, StartReporting calls

Metrics == {"percent", "muted", "brightness"}

Values == 0..100

Slots == Values \cup {NoValue}

ASSUME ControlAssumption ==
    /\ NoWorker \notin Workers /\ NoValue \notin Values
    /\ Commands \subseteq Int
    /\ DeviceFaults \in BOOLEAN /\ ComFaults \in BOOLEAN
    /\ MaxCommands \in Nat /\ MaxStarts \in Nat

VARIABLES
    latest,     \* q.latest: the newest untaken value of each metric
    token,      \* q.notify, a channel of capacity one, is full
    signalling, \* the receivers between q.mu.Unlock and the send on q.notify
    reporting,  \* reportCancel: the worker it cancels
    cancelled,  \* the workers whose context is cancelled
    pc,         \* of a worker
    batch,      \* the actions a worker has dequeued
    endpoint,   \* the workers that hold an open endpoint
    device,     \* the last value set on the device for each metric
    intent,     \* history: the last command accepted for each metric
    strayed,    \* history: the metrics whose newest command taken was dropped by a failing
                \* device, or taken while another worker still had one to apply
    commands, starts

queueVars == <<latest, token, signalling>>
workerVars == <<cancelled, pc, batch, endpoint>>
countVars == <<intent, strayed, commands, starts>>
vars == <<queueVars, reporting, workerVars, device, countVars>>

Empty == [m \in Metrics |-> NoValue]

Labels == {"off", "init", "wait", "drain", "open", "percent", "muted", "brightness"}

TypeOK ==
    /\ latest \in [Metrics -> Slots]
    /\ token \in BOOLEAN
    /\ signalling \in SUBSET Receivers
    /\ reporting \in Workers \cup {NoWorker}
    /\ cancelled \in SUBSET Workers
    /\ pc \in [Workers -> Labels]
    /\ batch \in [Workers -> [Metrics -> Slots]]
    /\ endpoint \in SUBSET Workers
    /\ device \in [Metrics -> Slots]
    /\ intent \in [Metrics -> Slots] /\ strayed \in SUBSET Metrics
    /\ commands \in 0..MaxCommands /\ starts \in 0..MaxStarts

Init ==
    /\ latest = Empty /\ token = FALSE /\ signalling = {}
    /\ reporting = NoWorker /\ cancelled = {}
    /\ pc = [w \in Workers |-> "off"]
    /\ batch = [w \in Workers |-> Empty]
    /\ endpoint = {}
    /\ device = Empty /\ intent = Empty /\ strayed = {}
    /\ commands = 0 /\ starts = 0

-----------------------------------------------------------------------------
\* handleVarStoreNotifySet for a writable metric.

\* (mutant: only the upper end is clamped)
ClampAbove(n) == IF n > 100 THEN 100 ELSE n

\* clampInt for the percentages.
Clamp(n) == IF n < 0 THEN 0 ELSE IF n > 100 THEN 100 ELSE n

\* parseBoolish, for the mute command, knows two values.
Accepts(m, n) == m = "muted" => n \in {0, 1}

\* (mutant: the first untaken value stays)
EnqueueOldest(r, m, n) ==
    /\ commands < MaxCommands
    /\ r \notin signalling
    /\ Accepts(m, n)
    /\ latest' = [latest EXCEPT ![m] = IF @ = NoValue THEN Clamp(n) ELSE @]
    /\ intent' = [intent EXCEPT ![m] = Clamp(n)]
    /\ signalling' = signalling \cup {r}
    /\ commands' = commands + 1
    /\ UNCHANGED <<token, reporting, workerVars, device, strayed, starts>>

Enqueue(r, m, n) ==
    /\ commands < MaxCommands
    /\ r \notin signalling
    /\ Accepts(m, n)
    /\ latest' = [latest EXCEPT ![m] = Clamp(n)]
    /\ intent' = [intent EXCEPT ![m] = Clamp(n)]
    /\ signalling' = signalling \cup {r}
    /\ commands' = commands + 1
    /\ UNCHANGED <<token, reporting, workerVars, device, strayed, starts>>

\* The send that does not block: a full channel drops the token.
Signal(r) ==
    /\ r \in signalling
    /\ signalling' = signalling \ {r}
    /\ token' = TRUE
    /\ UNCHANGED <<latest, reporting, workerVars, device, countVars>>

-----------------------------------------------------------------------------
\* StartReporting and StopReporting, as far as they concern the worker.

Start(w) ==
    /\ starts < MaxStarts
    /\ reporting = NoWorker /\ pc[w] = "off"
    /\ reporting' = w
    /\ cancelled' = cancelled \ {w}
    /\ pc' = [pc EXCEPT ![w] = "init"]
    /\ starts' = starts + 1
    /\ UNCHANGED <<queueVars, batch, endpoint, device, intent, strayed, commands>>

Stop ==
    /\ reporting # NoWorker
    /\ cancelled' = cancelled \cup {reporting}
    /\ reporting' = NoWorker
    /\ UNCHANGED <<queueVars, pc, batch, endpoint, device, countVars>>

-----------------------------------------------------------------------------
\* controlWorker.

Goto(w, from, to) == pc[w] = from /\ pc' = [pc EXCEPT ![w] = to]

\* CoInitialize; a worker that fails here ends, and reporting stays on.
ComInit(w) ==
    /\ \/ Goto(w, "init", "wait")
       \/ ComFaults /\ Goto(w, "init", "off")
    /\ UNCHANGED <<queueVars, reporting, cancelled, batch, endpoint, device, countVars>>

\* (mutant: the context is looked at only after the token is taken)
WakeThenCancelled(w) ==
    /\ token /\ token' = FALSE
    /\ Goto(w, "wait", IF w \in cancelled THEN "off" ELSE "drain")
    /\ UNCHANGED <<latest, signalling, reporting, cancelled, batch, endpoint, device, countVars>>

\* Wait: the select takes either case that is ready.
Wake(w) ==
    /\ token /\ token' = FALSE
    /\ Goto(w, "wait", "drain")
    /\ UNCHANGED <<latest, signalling, reporting, cancelled, batch, endpoint, device, countVars>>

\* (mutant: a worker that waits notices the cancellation only when it is woken)
QuitWhenWoken(w) ==
    /\ token /\ w \in cancelled
    /\ Goto(w, "wait", "off")
    /\ endpoint' = endpoint \ {w}
    /\ UNCHANGED <<queueVars, reporting, cancelled, batch, device, countVars>>

\* (mutant: the endpoint is not released)
QuitHolding(w) ==
    /\ w \in cancelled
    /\ Goto(w, "wait", "off")
    /\ UNCHANGED <<queueVars, reporting, cancelled, batch, endpoint, device, countVars>>

Quit(w) ==
    /\ w \in cancelled
    /\ Goto(w, "wait", "off")
    /\ endpoint' = endpoint \ {w}
    /\ UNCHANGED <<queueVars, reporting, cancelled, batch, device, countVars>>

Has(w, m) == batch[w][m] # NoValue

\* The labels at which a worker has still to come to the action on a metric.
Ahead(m) ==
    CASE m = "percent"    -> {"open", "percent"}
      [] m = "muted"      -> {"open", "percent", "muted"}
      [] m = "brightness" -> {"open", "percent", "muted", "brightness"}

Pending(w, m) == Has(w, m) /\ pc[w] \in Ahead(m)

\* DequeueAll.
Drain(w) ==
    /\ Goto(w, "drain", IF latest = Empty THEN "wait" ELSE "open")
    /\ batch' = [batch EXCEPT ![w] = latest]
    /\ latest' = Empty
    /\ strayed' = {m \in Metrics : IF latest[m] = NoValue THEN m \in strayed
                                   ELSE \E v \in Workers : Pending(v, m)}
    /\ UNCHANGED <<token, signalling, reporting, cancelled, endpoint, device,
                   intent, commands, starts>>

Dropped(w, ms) == strayed' = strayed \cup {m \in ms : Has(w, m)}

\* ensureEndpoint, for a batch with a volume action; without an endpoint both
\* volume actions are dropped.
Open(w) ==
    /\ \/ ~Has(w, "percent") /\ ~Has(w, "muted")
          /\ Goto(w, "open", "brightness") /\ UNCHANGED <<endpoint, strayed>>
       \/ /\ Has(w, "percent") \/ Has(w, "muted")
          /\ \/ Goto(w, "open", "percent") /\ endpoint' = endpoint \cup {w} /\ UNCHANGED strayed
             \/ /\ DeviceFaults /\ w \notin endpoint
                /\ Goto(w, "open", "brightness") /\ UNCHANGED endpoint
                /\ Dropped(w, {"percent", "muted"})
    /\ UNCHANGED <<queueVars, reporting, cancelled, batch, device, intent, commands, starts>>

\* One action of the batch, at the label of its metric: it reaches the device.
Apply(w, m, next) ==
    /\ Goto(w, m, next)
    /\ device' = IF Has(w, m) THEN [device EXCEPT ![m] = batch[w][m]] ELSE device
    /\ UNCHANGED <<queueVars, reporting, cancelled, endpoint, countVars>>

\* A failing volume call, or one on an endpoint that an earlier action of the
\* batch has lost, drops the action and the endpoint.
ApplyFails(w, m, next) ==
    /\ Has(w, m)
    /\ DeviceFaults \/ w \notin endpoint
    /\ Goto(w, m, next)
    /\ endpoint' = endpoint \ {w}
    /\ Dropped(w, {m})
    /\ UNCHANGED <<queueVars, reporting, cancelled, batch, device, intent, commands, starts>>

SetPercent(w) ==
    \/ /\ Has(w, "percent") => w \in endpoint
       /\ Apply(w, "percent", "muted") /\ UNCHANGED batch
    \/ ApplyFails(w, "percent", "muted")

SetMuted(w) ==
    \/ /\ Has(w, "muted") => w \in endpoint
       /\ Apply(w, "muted", "brightness") /\ UNCHANGED batch
    \/ ApplyFails(w, "muted", "brightness")

\* The last action; the batch ends with it.
SetBrightness(w) ==
    /\ \/ Apply(w, "brightness", "wait")
       \/ /\ DeviceFaults /\ Has(w, "brightness")
          /\ Goto(w, "brightness", "wait")
          /\ Dropped(w, {"brightness"})
          /\ UNCHANGED <<queueVars, reporting, cancelled, endpoint, device, intent, commands, starts>>
    /\ batch' = [batch EXCEPT ![w] = Empty]

-----------------------------------------------------------------------------
WorkerStep(w) ==
    \/ ComInit(w) \/ Wake(w) \/ Quit(w) \/ Drain(w) \/ Open(w)
    \/ SetPercent(w) \/ SetMuted(w) \/ SetBrightness(w)

Next ==
    \/ \E r \in Receivers :
           Signal(r) \/ \E m \in Metrics, n \in Commands : Enqueue(r, m, n)
    \/ Stop
    \/ \E w \in Workers : Start(w) \/ WorkerStep(w)

Spec == Init /\ [][Next]_vars

\* Goroutines are scheduled; commands, starts and stops need never happen.
FairSpec ==
    /\ Spec
    /\ \A r \in Receivers : WF_vars(Signal(r))
    /\ \A w \in Workers : WF_vars(WorkerStep(w))

-----------------------------------------------------------------------------
\* Properties.

\* No lost wakeup: untaken actions have a token in the channel, or a receiver about
\* to put one there, or a worker on its way from the channel to DequeueAll.  It has
\* to hold across StopReporting and StartReporting too, when a cancelled worker may
\* still win the token from its successor.
NoLostWakeup ==
    latest # Empty =>
        token \/ signalling # {} \/ \E w \in Workers : pc[w] = "drain"

\* controlWorker's deferred Release: a goroutine that has ended holds no endpoint.
EndpointReleased == \A w \in endpoint : pc[w] \notin {"off", "init"}

\* The comment on Enqueue: a later command overrides an earlier one.  When nothing
\* is left to do, the device shows the last command accepted for each metric.
AtRest == latest = Empty /\ signalling = {} /\ \A w \in Workers : pc[w] \in {"off", "wait"}

LatestIntentApplied == AtRest => device = intent

\* What holds of it however often workers have been replaced: once the queue and the
\* workers are through with a metric, the device shows the last command accepted for
\* it, unless that command was dropped by a failing device or raced an older one in
\* the hands of another worker.
NewestWins ==
    \A m \in Metrics \ strayed :
        latest[m] = NoValue /\ ~(\E w \in Workers : Pending(w, m)) => device[m] = intent[m]

\* The worker that reporting has started is there: CoInitialize has not failed.
Served == reporting # NoWorker /\ pc[reporting] # "off"

\* The queue, its channel and its workers are a Mailbox that is open while a worker
\* serves it: what is put there during or before is taken, however often reporting
\* has been stopped and started.
Box == INSTANCE Mailbox WITH mail <- latest, open <- Served

ImplementsMailbox == Box!LiveSpec

\* StopReporting does not wait for the worker, and the worker ends all the same.
StoppedWorkersEnd ==
    \A w \in Workers : w \in cancelled /\ pc[w] # "off" ~> pc[w] = "off"
=============================================================================
