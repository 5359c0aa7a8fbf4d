------------------------------ MODULE Publish ------------------------------
(***************************************************************************)
(* Publication of metrics as variables of the hub (core/runtime/runtime.go *)
(* and varstore_inbound.go): updates from the collectors, republication    *)
(* after a change of the configuration or a login, and notify_set frames,  *)
(* by which the hub tells the node that somebody else has set one of its   *)
(* variables.                                                              *)
(*                                                                         *)
(* Threads:  Collectors  a collector goroutine, or a host thread that      *)
(*                       calls UpdateMetric; each feeds one metric         *)
(*           Hosts       applyConfigFromStore                              *)
(*           Recovery    the thread that logs in again after a loss        *)
(*           Readers     SDK read loops in handleVarStoreNotifySet         *)
(*                                                                         *)
(* All of them meet in publishVar, which compares a value with the cache   *)
(* of values already published, writes it there under reportMu, and sends  *)
(* it after the unlock.  A thread's pc names its next access to shared     *)
(* state.                                                                  *)
(*                                                                         *)
(* A variable is named by the metric bound to it.  The hub, its sessions   *)
(* and the device are outside this component; how sessions are recovered   *)
(* is module Session, how commands are applied module Control.  A list of  *)
(* variables is published in any order.                                    *)
(*                                                                         *)
(* An operator commented as a mutant is a plausible bug of the definition  *)
(* that follows it; no action uses it.                                     *)
(***************************************************************************)
EXTENDS Naturals, Sequences, Functions

CONSTANTS
    Metrics, Controllable,  \* metrics.IsControllable; the others are read-only
    Battery, Absent,        \* battery_percent and its value "-1"
    Raw,                    \* the values of the metrics
    Texts,                  \* what no_battery_value may be configured as
    Visibilities,
    None,                   \* no value, no request, no configuration
    Collectors, Feeds,      \* the metric each collector feeds
    OnChange,               \* metrics whose collector reports changes only
    Hosts, Readers, Recovery,
    Configs,                \* the configurations in use
    InitConfig,             \* and the first of them
    Limit, MaxEvents        \* bounds: events of each kind, and of all kinds

\* What the environment does: the device changes, other nodes set variables, the host
\* changes the configuration and stops reporting, sessions break.
Events == {"change", "remote", "config", "loss", "stop"}

Threads == Collectors \cup Hosts \cup Readers \cup {Recovery}

Values == Raw \cup Texts

\* publishedVar.
Pubs == [value : Values, visibility : Visibilities]

Requests == [var : Metrics, pub : Pubs]

\* The fields of runtimeConfig that publication reads.
AllConfigs == [bound : SUBSET Metrics, writable : SUBSET Controllable,
               noBattery : Texts, visibilityDefault : Visibilities]

ASSUME PublishAssumption ==
    /\ Controllable \subseteq Metrics /\ Battery \notin Controllable
    /\ OnChange \subseteq Metrics
    /\ None \notin Values /\ None \notin Pubs /\ None \notin Requests /\ None \notin AllConfigs
    /\ Feeds \in [Collectors -> Metrics]
    /\ Configs \subseteq AllConfigs /\ InitConfig \in Configs
ASSUME ThreadsAssumption ==
    /\ Collectors \cap Hosts = {} /\ Collectors \cap Readers = {} /\ Hosts \cap Readers = {}
    /\ Recovery \notin Collectors \cup Hosts \cup Readers
ASSUME BoundsAssumption == Limit \in [Events -> Nat] /\ MaxEvents \in Nat

VARIABLES
    cfg,            \* the parsed configuration
    reporting,      \* reportEnabled
    loggedIn,       \* auth.LoggedIn
    last,           \* lastMetrics
    cache,          \* lastPublished
    command,        \* the untaken control action of each metric
    device,         \* what the device shows
    hub,            \* the hub's variables
    session,        \* a session the hub accepts variables on is "live"
    up, down,       \* frames under way, to the hub and to the node
    pc,
    sample,         \* the value a collector read last
    frame,          \* the notify_set a reader works on
    view,           \* a thread's configSnapshot
    job,            \* what a thread has still to publish
    out,            \* the request a thread is about to send
    used,           \* how often the environment has acted
    adrift          \* history: variables whose hub value the runtime may have lost

nodeVars == <<cfg, reporting, loggedIn, last, cache, command>>
hubVars == <<hub, session, up, down>>
localVars == <<pc, sample, frame, view, job, out>>
vars == <<nodeVars, device, hubVars, localVars, used, adrift>>

Labels == {"idle", "reporting", "login", "store", "config", "metrics", "publish",
           "send", "frameLogin", "frameConfig", "shadow", "correct", "force", "forget"}

Jobs == [Metrics -> Pubs \cup {None}]

NoJob == [m \in Metrics |-> None]

TypeOK ==
    /\ cfg \in Configs
    /\ reporting \in BOOLEAN /\ loggedIn \in BOOLEAN
    /\ last \in [Metrics -> Raw \cup {None}]
    /\ cache \in [Metrics -> Pubs \cup {None}]
    /\ command \in [Metrics -> Raw \cup {None}]
    /\ device \in [Metrics -> Raw]
    /\ hub \in [Metrics -> Pubs \cup {None}]
    /\ session \in {"live", "broken"}
    /\ up \in Seq(Requests) /\ down \in Seq(Requests)
    /\ pc \in [Threads -> Labels]
    /\ sample \in [Collectors -> Raw \cup {None}]
    /\ frame \in [Readers -> Requests \cup {None}]
    /\ view \in [Threads -> Configs \cup {None}]
    /\ job \in [Threads -> Jobs]
    /\ out \in [Threads -> Requests \cup {None}]
    /\ used \in [Events -> Nat]
    /\ adrift \in SUBSET Metrics

Init ==
    /\ cfg = InitConfig
    /\ reporting = FALSE /\ loggedIn = TRUE
    /\ last = NoJob /\ cache = NoJob /\ command = NoJob
    /\ device \in [Metrics -> Raw]
    /\ hub = NoJob /\ session = "live" /\ up = <<>> /\ down = <<>>
    /\ pc = [t \in Threads |-> "idle"]
    /\ sample = [c \in Collectors |-> None]
    /\ frame = [r \in Readers |-> None]
    /\ view = [t \in Threads |-> None]
    /\ job = [t \in Threads |-> NoJob]
    /\ out = [t \in Threads |-> None]
    /\ used = [e \in Events |-> 0]
    /\ adrift = {}

Goto(t, from, to) == pc[t] = from /\ pc' = [pc EXCEPT ![t] = to]

Event(e) ==
    /\ used[e] < Limit[e] /\ SumFunction(used) < MaxEvents
    /\ used' = [used EXCEPT ![e] = @ + 1]

-----------------------------------------------------------------------------
\* What is under way for a variable: requests that are written to the cache and
\* have not reached the hub, and changes of the hub that are not in the cache.

Sending(m) == {t \in Threads : pc[t] = "send" /\ out[t].var = m}

InQueue(q, m) == \E i \in 1..Len(q) : q[i].var = m

OnWire(m) == InQueue(up, m)

\* The frame of a reader that has not come to updatePublishedShadow.
Holds(r, m) ==
    pc[r] \in {"frameLogin", "frameConfig", "shadow"} /\ frame[r].var = m

Held(m) == \E r \in Readers : Holds(r, m)

FromHub(m) == Held(m) \/ InQueue(down, m)

-----------------------------------------------------------------------------
\* transformMetricValue and publishVar.

Shown(m, raw, c) == IF m = Battery /\ raw = Absent THEN c.noBattery ELSE raw

PubOf(m, raw, c) == [value |-> Shown(m, raw, c), visibility |-> c.visibilityDefault]

\* The end of a function, with the thread's locals forgotten.
Return(t) ==
    /\ pc' = [pc EXCEPT ![t] = "idle"]
    /\ view' = [view EXCEPT ![t] = None]
    /\ job' = [job EXCEPT ![t] = NoJob]

\* A thread with a list of variables to publish begins, or returns at once.
Begin(t, list) ==
    IF list = NoJob
    THEN Return(t)
    ELSE /\ pc' = [pc EXCEPT ![t] = "publish"]
         /\ view' = [view EXCEPT ![t] = None]
         /\ job' = [job EXCEPT ![t] = list]

\* publishVar up to the unlock, for one variable of the list: what the cache holds
\* already is dropped, anything else goes there and is sent next.
Publish(t, m) ==
    /\ pc[t] = "publish" /\ job[t][m] # None
    /\ IF cache[m] = job[t][m]
       THEN /\ Begin(t, [job[t] EXCEPT ![m] = None])
            /\ UNCHANGED <<cache, out, adrift>>
       ELSE /\ cache' = [cache EXCEPT ![m] = job[t][m]]
            /\ out' = [out EXCEPT ![t] = [var |-> m, pub |-> job[t][m]]]
            /\ job' = [job EXCEPT ![t][m] = None]
            /\ pc' = [pc EXCEPT ![t] = "send"]
            /\ adrift' = IF Sending(m) # {} \/ FromHub(m) THEN adrift \cup {m} ELSE adrift
            /\ UNCHANGED view
    /\ UNCHANGED <<cfg, reporting, loggedIn, last, command, device, hubVars, sample, frame, used>>

\* vc.Set: on a broken session the request is lost, with an error or without; the
\* cache keeps the value either way.
Send(t) ==
    /\ pc[t] = "send"
    /\ up' = IF session = "live" THEN Append(up, out[t]) ELSE up
    /\ out' = [out EXCEPT ![t] = None]
    /\ Begin(t, job[t])
    /\ UNCHANGED <<nodeVars, device, hub, session, down, sample, frame, used, adrift>>

-----------------------------------------------------------------------------
\* handleMetricUpdate, and the collector that calls it.

\* A collector reads the device.  One that reports changes only remembers the value
\* it read, whatever becomes of it.
Sample(c) ==
    LET m == Feeds[c] IN
    /\ Goto(c, "idle", "reporting")
    /\ m \in OnChange => device[m] # sample[c]
    /\ sample' = [sample EXCEPT ![c] = device[m]]
    /\ UNCHANGED <<nodeVars, device, hubVars, frame, view, job, out, used, adrift>>

\* The two conditions that handleMetricUpdate and republishFromConfig begin with.
CheckReporting(t) ==
    /\ Goto(t, "reporting", IF reporting THEN "login" ELSE "idle")
    /\ UNCHANGED <<nodeVars, device, hubVars, sample, frame, view, job, out, used, adrift>>

CheckLogin(t) ==
    /\ Goto(t, "login", IF ~loggedIn THEN "idle"
                        ELSE IF t \in Collectors THEN "store" ELSE "config")
    /\ UNCHANGED <<nodeVars, device, hubVars, sample, frame, view, job, out, used, adrift>>

\* (mutant: a value that is no news is not published)
StoreNews(c) ==
    /\ Goto(c, "store", IF last[Feeds[c]] = sample[c] THEN "idle" ELSE "config")
    /\ last' = [last EXCEPT ![Feeds[c]] = sample[c]]
    /\ UNCHANGED <<cfg, reporting, loggedIn, cache, command, device, hubVars,
                   sample, frame, view, job, out, used, adrift>>

Store(c) ==
    /\ Goto(c, "store", "config")
    /\ last' = [last EXCEPT ![Feeds[c]] = sample[c]]
    /\ UNCHANGED <<cfg, reporting, loggedIn, cache, command, device, hubVars,
                   sample, frame, view, job, out, used, adrift>>

\* configSnapshot; the rest of a collector's update uses nothing else that is shared.
BindSample(c) ==
    LET m == Feeds[c] IN
    /\ pc[c] = "config"
    /\ Begin(c, IF m \in cfg.bound
                THEN [NoJob EXCEPT ![m] = PubOf(m, sample[c], cfg)] ELSE NoJob)
    /\ UNCHANGED <<nodeVars, device, hubVars, sample, frame, out, used, adrift>>

-----------------------------------------------------------------------------
\* republishFromConfig.

Snapshot(t) ==
    /\ t \in Hosts \cup {Recovery}
    /\ Goto(t, "config", "metrics")
    /\ view' = [view EXCEPT ![t] = cfg]
    /\ UNCHANGED <<nodeVars, device, hubVars, sample, frame, job, out, used, adrift>>

\* (mutant: a metric that has no value yet is published too)
CopyAll(t) ==
    /\ pc[t] = "metrics"
    /\ Begin(t, [m \in Metrics |->
                    IF m \in view[t].bound THEN PubOf(m, last[m], view[t]) ELSE None])
    /\ UNCHANGED <<nodeVars, device, hubVars, sample, frame, out, used, adrift>>

CopyMetrics(t) ==
    /\ pc[t] = "metrics"
    /\ Begin(t, [m \in Metrics |->
                    IF m \in view[t].bound /\ last[m] # None
                    THEN PubOf(m, last[m], view[t]) ELSE None])
    /\ UNCHANGED <<nodeVars, device, hubVars, sample, frame, out, used, adrift>>

\* applyConfigFromStore: the new configuration, then republication.
SetConfig(h, c) ==
    /\ Event("config")
    /\ c # cfg
    /\ Goto(h, "idle", "reporting")
    /\ cfg' = c
    /\ UNCHANGED <<reporting, loggedIn, last, cache, command, device, hubVars,
                   sample, frame, view, job, out, adrift>>

\* The successful end of Login: a new session, loggedIn stored.
LoginAgain ==
    /\ session = "broken" /\ ~loggedIn
    /\ Goto(Recovery, "idle", "force")
    /\ session' = "live" /\ loggedIn' = TRUE
    /\ UNCHANGED <<cfg, reporting, last, cache, command, device, hub, up, down,
                   sample, frame, view, job, out, used, adrift>>

\* forceRepublishFromConfig: a login that finds reporting stopped publishes nothing.
CheckForce ==
    /\ Goto(Recovery, "force", IF reporting THEN "forget" ELSE "idle")
    /\ adrift' = IF reporting THEN adrift ELSE Metrics
    /\ UNCHANGED <<nodeVars, device, hubVars, sample, frame, view, job, out, used>>

\* (mutant: republication without emptying the cache)
RepublishOnly ==
    /\ Goto(Recovery, "forget", "reporting")
    /\ adrift' = {m \in Metrics : FromHub(m)}
    /\ UNCHANGED <<nodeVars, device, hubVars, sample, frame, view, job, out, used>>

\* The cache is emptied, and everything published again.
ForceRepublish ==
    /\ Goto(Recovery, "forget", "reporting")
    /\ cache' = NoJob
    /\ adrift' = {m \in Metrics : FromHub(m)}
    /\ UNCHANGED <<cfg, reporting, loggedIn, last, command, device, hubVars,
                   sample, frame, view, job, out, used>>

-----------------------------------------------------------------------------
\* handleVarStoreNotifySet.

\* A frame that names no variable of this node, or comes when nobody is logged in.
Ignore(r) ==
    /\ frame' = [frame EXCEPT ![r] = None]
    /\ adrift' = adrift \cup {frame[r].var}
    /\ Return(r)

Receive(r) ==
    /\ down # <<>>
    /\ Goto(r, "idle", "frameLogin")
    /\ frame' = [frame EXCEPT ![r] = Head(down)]
    /\ down' = Tail(down)
    /\ adrift' = IF Held(Head(down).var) THEN adrift \cup {Head(down).var} ELSE adrift
    /\ UNCHANGED <<nodeVars, device, hub, session, up, sample, view, job, out, used>>

FrameLogin(r) ==
    /\ pc[r] = "frameLogin"
    /\ IF loggedIn
       THEN Goto(r, "frameLogin", "frameConfig") /\ UNCHANGED <<frame, view, job, adrift>>
       ELSE Ignore(r)
    /\ UNCHANGED <<nodeVars, device, hubVars, sample, out, used>>

FrameConfig(r) ==
    /\ pc[r] = "frameConfig"
    /\ IF frame[r].var \in cfg.bound
       THEN /\ Goto(r, "frameConfig", "shadow")
            /\ view' = [view EXCEPT ![r] = cfg]
            /\ UNCHANGED <<frame, job, adrift>>
       ELSE Ignore(r)
    /\ UNCHANGED <<nodeVars, device, hubVars, sample, out, used>>

\* updatePublishedShadow.  A variable the hub may write becomes a command, if its
\* text is one, and the frame is done; any other one is corrected next.
Shadow(r) ==
    LET m == frame[r].var
        x == frame[r].pub.value
    IN
    /\ pc[r] = "shadow"
    /\ cache' = [cache EXCEPT ![m] = frame[r].pub]
    /\ IF m \in view[r].writable
       THEN /\ command' = IF x \in Raw THEN [command EXCEPT ![m] = x] ELSE command
            /\ frame' = [frame EXCEPT ![r] = None]
            /\ Return(r)
       ELSE Goto(r, "shadow", "correct") /\ UNCHANGED <<command, frame, view, job>>
    /\ UNCHANGED <<cfg, reporting, loggedIn, last, device, hubVars, sample, out, used, adrift>>

\* currentPublishedMetricValue: a value that is wrong is published over.
Correct(r) ==
    LET m == frame[r].var IN
    /\ pc[r] = "correct"
    /\ Begin(r, IF last[m] # None /\ Shown(m, last[m], view[r]) # frame[r].pub.value
                THEN [NoJob EXCEPT ![m] = PubOf(m, last[m], view[r])] ELSE NoJob)
    /\ frame' = [frame EXCEPT ![r] = None]
    /\ UNCHANGED <<nodeVars, device, hubVars, sample, out, used, adrift>>

-----------------------------------------------------------------------------
\* The rest of the runtime.

\* A new collector remembers nothing.
StartReporting ==
    /\ loggedIn /\ ~reporting
    /\ reporting' = TRUE
    /\ sample' = [c \in Collectors |-> IF pc[c] = "idle" THEN None ELSE sample[c]]
    /\ UNCHANGED <<cfg, loggedIn, last, cache, command, device, hubVars,
                   pc, frame, view, job, out, used, adrift>>

StopReporting ==
    /\ Event("stop")
    /\ reporting /\ reporting' = FALSE
    /\ UNCHANGED <<cfg, loggedIn, last, cache, command, device, hubVars, localVars, adrift>>

\* onClientError, some time after the session broke.
MarkLost ==
    /\ session = "broken" /\ loggedIn
    /\ loggedIn' = FALSE
    /\ UNCHANGED <<cfg, reporting, last, cache, command, device, hubVars, localVars, used, adrift>>

\* The platform applies a command, or cannot.
ApplyCommand(m) ==
    /\ command[m] # None
    /\ command' = [command EXCEPT ![m] = None]
    /\ device' \in {device, [device EXCEPT ![m] = command[m]]}
    /\ UNCHANGED <<cfg, reporting, loggedIn, last, cache, hubVars, localVars, used, adrift>>

-----------------------------------------------------------------------------
\* The device, the network and the hub.

DeviceChanges(m, raw) ==
    /\ Event("change")
    /\ device[m] # raw
    /\ device' = [device EXCEPT ![m] = raw]
    /\ UNCHANGED <<nodeVars, hubVars, localVars, adrift>>

Deliver ==
    /\ up # <<>>
    /\ hub' = [hub EXCEPT ![Head(up).var] = Head(up).pub]
    /\ up' = Tail(up)
    /\ UNCHANGED <<nodeVars, device, session, down, localVars, used, adrift>>

\* Another node sets a variable of this one; the hub notifies the owner.
RemoteSet(m, pub) ==
    /\ Event("remote")
    /\ hub' = [hub EXCEPT ![m] = pub]
    /\ down' = IF session = "live" THEN Append(down, [var |-> m, pub |-> pub]) ELSE down
    /\ adrift' = IF Sending(m) # {} \/ OnWire(m) THEN adrift \cup {m} ELSE adrift
    /\ UNCHANGED <<nodeVars, device, session, up, localVars>>

\* The session breaks, with everything under way; a hub that restarts forgets.
Lose ==
    /\ Event("loss")
    /\ session = "live" /\ session' = "broken"
    /\ up' = <<>> /\ down' = <<>>
    /\ hub' \in {hub, NoJob}
    /\ UNCHANGED <<nodeVars, device, localVars, adrift>>

-----------------------------------------------------------------------------
CollectorStep(c) == Sample(c) \/ CheckReporting(c) \/ CheckLogin(c) \/ Store(c) \/ BindSample(c)

RepublishStep(t) == CheckReporting(t) \/ CheckLogin(t) \/ Snapshot(t) \/ CopyMetrics(t)

ReaderStep(r) == Receive(r) \/ FrameLogin(r) \/ FrameConfig(r) \/ Shadow(r) \/ Correct(r)

RecoveryStep == LoginAgain \/ CheckForce \/ ForceRepublish \/ RepublishStep(Recovery)

PublishStep(t) == Send(t) \/ \E m \in Metrics : Publish(t, m)

System ==
    \/ \E c \in Collectors : CollectorStep(c)
    \/ \E h \in Hosts : RepublishStep(h)
    \/ \E r \in Readers : ReaderStep(r)
    \/ RecoveryStep
    \/ \E t \in Threads : PublishStep(t)
    \/ StartReporting \/ MarkLost \/ Deliver
    \/ \E m \in Metrics : ApplyCommand(m)

Environment ==
    \/ \E h \in Hosts, c \in Configs : SetConfig(h, c)
    \/ StopReporting \/ Lose
    \/ \E m \in Metrics, raw \in Raw : DeviceChanges(m, raw)
    \/ \E m \in Metrics, x \in Raw, vis \in Visibilities :
           RemoteSet(m, [value |-> x, visibility |-> vis])

Next == System \/ Environment

Spec == Init /\ [][Next]_vars

\* Threads are scheduled, collectors poll, a lost session is noticed and recovered,
\* and frames arrive while their session lasts.  What the environment does need
\* not happen, and nobody has to start reporting again.
FairSpec ==
    /\ Spec
    /\ \A c \in Collectors : WF_vars(CollectorStep(c))
    /\ \A h \in Hosts : WF_vars(RepublishStep(h))
    /\ \A r \in Readers : WF_vars(ReaderStep(r))
    /\ \A t \in Threads : WF_vars(PublishStep(t))
    /\ WF_vars(RecoveryStep) /\ WF_vars(MarkLost) /\ WF_vars(Deliver)
    /\ \A m \in Metrics : WF_vars(ApplyCommand(m))

-----------------------------------------------------------------------------
\* Properties.

\* The runtime reports on a session that the hub knows.
Live == session = "live" /\ loggedIn /\ reporting

\* Republication after a login, and the cache as a picture of the hub: while a
\* session lasts, a variable with nothing under way has at the hub the value the
\* cache holds for it, so that the comparison in publishVar drops nothing the hub
\* lacks.  Excepted are the variables that are adrift: two changes crossed, a
\* notify_set was ignored, or the login found reporting stopped.
InStep(m) == cache[m] # None /\ Sending(m) = {} /\ ~OnWire(m) /\ ~FromHub(m)

CacheIsHub ==
    session = "live" /\ loggedIn /\ pc[Recovery] \notin {"force", "forget"} =>
        \A m \in Metrics \ adrift : InStep(m) => hub[m] = cache[m]

\* Whatever the order in which collectors, republications and corrections meet in
\* publishVar, what the runtime believes published settles on what the device shows,
\* under the configuration in force, if its collectors poll.
CacheSettles ==
    <>[](Live => \A m \in cfg.bound : cache[m] = PubOf(m, device[m], cfg))

\* docs/requirements/notify-node.md: the latest known values are republished after
\* a fresh login.  The hub settles on what the device shows.
HubSettles ==
    <>[](Live => \A m \in cfg.bound : hub[m] = PubOf(m, device[m], cfg))
=============================================================================
