----------------------------- MODULE Collectors -----------------------------
(***************************************************************************)
(* The metric collectors of Windows (core/metrics/collectors_windows.go):  *)
(* goroutines that poll a part of the device while one of their metrics is *)
(* enabled, sleep on the channel that signalConfigChanged closes while     *)
(* none is, and end when StopReporting cancels their context.              *)
(*                                                                         *)
(* The collectors share nothing but the configuration, so that a behaviour *)
(* has those of one group of metrics, chosen at Init: one goroutine for    *)
(* every StartReporting, of which an old one may still be running when the *)
(* next one starts.  Of the channel that it has fetched a collector knows  *)
(* whether it has been closed and replaced.                                *)
(* A value is the number that is printed, the text of a net type, or       *)
(* Unknown.  How a value is published is module Publish, how reporting is  *)
(* started and stopped module Session.                                     *)
(***************************************************************************)
EXTENDS Integers, FiniteSets

CONSTANTS
    Readings,               \* what each group may find on the device
    Selections,             \* sets of metrics that a configuration enables
    None,
    Backoff,                \* steps of the clock DXVA2 is left alone after a failure
    MaxStarts, MaxSets, MaxChanges,
    MaxEvents               \* bounds: starts, configurations, changes, and all together

Groups == {"battery", "cpu", "mem", "net", "volume", "brightness"}

MetricsOf(g) ==
    CASE g = "battery" -> {"battery_percent", "battery_on_ac", "battery_charging"}
      [] g = "cpu" -> {"cpu_percent"}
      [] g = "mem" -> {"mem_percent"}
      [] g = "net" -> {"net_online", "net_type"}
      [] g = "volume" -> {"volume_percent", "volume_muted"}
      [] g = "brightness" -> {"brightness_percent"}

AllMetrics == UNION {MetricsOf(g) : g \in Groups}

Loops == 1..MaxStarts

Unknown == -1

ASSUME CollectorsAssumption ==
    /\ Backoff \in Nat \ {0}
    /\ MaxStarts \in Nat \ {0} /\ MaxSets \in Nat /\ MaxChanges \in Nat
    /\ MaxEvents \in Nat
    /\ DOMAIN Readings = Groups
    /\ Selections \subseteq SUBSET AllMetrics

\* What the system calls may return: any of this, or nothing.
PowerStatus == [flag : 0..255, life : 0..255, ac : 0..255]

SystemTimes == [idle : Nat, kernel : Nat, user : Nat]

Adapters == SUBSET [up : BOOLEAN, address : BOOLEAN, kind : STRING]

EndpointVolume == [level : Int, muted : BOOLEAN]

MonitorRange == [min : Nat, cur : Nat, max : Nat]

ASSUME ReadingsAssumption ==
    /\ Readings["battery"] \subseteq PowerStatus \cup {None}
    /\ Readings["cpu"] \subseteq SystemTimes \cup {None}
    /\ Readings["mem"] \subseteq Nat \cup {None}
    /\ Readings["net"] \subseteq Adapters \cup {None}
    /\ Readings["volume"] \subseteq EndpointVolume \cup {None}
    /\ Readings["brightness"] \subseteq
           [dxva2 : MonitorRange \cup {None}, wmi : Int \cup {None}]

\* Percentages and switches; the text of a net type that could not be read is "-1".
InRange(m, v) ==
    CASE m = "net_type" -> v \in {"ethernet", "wifi", "cellular", "unknown", "none", "-1"}
      [] m \in {"battery_on_ac", "battery_charging", "net_online", "volume_muted"} -> v \in -1..1
      [] OTHER -> v \in -1..100

VARIABLES
    group,          \* the group of this behaviour
    enabled,        \* the metrics that are enabled
    unsignalled,    \* configurations set and not yet signalled
    reading,        \* the device
    reporting,      \* reportEnabled
    loop,           \* the collector of the last StartReporting, 0 before
    cancelled,      \* collectors whose context is cancelled
    pc, after,      \* where a collector is, and where it goes on after a push
    closed,         \* whether the channel it has fetched is closed
    ticker,         \* whether its ticker runs
    prev,           \* the processor times it remembers
    wmi,            \* whether it is connected to WMI
    left,           \* brightness: steps until DXVA2 is tried first again, -1 if past
    out,            \* what it is about to emit
    shown,          \* lastMetrics
    sets, changes

envVars == <<enabled, unsignalled, reading, reporting, loop, cancelled, sets, changes>>
loopVars == <<pc, after, closed, ticker, prev, wmi, left, out>>
vars == <<group, envVars, loopVars, shown>>

Labels == {"off", "open", "check", "fetch", "recheck", "wait", "init", "settle", "push",
           "emit", "listen", "select", "ended"}

Mine == MetricsOf(group)

\* anyMetricEnabled
Enabled == enabled \cap Mine # {}

TypeOK ==
    /\ group \in Groups /\ enabled \in SUBSET AllMetrics
    /\ unsignalled \in Nat /\ sets \in Nat /\ changes \in Nat
    /\ reading \in Readings[group]
    /\ reporting \in BOOLEAN /\ loop \in Loops \cup {0} /\ cancelled \in SUBSET Loops
    /\ pc \in [Loops -> Labels] /\ after \in [Loops -> {"listen", "check"}]
    /\ closed \in [Loops -> BOOLEAN] /\ ticker \in [Loops -> BOOLEAN]
    /\ prev \in [Loops -> Readings["cpu"] \cup {None}]
    /\ wmi \in [Loops -> BOOLEAN] /\ left \in [Loops -> -1..Backoff]
    /\ DOMAIN out = Loops
    /\ \A n \in Loops : \A m \in DOMAIN out[n] : m \in Mine /\ InRange(m, out[n][m])
    /\ DOMAIN shown = AllMetrics
    /\ \A m \in AllMetrics : shown[m] = None \/ InRange(m, shown[m])

Init ==
    /\ group \in Groups
    /\ enabled \in Selections /\ unsignalled = 0
    /\ reading \in Readings[group]
    /\ reporting = FALSE /\ loop = 0 /\ cancelled = {}
    /\ pc = [n \in Loops |-> "off"] /\ after = [n \in Loops |-> "check"]
    /\ closed = [n \in Loops |-> FALSE] /\ ticker = [n \in Loops |-> FALSE]
    /\ prev = [n \in Loops |-> None]
    /\ wmi = [n \in Loops |-> FALSE] /\ left = [n \in Loops |-> -1]
    /\ out = [n \in Loops |-> <<>>]
    /\ shown = [m \in AllMetrics |-> None]
    /\ sets = 0 /\ changes = 0

Goto(n, from, to) == pc[n] = from /\ pc' = [pc EXCEPT ![n] = to]

-----------------------------------------------------------------------------
\* What a push makes of a reading.  A reading that fails is None.

\* batteryPercentFromStatus: flag 128 is no battery, 255 percent is not known.
BatteryPercent(st) ==
    IF st.flag = 128 \/ st.life > 100 THEN Unknown ELSE st.life

\* acLineStatusBoolish
OnAC(st) == IF st.ac \in {0, 1} THEN st.ac ELSE Unknown

BatteryOut(st) ==
    IF st = None THEN [m \in MetricsOf("battery") |-> Unknown]
    ELSE [m \in MetricsOf("battery") |-> IF m = "battery_percent" THEN BatteryPercent(st) ELSE OnAC(st)]

\* readMemoryLoadPercent, out of range is an error.
MemOut(load) ==
    [m \in {"mem_percent"} |-> IF load = None \/ load > 100 THEN Unknown ELSE load]

\* readNetStatus: the adapters that are up, have an address and are neither loopback
\* nor tunnel; the kind of the best of them.
Rank == [ethernet |-> 3, wifi |-> 2, cellular |-> 1, unknown |-> 0]

Candidates(adapters) == {a \in adapters : a.up /\ a.address /\ a.kind \in DOMAIN Rank}

NetType(adapters) ==
    LET kinds == {a.kind : a \in Candidates(adapters)} IN
    IF kinds = {} THEN "none"
    ELSE CHOOSE k \in kinds : \A j \in kinds : Rank[k] >= Rank[j]

NetOut(adapters) ==
    IF adapters = None
    THEN [m \in MetricsOf("net") |-> IF m = "net_type" THEN "-1" ELSE Unknown]
    ELSE [m \in MetricsOf("net") |->
             IF m = "net_type" THEN NetType(adapters)
             ELSE IF Candidates(adapters) = {} THEN 0 ELSE 1]

\* readEndpointVolume, the level in per mille; an error emits nothing.
VolumeOut(v) ==
    IF v = None THEN <<>>
    ELSE [m \in MetricsOf("volume") |->
             IF m = "volume_muted" THEN IF v.muted THEN 1 ELSE 0
             ELSE CASE v.level < 0 -> 0
                    [] v.level > 1000 -> 100
                    [] OTHER -> (v.level + 5) \div 10]

\* (mutant: idle time is not compared with the sum)
CPUPercentUnchecked(old, new) ==
    LET idle == new.idle - old.idle
        total == (new.kernel - old.kernel) + (new.user - old.user)
    IN  IF total = 0 THEN Unknown ELSE (200 * (total - idle) + total) \div (2 * total)

\* The busy share of the time since old, rounded.  Times that go backwards, that
\* stand still, or in which more is idle than has passed, say nothing.
CPUPercent(old, new) ==
    LET idle == new.idle - old.idle
        kernel == new.kernel - old.kernel
        user == new.user - old.user
        total == kernel + user
    IN  IF \/ idle < 0 \/ kernel < 0 \/ user < 0
           \/ total = 0 \/ idle > total
        THEN Unknown
        ELSE (200 * (total - idle) + total) \div (2 * total)

CPUOut(n) ==
    [m \in {"cpu_percent"} |->
        IF reading = None \/ prev[n] = None THEN Unknown ELSE CPUPercent(prev[n], reading)]

\* The brightness of a monitor's range, which may be empty; None if DXVA2 fails.  Ranges
\* are short enough for a hundredfold to fit into 32 bits.
DXVA2Percent(b) ==
    IF b = None \/ b.max <= b.min THEN None
    ELSE LET cur == CASE b.cur < b.min -> b.min [] b.cur > b.max -> b.max [] OTHER -> b.cur
         IN  ((cur - b.min) * 100) \div (b.max - b.min)

WMIPercent(n) ==
    IF ~wmi[n] \/ reading.wmi = None THEN None
    ELSE CASE reading.wmi < 0 -> 0
           [] reading.wmi > 100 -> 100
           [] OTHER -> reading.wmi

\* DXVA2 first, unless it is left alone for a while because it failed where WMI did
\* not; then WMI; then DXVA2 after all.
BrightnessOut(n) ==
    LET direct == DXVA2Percent(reading.dxva2) IN
    [m \in {"brightness_percent"} |->
        CASE left[n] < 0 /\ direct # None -> direct
          [] ~(left[n] < 0 /\ direct # None) /\ WMIPercent(n) # None -> WMIPercent(n)
          [] left[n] > 0 /\ direct # None /\ WMIPercent(n) = None -> direct
          [] OTHER -> Unknown]

Out(n) ==
    CASE group = "battery" -> BatteryOut(reading)
      [] group = "cpu" -> CPUOut(n)
      [] group = "mem" -> MemOut(reading)
      [] group = "net" -> NetOut(reading)
      [] group = "volume" -> VolumeOut(reading)
      [] group = "brightness" -> BrightnessOut(n)

-----------------------------------------------------------------------------
\* The goroutines.

Forget(f, n, v) == [f EXCEPT ![n] = v]

\* What a collector remembers is gone with it.
End(n) ==
    /\ pc' = Forget(pc, n, "ended") /\ after' = Forget(after, n, "check")
    /\ closed' = Forget(closed, n, FALSE) /\ ticker' = Forget(ticker, n, FALSE)
    /\ prev' = Forget(prev, n, None) /\ wmi' = Forget(wmi, n, FALSE)
    /\ left' = Forget(left, n, -1) /\ out' = Forget(out, n, <<>>)

\* The volume collector opens COM and the endpoint; if it cannot, it is gone for good.
OpenVolume(n) ==
    /\ group = "volume" /\ pc[n] = "open"
    /\ \/ Goto(n, "open", "check") /\ UNCHANGED <<after, closed, ticker, prev, wmi, left, out>>
       \/ End(n)
    /\ UNCHANGED <<group, envVars, shown>>

\* The brightness collector does without WMI.
OpenBrightness(n) ==
    /\ group = "brightness" /\ Goto(n, "open", "check")
    /\ \E ok \in BOOLEAN : wmi' = [wmi EXCEPT ![n] = ok]
    /\ UNCHANGED <<group, envVars, after, closed, ticker, prev, left, out, shown>>

\* A collector whose ticker does not run starts it and pushes at once; the processor's
\* reads its times first.
Proceed(n) ==
    /\ pc' = [pc EXCEPT ![n] = CASE ticker[n] -> "listen"
                                 [] group = "cpu" /\ ~ticker[n] -> "init"
                                 [] OTHER -> "push"]
    /\ after' = [after EXCEPT ![n] = IF ticker[n] THEN @ ELSE "listen"]
    /\ ticker' = [ticker EXCEPT ![n] = group # "cpu" \/ @]
    /\ closed' = [closed EXCEPT ![n] = FALSE]

\* waitUntilEnabled.
Check(n) ==
    /\ pc[n] = "check"
    /\ IF Enabled THEN Proceed(n) ELSE Goto(n, "check", "fetch") /\ UNCHANGED <<after, ticker, closed>>
    /\ UNCHANGED <<group, envVars, prev, wmi, left, out, shown>>

\* (mutant: the configuration is not looked at again once the channel is fetched)
FetchAndSleep(n) ==
    /\ Goto(n, "fetch", "wait")
    /\ closed' = [closed EXCEPT ![n] = FALSE]
    /\ UNCHANGED <<group, envVars, after, ticker, prev, wmi, left, out, shown>>

Fetch(n) ==
    /\ Goto(n, "fetch", "recheck")
    /\ closed' = [closed EXCEPT ![n] = FALSE]
    /\ UNCHANGED <<group, envVars, after, ticker, prev, wmi, left, out, shown>>

Recheck(n) ==
    /\ pc[n] = "recheck"
    /\ IF Enabled THEN Proceed(n) ELSE Goto(n, "recheck", "wait") /\ UNCHANGED <<after, ticker, closed>>
    /\ UNCHANGED <<group, envVars, prev, wmi, left, out, shown>>

Wake(n) ==
    /\ closed[n]
    /\ Goto(n, "wait", "fetch")
    /\ closed' = [closed EXCEPT ![n] = FALSE]
    /\ UNCHANGED <<group, envVars, after, ticker, prev, wmi, left, out, shown>>

\* initPrev; it waits 200 ms if it could read.
InitPrev(n) ==
    /\ Goto(n, "init", IF reading = None THEN "push" ELSE "settle")
    /\ prev' = [prev EXCEPT ![n] = reading]
    /\ ticker' = [ticker EXCEPT ![n] = reading = None]
    /\ shown' = IF reading = None /\ reporting THEN [shown EXCEPT !["cpu_percent"] = Unknown]
                                               ELSE shown
    /\ UNCHANGED <<group, envVars, after, closed, wmi, left, out>>

Settle(n) ==
    /\ Goto(n, "settle", "push")
    /\ ticker' = [ticker EXCEPT ![n] = TRUE]
    /\ UNCHANGED <<group, envVars, after, closed, prev, wmi, left, out, shown>>

\* (mutant: whoever sleeps does not look at the context)
CancelledAwake(n) ==
    /\ n \in cancelled /\ pc[n] \in {"settle", "select"}
    /\ End(n)
    /\ UNCHANGED <<group, envVars, shown>>

\* ctx.Done in each of the three selects.
Cancelled(n) ==
    /\ n \in cancelled /\ pc[n] \in {"wait", "settle", "select"}
    /\ End(n)
    /\ UNCHANGED <<group, envVars, shown>>

\* (mutant: every value that comes from WMI renews the time DXVA2 is left alone)
LeftRenewed(n) ==
    IF WMIPercent(n) # None /\ ~(left[n] < 0 /\ DXVA2Percent(reading.dxva2) # None)
    THEN Backoff ELSE left[n]

\* dxva2DisabledUntil after a push.
Left(n) ==
    IF left[n] < 0 /\ DXVA2Percent(reading.dxva2) = None /\ WMIPercent(n) # None
    THEN Backoff ELSE left[n]

\* The end of a push.
Return(n) ==
    /\ pc' = [pc EXCEPT ![n] = after[n]]
    /\ after' = [after EXCEPT ![n] = "check"]

\* A push reads the device ...
Push(n) ==
    /\ pc[n] = "push"
    /\ IF DOMAIN Out(n) = {} THEN Return(n) ELSE Goto(n, "push", "emit") /\ UNCHANGED after
    /\ out' = [out EXCEPT ![n] = Out(n)]
    /\ prev' = [prev EXCEPT ![n] = IF group = "cpu" /\ reading # None THEN reading ELSE @]
    /\ left' = [left EXCEPT ![n] = IF group = "brightness" THEN Left(n) ELSE @]
    /\ UNCHANGED <<group, envVars, closed, ticker, wmi, shown>>

\* ... and emits one metric after the other; handleMetricUpdate takes them while
\* reporting is on.
Emit(n) ==
    LET m == CHOOSE k \in DOMAIN out[n] : TRUE
        rest == DOMAIN out[n] \ {m}
    IN  /\ pc[n] = "emit"
        /\ IF rest = {} THEN Return(n) ELSE UNCHANGED <<pc, after>>
        /\ shown' = IF reporting THEN [shown EXCEPT ![m] = out[n][m]] ELSE shown
        /\ out' = [out EXCEPT ![n] = [k \in rest |-> @[k]]]
        /\ UNCHANGED <<group, envVars, closed, ticker, prev, wmi, left>>

Listen(n) ==
    /\ Goto(n, "listen", "select")
    /\ closed' = [closed EXCEPT ![n] = FALSE]
    /\ UNCHANGED <<group, envVars, after, ticker, prev, wmi, left, out, shown>>

\* Either way the ticker is stopped if nothing is enabled any more.
Select(n, to) ==
    /\ Goto(n, "select", IF Enabled THEN to ELSE "check")
    /\ ticker' = [ticker EXCEPT ![n] = Enabled]
    /\ prev' = [prev EXCEPT ![n] = IF Enabled THEN @ ELSE None]
    /\ closed' = [closed EXCEPT ![n] = FALSE]
    /\ UNCHANGED <<group, envVars, after, wmi, left, out, shown>>

ConfigChanged(n) == closed[n] /\ Select(n, "check")

Tick(n) == Select(n, "push")

LoopStep(n) ==
    \/ Check(n) \/ Fetch(n) \/ Recheck(n) \/ Wake(n)
    \/ InitPrev(n) \/ Settle(n) \/ Push(n) \/ Emit(n)
    \/ Listen(n) \/ ConfigChanged(n) \/ Tick(n) \/ Cancelled(n)

BatteryLoop(n) == group = "battery" /\ LoopStep(n)
CPULoop(n) == group = "cpu" /\ LoopStep(n)
MemLoop(n) == group = "mem" /\ LoopStep(n)
NetLoop(n) == group = "net" /\ LoopStep(n)
VolumeLoop(n) == OpenVolume(n) \/ (group = "volume" /\ LoopStep(n))
BrightnessLoop(n) == OpenBrightness(n) \/ (group = "brightness" /\ LoopStep(n))

Collector(n) ==
    \/ BatteryLoop(n) \/ CPULoop(n) \/ MemLoop(n)
    \/ NetLoop(n) \/ VolumeLoop(n) \/ BrightnessLoop(n)

-----------------------------------------------------------------------------
\* The runtime and the device.

More == loop + sets + changes < MaxEvents

\* StartPlatformCollectors.
StartReporting ==
    /\ More /\ ~reporting /\ loop < MaxStarts
    /\ reporting' = TRUE /\ loop' = loop + 1
    /\ pc' = [pc EXCEPT ![loop'] = IF group \in {"volume", "brightness"} THEN "open" ELSE "check"]
    /\ UNCHANGED <<group, enabled, unsignalled, reading, cancelled, sets, changes,
                   after, closed, ticker, prev, wmi, left, out, shown>>

StopReporting ==
    /\ reporting /\ reporting' = FALSE
    /\ cancelled' = cancelled \cup {loop}
    /\ UNCHANGED <<group, enabled, unsignalled, reading, loop, sets, changes, loopVars, shown>>

\* A new configuration is in force before it is signalled.
SetConfig(ms) ==
    /\ More /\ sets < MaxSets /\ sets' = sets + 1
    /\ enabled' = ms /\ unsignalled' = unsignalled + 1
    /\ UNCHANGED <<group, reading, reporting, loop, cancelled, changes, loopVars, shown>>

\* signalConfigChanged closes the channel and makes the next one.
Signal ==
    /\ unsignalled > 0 /\ unsignalled' = unsignalled - 1
    /\ closed' = [n \in Loops |-> pc[n] \in {"recheck", "wait", "select"}]
    /\ UNCHANGED <<group, enabled, reading, reporting, loop, cancelled, sets, changes,
                   pc, after, ticker, prev, wmi, left, out, shown>>

DeviceChanges ==
    /\ More /\ changes < MaxChanges /\ changes' = changes + 1
    /\ reading' \in Readings[group]
    /\ UNCHANGED <<group, enabled, unsignalled, reporting, loop, cancelled, sets, loopVars, shown>>

\* Time in which DXVA2 is left alone goes by.
TimePasses ==
    /\ \E n \in Loops : left[n] >= 0
    /\ left' = [n \in Loops |-> IF left[n] >= 0 THEN left[n] - 1 ELSE -1]
    /\ UNCHANGED <<group, envVars, pc, after, closed, ticker, prev, wmi, out, shown>>

Next ==
    \/ \E n \in Loops : Collector(n)
    \/ StartReporting \/ StopReporting
    \/ \E ms \in Selections : SetConfig(ms)
    \/ Signal \/ DeviceChanges \/ TimePasses

Spec == Init /\ [][Next]_vars

\* Goroutines run, tickers tick, time passes, and who sets a configuration signals it.
\* A select that is entered again and again with the context done takes that case.
FairSpec ==
    /\ Spec
    /\ \A n \in Loops : WF_vars(Collector(n)) /\ SF_vars(Cancelled(n))
    /\ WF_vars(Signal) /\ WF_vars(TimePasses)

-----------------------------------------------------------------------------
\* Properties.

\* No change is missed: a collector sleeps while one of its metrics is enabled only
\* until the channel it sleeps on is closed, which it is or is about to be.
NoLostChange ==
    \A n \in Loops : pc[n] = "wait" /\ Enabled => closed[n] \/ unsignalled > 0

\* A collector whose context is cancelled ends, wherever it was.
StoppedLoopsEnd == \A n \in Loops : n \in cancelled ~> pc[n] = "ended"

\* What the device settles on is what is shown, if the group is enabled in the end,
\* whatever was switched, stopped and started on the way, and whichever of the two
\* ways to read the brightness works.
Settled(n) ==
    IF group = "brightness"
    THEN LET direct == DXVA2Percent(reading.dxva2) IN
         [m \in Mine |-> CASE direct # None -> direct
                           [] direct = None /\ WMIPercent(n) # None -> WMIPercent(n)
                           [] OTHER -> Unknown]
    ELSE Out(n)

Follows ==
    <>[](reporting /\ Enabled /\ pc[loop] # "ended" =>
             \A m \in DOMAIN Settled(loop) : shown[m] = Settled(loop)[m])
=============================================================================
