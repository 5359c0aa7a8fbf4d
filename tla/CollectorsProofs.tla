-------------------------- MODULE CollectorsProofs --------------------------
(***************************************************************************)
(* Collectors for every device, every set of configurations and every      *)
(* bound: what is published is in range, whatever the system calls return, *)
(* and no change of the configuration is slept through.                    *)
(***************************************************************************)
EXTENDS Collectors, TLAPS

-----------------------------------------------------------------------------
\* What is computed from a reading.

LEMMA QuotientBounds ==
    ASSUME NEW a \in Nat, NEW b \in Nat \ {0}, a < 101 * b
    PROVE  a \div b \in 0..100
OBVIOUS

LEMMA CPUPercentInRange ==
    ASSUME NEW old \in SystemTimes, NEW new \in SystemTimes
    PROVE  CPUPercent(old, new) \in -1..100
<1> DEFINE idle == new.idle - old.idle
           total == (new.kernel - old.kernel) + (new.user - old.user)
           busy == 200 * (total - idle) + total
<1>1. old.idle \in Nat /\ old.kernel \in Nat /\ old.user \in Nat
  BY DEF SystemTimes
<1>2. new.idle \in Nat /\ new.kernel \in Nat /\ new.user \in Nat
  BY DEF SystemTimes
<1>3. CASE \/ idle < 0 \/ new.kernel - old.kernel < 0 \/ new.user - old.user < 0
           \/ total = 0 \/ idle > total
  BY <1>1, <1>2, <1>3 DEF CPUPercent, Unknown
<1>4. CASE ~(\/ idle < 0 \/ new.kernel - old.kernel < 0 \/ new.user - old.user < 0
             \/ total = 0 \/ idle > total)
  <2>0. idle \in Nat /\ total \in Nat \ {0} /\ idle <= total
    BY <1>1, <1>2, <1>4
  <2>1. busy \in Nat /\ 2 * total \in Nat \ {0} /\ busy < 101 * (2 * total)
    <3> HIDE DEF idle, total
    <3> QED
      BY <2>0
  <2>2. busy \div (2 * total) \in 0..100
    <3> HIDE DEF busy, total
    <3> QED
      BY <2>1, QuotientBounds
  <2>3. CPUPercent(old, new) = busy \div (2 * total)
    BY <1>4 DEF CPUPercent
  <2> QED
    BY <2>2, <2>3
<1> QED
  BY <1>3, <1>4

LEMMA DXVA2InRange ==
    ASSUME NEW b \in MonitorRange \cup {None}, DXVA2Percent(b) # None
    PROVE  DXVA2Percent(b) \in 0..100
<1>1. b \in MonitorRange /\ b.max > b.min
  BY DEF DXVA2Percent, MonitorRange
<1> DEFINE cur == CASE b.cur < b.min -> b.min [] b.cur > b.max -> b.max [] OTHER -> b.cur
           part == (cur - b.min) * 100
           range == b.max - b.min
<1>2. b.min \in Nat /\ b.cur \in Nat /\ b.max \in Nat
  BY <1>1 DEF MonitorRange
<1>3. cur \in Nat /\ b.min <= cur /\ cur <= b.max
  BY <1>1, <1>2
<1>4. part \in Nat /\ range \in Nat \ {0} /\ part < 101 * range
  <2> HIDE DEF cur
  <2> QED
    BY <1>1, <1>2, <1>3
<1>5. part \div range \in 0..100
  <2> HIDE DEF part, range
  <2> QED
    BY <1>4, QuotientBounds
<1> QED
  BY <1>1, <1>2, <1>5 DEF DXVA2Percent

\* The metrics of the groups, and what their values are.
LEMMA MetricSets ==
    /\ MetricsOf("battery") = {"battery_percent", "battery_on_ac", "battery_charging"}
    /\ MetricsOf("cpu") = {"cpu_percent"}
    /\ MetricsOf("mem") = {"mem_percent"}
    /\ MetricsOf("net") = {"net_online", "net_type"}
    /\ MetricsOf("volume") = {"volume_percent", "volume_muted"}
    /\ MetricsOf("brightness") = {"brightness_percent"}
BY DEF MetricsOf

LEMMA Ranges ==
    /\ \A v : v \in -1..1 => /\ InRange("battery_on_ac", v) /\ InRange("battery_charging", v)
                             /\ InRange("net_online", v) /\ InRange("volume_muted", v)
    /\ \A v : v \in -1..100 => /\ InRange("battery_percent", v) /\ InRange("cpu_percent", v)
                               /\ InRange("mem_percent", v) /\ InRange("volume_percent", v)
                               /\ InRange("brightness_percent", v)
    /\ \A v : v \in {"ethernet", "wifi", "cellular", "unknown", "none", "-1"} => InRange("net_type", v)
BY DEF InRange

InRangeFor(g, f) == \A m \in DOMAIN f : m \in MetricsOf(g) /\ InRange(m, f[m])

LEMMA BatteryInRange ==
    ASSUME NEW st \in PowerStatus \cup {None}
    PROVE  InRangeFor("battery", BatteryOut(st))
<1>1. st # None => BatteryPercent(st) \in -1..100 /\ OnAC(st) \in -1..1
  BY DEF PowerStatus, BatteryPercent, OnAC, Unknown
<1> DEFINE f == BatteryOut(st)
<1>2. DOMAIN f = MetricsOf("battery")
  BY DEF BatteryOut
<1>3. f["battery_percent"] \in -1..100 /\ f["battery_on_ac"] \in -1..1 /\ f["battery_charging"] \in -1..1
  BY <1>1, MetricSets DEF BatteryOut, Unknown
<1> HIDE DEF f
<1> QED
  BY <1>2, <1>3, MetricSets, Ranges DEF InRangeFor, f

LEMMA VolumeInRange ==
    ASSUME NEW v \in EndpointVolume \cup {None}
    PROVE  InRangeFor("volume", VolumeOut(v))
<1> DEFINE f == VolumeOut(v)
<1>1. CASE v = None
  BY <1>1 DEF VolumeOut, InRangeFor
<1>2. CASE v # None
  <2>1. v.level \in Int
    BY <1>2 DEF EndpointVolume
  <2>2. v.level >= 0 /\ v.level <= 1000 => (v.level + 5) \div 10 \in 0..100
    BY <2>1
  <2>3. DOMAIN f = MetricsOf("volume")
    BY <1>2 DEF VolumeOut
  <2>4. f["volume_muted"] \in -1..1
    BY <1>2, MetricSets DEF VolumeOut
  <2>5. f["volume_percent"] \in -1..100
    BY <1>2, <2>1, <2>2, MetricSets DEF VolumeOut
  <2> HIDE DEF f
  <2> QED
    BY <2>3, <2>4, <2>5, MetricSets, Ranges DEF InRangeFor, f
<1> QED
  BY <1>1, <1>2

\* There is a best adapter, so that the type is one of the known texts.
LEMMA NetTypeKnown ==
    ASSUME NEW adapters
    PROVE  NetType(adapters) \in {"ethernet", "wifi", "cellular", "unknown", "none"}
<1> DEFINE kinds == {a.kind : a \in Candidates(adapters)}
<1>1. DOMAIN Rank = {"ethernet", "wifi", "cellular", "unknown"}
  BY DEF Rank
<1>2. kinds \subseteq {"ethernet", "wifi", "cellular", "unknown"}
  BY <1>1 DEF Candidates
<1>3. /\ Rank["ethernet"] = 3 /\ Rank["wifi"] = 2
      /\ Rank["cellular"] = 1 /\ Rank["unknown"] = 0
  BY DEF Rank
<1> HIDE DEF kinds
<1>4. CASE kinds # {}
  <2>1. PICK k \in kinds : \A j \in kinds : Rank[k] >= Rank[j]
    <3>1. CASE "ethernet" \in kinds
      BY <1>2, <1>3, <3>1
    <3>2. CASE "ethernet" \notin kinds /\ "wifi" \in kinds
      BY <1>2, <1>3, <3>2
    <3>3. CASE "ethernet" \notin kinds /\ "wifi" \notin kinds /\ "cellular" \in kinds
      BY <1>2, <1>3, <3>3
    <3>4. CASE kinds = {"unknown"}
      BY <1>3, <3>4
    <3> QED
      BY <1>2, <1>4, <3>1, <3>2, <3>3, <3>4
  <2>2. (CHOOSE j \in kinds : \A i \in kinds : Rank[j] >= Rank[i]) \in kinds
    BY <2>1
  <2> QED
    BY <1>2, <1>4, <2>2 DEF NetType, kinds
<1>5. CASE kinds = {}
  BY <1>5 DEF NetType, kinds
<1> QED
  BY <1>4, <1>5

LEMMA NetInRange ==
    ASSUME NEW adapters
    PROVE  InRangeFor("net", NetOut(adapters))
<1> DEFINE f == NetOut(adapters)
<1>1. DOMAIN f = MetricsOf("net")
  BY DEF NetOut
<1>2. f["net_online"] \in -1..1
  BY MetricSets DEF NetOut, Unknown
<1>3. f["net_type"] \in {"ethernet", "wifi", "cellular", "unknown", "none", "-1"}
  BY MetricSets, NetTypeKnown DEF NetOut
<1> HIDE DEF f
<1> QED
  BY <1>1, <1>2, <1>3, MetricSets, Ranges DEF InRangeFor, f

LEMMA MemInRange ==
    ASSUME NEW load \in Nat \cup {None}
    PROVE  InRangeFor("mem", MemOut(load))
<1>1. MemOut(load)["mem_percent"] \in -1..100
  BY DEF MemOut, Unknown
<1> QED
  BY <1>1, MetricSets, Ranges DEF MemOut, InRangeFor

LEMMA ReadingTypes ==
    ASSUME TypeOK
    PROVE  /\ group = "battery" => reading \in PowerStatus \cup {None}
           /\ group = "cpu" => reading \in SystemTimes \cup {None}
           /\ group = "mem" => reading \in Nat \cup {None}
           /\ group = "net" => reading \in Adapters \cup {None}
           /\ group = "volume" => reading \in EndpointVolume \cup {None}
           /\ group = "brightness" =>
                  reading \in [dxva2 : MonitorRange \cup {None}, wmi : Int \cup {None}]
BY ReadingsAssumption DEF TypeOK

\* What a push is about to emit is in range.
LEMMA OutInRange ==
    ASSUME TypeOK, NEW n \in Loops
    PROVE  InRangeFor(group, Out(n))
<1> USE ReadingTypes
<1>1. CASE group = "battery"
  BY <1>1, BatteryInRange DEF Out
<1>2. CASE group = "cpu"
  <2>1. prev[n] \in SystemTimes \cup {None} /\ reading \in SystemTimes \cup {None}
    BY <1>2, ReadingsAssumption DEF TypeOK
  <2>2. CPUOut(n)["cpu_percent"] \in -1..100
    BY <2>1, CPUPercentInRange DEF CPUOut, Unknown
  <2>3. InRangeFor("cpu", CPUOut(n))
    BY <2>2, MetricSets, Ranges DEF CPUOut, InRangeFor
  <2> QED
    BY <1>2, <2>3 DEF Out
<1>3. CASE group = "mem"
  BY <1>3, MemInRange DEF Out
<1>4. CASE group = "net"
  BY <1>4, NetInRange DEF Out
<1>5. CASE group = "volume"
  BY <1>5, VolumeInRange DEF Out
<1>6. CASE group = "brightness"
  <2>1. reading.dxva2 \in MonitorRange \cup {None} /\ reading.wmi \in Int \cup {None}
    BY <1>6
  <2>2. DXVA2Percent(reading.dxva2) # None => DXVA2Percent(reading.dxva2) \in 0..100
    BY <2>1, DXVA2InRange
  <2>3. WMIPercent(n) # None => WMIPercent(n) \in 0..100
    BY <2>1 DEF WMIPercent
  <2>4. BrightnessOut(n)["brightness_percent"] \in -1..100
    BY <2>2, <2>3 DEF BrightnessOut, Unknown
  <2>5. InRangeFor("brightness", BrightnessOut(n))
    BY <2>4, MetricSets, Ranges DEF BrightnessOut, InRangeFor
  <2> QED
    BY <1>6, <2>5 DEF Out
<1>7. group \in Groups
  BY DEF TypeOK
<1> QED
  BY <1>1, <1>2, <1>3, <1>4, <1>5, <1>6, <1>7 DEF Groups

-----------------------------------------------------------------------------
(***************************************************************************)
(* Type correctness.  TypeOK alone is not inductive: a collector about to  *)
(* emit has something to emit, only that of the processor times reads them *)
(* on its own, and reporting that is on has a collector to cancel.         *)
(***************************************************************************)
EmitsSomething == \A n \in Loops : pc[n] = "emit" => DOMAIN out[n] # {}

TimesAreRead == \A n \in Loops : pc[n] \in {"init", "settle"} => group = "cpu"

ReportingHasLoop == reporting => loop # 0

TInv == TypeOK /\ EmitsSomething /\ TimesAreRead /\ ReportingHasLoop

LEMMA TypeInit == Init => TInv
<1> SUFFICES ASSUME Init PROVE TInv
  OBVIOUS
<1>1. \A n \in Loops : out[n] = <<>> /\ DOMAIN out[n] = {}
  BY DEF Init
<1>2. /\ DOMAIN shown = AllMetrics /\ \A m \in AllMetrics : shown[m] = None
      /\ DOMAIN out = Loops
      /\ enabled \in SUBSET AllMetrics
      /\ left \in [Loops -> -1..Backoff] /\ pc \in [Loops -> Labels]
  BY CollectorsAssumption DEF Init, Labels
<1>3. TypeOK
  BY <1>1, <1>2 DEF Init, TypeOK
<1>4. EmitsSomething /\ TimesAreRead /\ ReportingHasLoop
  BY DEF Init, EmitsSomething, TimesAreRead, ReportingHasLoop
<1> QED
  BY <1>3, <1>4 DEF TInv

\* Steps that change neither what is about to be emitted nor what is shown.
QuietVars == <<group, reading, enabled, out, shown>>

LEMMA QuietStep ==
    ASSUME TInv, QuietVars' = QuietVars, NEW n \in Loops, NEW to \in Labels \ {"emit"},
           UNCHANGED envVars, to \in {"init", "settle"} => group = "cpu",
           pc' = [pc EXCEPT ![n] = to],
           after' \in [Loops -> {"listen", "check"}],
           closed' \in [Loops -> BOOLEAN], ticker' \in [Loops -> BOOLEAN],
           prev' \in [Loops -> Readings["cpu"] \cup {None}],
           wmi' \in [Loops -> BOOLEAN], left' \in [Loops -> -1..Backoff]
    PROVE  TInv'
<1>1. TypeOK'
  BY DEF TInv, TypeOK, QuietVars, envVars, Mine
<1>2. EmitsSomething'
  BY DEF TInv, TypeOK, QuietVars, EmitsSomething
<1>3. TimesAreRead' /\ ReportingHasLoop'
  BY DEF TInv, TypeOK, QuietVars, envVars, TimesAreRead, ReportingHasLoop
<1> QED
  BY <1>1, <1>2, <1>3 DEF TInv

LEMMA EndType ==
    ASSUME TInv, NEW n \in Loops, End(n), UNCHANGED <<group, envVars, shown>>
    PROVE  TInv'
<1>1. /\ after' \in [Loops -> {"listen", "check"}]
      /\ closed' \in [Loops -> BOOLEAN] /\ ticker' \in [Loops -> BOOLEAN]
      /\ prev' \in [Loops -> Readings["cpu"] \cup {None}]
      /\ wmi' \in [Loops -> BOOLEAN] /\ left' \in [Loops -> -1..Backoff]
      /\ pc' \in [Loops -> Labels]
  BY CollectorsAssumption DEF TInv, TypeOK, End, Forget, Labels
<1>2. DOMAIN out' = Loops
  BY DEF TInv, TypeOK, End, Forget
<1>3. \A k \in Loops : out'[k] = IF k = n THEN <<>> ELSE out[k]
  BY DEF TInv, TypeOK, End, Forget
<1>4. \A k \in Loops : pc'[k] = IF k = n THEN "ended" ELSE pc[k]
  BY DEF TInv, TypeOK, End, Forget
<1>5. DOMAIN <<>> = {}
  OBVIOUS
<1>6. \A k \in Loops : \A m \in DOMAIN out'[k] : m \in Mine' /\ InRange(m, out'[k][m])
  BY <1>3, <1>5 DEF TInv, TypeOK, Mine
<1>7. TypeOK'
  BY <1>1, <1>2, <1>6 DEF TInv, TypeOK, envVars
<1>8. EmitsSomething' /\ TimesAreRead' /\ ReportingHasLoop'
  BY <1>3, <1>4 DEF TInv, EmitsSomething, TimesAreRead, ReportingHasLoop, envVars
<1> QED
  BY <1>7, <1>8 DEF TInv

LEMMA ProceedType ==
    ASSUME TInv, NEW n \in Loops, Proceed(n), UNCHANGED <<group, envVars, prev, wmi, left, out, shown>>
    PROVE  TInv'
<1> DEFINE to == CASE ticker[n] -> "listen"
                   [] group = "cpu" /\ ~ticker[n] -> "init"
                   [] OTHER -> "push"
<1>1. to \in Labels \ {"emit"} /\ (to \in {"init", "settle"} => group = "cpu")
  BY DEF Labels
<1>2. pc' = [pc EXCEPT ![n] = to]
  BY DEF Proceed
<1> HIDE DEF to
<1> QED
  BY <1>1, <1>2, QuietStep DEF TInv, TypeOK, Proceed, QuietVars, envVars

LEMMA SleepType ==
    ASSUME TInv, NEW n \in Loops,
           Check(n) \/ Fetch(n) \/ Recheck(n) \/ Wake(n) \/ Listen(n)
    PROVE  TInv'
<1>1. {"fetch", "recheck", "wait", "select"} \subseteq Labels
  BY DEF Labels
<1>2. CASE Check(n)
  BY <1>1, <1>2, ProceedType, QuietStep DEF Check, Goto, TInv, TypeOK, QuietVars, envVars
<1>3. CASE Recheck(n)
  BY <1>1, <1>3, ProceedType, QuietStep DEF Recheck, Goto, TInv, TypeOK, QuietVars, envVars
<1>4. CASE Fetch(n)
  BY <1>1, <1>4, QuietStep DEF Fetch, Goto, TInv, TypeOK, QuietVars, envVars
<1>5. CASE Wake(n)
  BY <1>1, <1>5, QuietStep DEF Wake, Goto, TInv, TypeOK, QuietVars, envVars
<1>6. CASE Listen(n)
  BY <1>1, <1>6, QuietStep DEF Listen, Goto, TInv, TypeOK, QuietVars, envVars
<1> QED
  BY <1>2, <1>3, <1>4, <1>5, <1>6

LEMMA SettleType ==
    ASSUME TInv, NEW n \in Loops, Settle(n)
    PROVE  TInv'
<1>1. "push" \in Labels
  BY DEF Labels
<1> QED
  BY <1>1, QuietStep DEF Settle, Goto, TInv, TypeOK, QuietVars, envVars

LEMMA SelectType ==
    ASSUME TInv, NEW n \in Loops, NEW to \in {"check", "push"}, Select(n, to)
    PROVE  TInv'
<1>1. (IF Enabled THEN to ELSE "check") \in {"check", "push"}
  OBVIOUS
<1>2. {"check", "push"} \subseteq Labels
  BY DEF Labels
<1>3. Enabled \in BOOLEAN
  BY DEF Enabled
<1> QED
  BY <1>1, <1>2, <1>3, QuietStep DEF Select, Goto, TInv, TypeOK, QuietVars, envVars

LEMMA OpenType ==
    ASSUME TInv, NEW n \in Loops, OpenVolume(n) \/ OpenBrightness(n)
    PROVE  TInv'
<1>1. "check" \in Labels
  BY DEF Labels
<1>2. CASE OpenVolume(n)
  BY <1>1, <1>2, QuietStep, EndType DEF OpenVolume, Goto, TInv, TypeOK, QuietVars, envVars
<1>3. CASE OpenBrightness(n)
  <2>1. wmi' \in [Loops -> BOOLEAN]
    BY <1>3 DEF OpenBrightness, TInv, TypeOK
  <2>2. pc' = [pc EXCEPT ![n] = "check"] /\ UNCHANGED envVars /\ QuietVars' = QuietVars
    BY <1>3 DEF OpenBrightness, Goto, QuietVars, envVars
  <2> QED
    BY <1>1, <1>3, <2>1, <2>2, QuietStep DEF OpenBrightness, TInv, TypeOK
<1> QED
  BY <1>2, <1>3

\* What is shown is replaced by a value in range, or not at all.
LEMMA ShownType ==
    ASSUME TypeOK, NEW m \in AllMetrics, NEW v, InRange(m, v),
           shown' = shown \/ shown' = [shown EXCEPT ![m] = v]
    PROVE  /\ DOMAIN shown' = AllMetrics
           /\ \A k \in AllMetrics : shown'[k] = None \/ InRange(k, shown'[k])
BY DEF TypeOK

LEMMA InitPrevType ==
    ASSUME TInv, NEW n \in Loops, InitPrev(n)
    PROVE  TInv'
<1>1. group = "cpu"
  BY DEF TInv, TimesAreRead, InitPrev, Goto
<1>2. reading \in Readings["cpu"] /\ (reading = None) \in BOOLEAN
  BY <1>1 DEF TInv, TypeOK
<1>3. "cpu_percent" \in AllMetrics /\ InRange("cpu_percent", Unknown)
  BY MetricSets, Ranges DEF AllMetrics, Groups, Unknown
<1>4. /\ DOMAIN shown' = AllMetrics
      /\ \A k \in AllMetrics : shown'[k] = None \/ InRange(k, shown'[k])
  BY <1>3, ShownType DEF InitPrev, TInv
<1>5. /\ pc' \in [Loops -> Labels] /\ pc'[n] \in {"push", "settle"}
      /\ \A k \in Loops \ {n} : pc'[k] = pc[k]
  BY DEF TInv, TypeOK, InitPrev, Goto, Labels
<1>6. /\ prev' \in [Loops -> Readings["cpu"] \cup {None}]
      /\ ticker' \in [Loops -> BOOLEAN]
  BY <1>2 DEF TInv, TypeOK, InitPrev
<1>7. TypeOK'
  BY <1>4, <1>5, <1>6 DEF TInv, TypeOK, InitPrev, envVars, Mine
<1>8. EmitsSomething' /\ TimesAreRead' /\ ReportingHasLoop'
  BY <1>1, <1>5 DEF TInv, EmitsSomething, TimesAreRead, ReportingHasLoop, InitPrev, envVars
<1> QED
  BY <1>7, <1>8 DEF TInv

LEMMA ReturnType ==
    ASSUME TInv, NEW n \in Loops, Return(n)
    PROVE  /\ pc' \in [Loops -> Labels] /\ after' \in [Loops -> {"listen", "check"}]
           /\ pc'[n] \in {"listen", "check"}
           /\ \A k \in Loops \ {n} : pc'[k] = pc[k]
BY DEF TInv, TypeOK, Return, Labels

LEMMA PushType ==
    ASSUME TInv, NEW n \in Loops, Push(n)
    PROVE  TInv'
<1> DEFINE o == Out(n)
<1>1. InRangeFor(group, o)
  BY OutInRange DEF TInv
<1>2. /\ pc' \in [Loops -> Labels] /\ after' \in [Loops -> {"listen", "check"}]
      /\ pc'[n] \in {"listen", "check"} \/ (pc'[n] = "emit" /\ DOMAIN o # {})
      /\ \A k \in Loops \ {n} : pc'[k] = pc[k]
  BY ReturnType DEF TInv, TypeOK, Push, Goto, Labels
<1>3. prev' \in [Loops -> Readings["cpu"] \cup {None}]
  <2>1. group = "cpu" => reading \in Readings["cpu"]
    BY DEF TInv, TypeOK
  <2> QED
    BY <2>1 DEF TInv, TypeOK, Push
<1>4. left' \in [Loops -> -1..Backoff]
  <2>1. Left(n) \in -1..Backoff
    BY CollectorsAssumption DEF TInv, TypeOK, Left
  <2> QED
    BY <2>1 DEF TInv, TypeOK, Push
<1>5. out' = [out EXCEPT ![n] = o]
  BY DEF Push
<1> HIDE DEF o
<1>6. DOMAIN out' = Loops /\ \A k \in Loops : out'[k] = IF k = n THEN o ELSE out[k]
  BY <1>5 DEF TInv, TypeOK
<1>7. \A k \in Loops : \A m \in DOMAIN out'[k] : m \in Mine' /\ InRange(m, out'[k][m])
  BY <1>1, <1>6 DEF TInv, TypeOK, Push, Mine, InRangeFor
<1>8. TypeOK'
  BY <1>2, <1>3, <1>4, <1>6, <1>7 DEF TInv, TypeOK, Push, envVars
<1>9. EmitsSomething' /\ TimesAreRead' /\ ReportingHasLoop'
  BY <1>2, <1>6 DEF TInv, EmitsSomething, TimesAreRead, ReportingHasLoop, Push, envVars
<1> QED
  BY <1>8, <1>9 DEF TInv

LEMMA EmitType ==
    ASSUME TInv, NEW n \in Loops, Emit(n)
    PROVE  TInv'
<1> DEFINE m == CHOOSE k \in DOMAIN out[n] : TRUE
           rest == DOMAIN out[n] \ {m}
           v == out[n][m]
           o == [k \in rest |-> out[n][k]]
<1>1. m \in DOMAIN out[n]
  BY DEF TInv, EmitsSomething, Emit
<1>2. m \in Mine /\ InRange(m, v)
  BY <1>1 DEF TInv, TypeOK
<1>3. m \in AllMetrics
  BY <1>2 DEF TInv, TypeOK, Mine, AllMetrics
<1>4. pc[n] = "emit" /\ (IF rest = {} THEN Return(n) ELSE UNCHANGED <<pc, after>>)
  BY DEF Emit
<1>5. shown' = shown \/ shown' = [shown EXCEPT ![m] = v]
  BY DEF Emit
<1>6. out' = [out EXCEPT ![n] = o]
  BY DEF Emit
<1>7. DOMAIN o = rest /\ \A k \in rest : k \in Mine /\ InRange(k, o[k])
  BY DEF TInv, TypeOK
<1> HIDE DEF m, v, o, rest
<1>8. /\ DOMAIN shown' = AllMetrics
      /\ \A k \in AllMetrics : shown'[k] = None \/ InRange(k, shown'[k])
  BY <1>2, <1>3, <1>5, ShownType DEF TInv
<1>9. /\ pc' \in [Loops -> Labels] /\ after' \in [Loops -> {"listen", "check"}]
      /\ pc'[n] \in {"listen", "check"} \/ (pc'[n] = "emit" /\ rest # {})
      /\ \A k \in Loops \ {n} : pc'[k] = pc[k]
  BY <1>4, ReturnType DEF TInv, TypeOK
<1>10. DOMAIN out' = Loops /\ \A k \in Loops : out'[k] = IF k = n THEN o ELSE out[k]
  BY <1>6 DEF TInv, TypeOK
<1>11. \A k \in Loops : \A j \in DOMAIN out'[k] : j \in Mine' /\ InRange(j, out'[k][j])
  BY <1>7, <1>10 DEF TInv, TypeOK, Emit, Mine
<1>12. TypeOK'
  BY <1>8, <1>9, <1>10, <1>11 DEF TInv, TypeOK, Emit, envVars
<1>13. EmitsSomething' /\ TimesAreRead' /\ ReportingHasLoop'
  BY <1>7, <1>9, <1>10 DEF TInv, EmitsSomething, TimesAreRead, ReportingHasLoop, Emit, envVars
<1> QED
  BY <1>12, <1>13 DEF TInv

LEMMA CollectorType ==
    ASSUME TInv, NEW n \in Loops, Collector(n)
    PROVE  TInv'
<1>1. CASE LoopStep(n)
  <2>1. CASE Cancelled(n)
    BY <2>1, EndType DEF Cancelled
  <2>2. CASE ConfigChanged(n) \/ Tick(n)
    BY <2>2, SelectType DEF ConfigChanged, Tick
  <2> QED
    BY <1>1, <2>1, <2>2, SleepType, InitPrevType, SettleType, PushType, EmitType DEF LoopStep
<1> QED
  BY <1>1, OpenType DEF Collector, BatteryLoop, CPULoop, MemLoop, NetLoop, VolumeLoop, BrightnessLoop

\* Steps of the runtime and of the device.
LEMMA StartReportingType ==
    ASSUME TInv, StartReporting
    PROVE  TInv'
<1>1. loop' \in Loops
  BY CollectorsAssumption DEF TInv, TypeOK, StartReporting, Loops
<1>2. /\ pc' \in [Loops -> Labels] /\ pc'[loop'] \in {"open", "check"}
      /\ \A k \in Loops \ {loop'} : pc'[k] = pc[k]
  BY <1>1 DEF TInv, TypeOK, StartReporting, Labels
<1>3. TypeOK'
  BY <1>1, <1>2 DEF TInv, TypeOK, StartReporting, Mine
<1>4. EmitsSomething' /\ TimesAreRead' /\ ReportingHasLoop'
  BY <1>1, <1>2 DEF TInv, EmitsSomething, TimesAreRead, ReportingHasLoop, StartReporting, Loops
<1> QED
  BY <1>3, <1>4 DEF TInv

LEMMA TimePassesType ==
    ASSUME TInv, TimePasses
    PROVE  TInv'
<1>1. left' \in [Loops -> -1..Backoff]
  BY CollectorsAssumption DEF TInv, TypeOK, TimePasses
<1>2. TypeOK'
  BY <1>1 DEF TInv, TypeOK, TimePasses, envVars, Mine
<1>3. EmitsSomething' /\ TimesAreRead' /\ ReportingHasLoop'
  BY DEF TInv, EmitsSomething, TimesAreRead, ReportingHasLoop, TimePasses, envVars
<1> QED
  BY <1>2, <1>3 DEF TInv

LEMMA EnvironmentType ==
    ASSUME TInv, StopReporting \/ (\E ms \in Selections : SetConfig(ms)) \/ Signal \/ DeviceChanges
    PROVE  TInv'
<1>1. CASE StopReporting
  <2>1. cancelled' \in SUBSET Loops
    BY <1>1 DEF StopReporting, TInv, TypeOK, ReportingHasLoop
  <2> QED
    BY <1>1, <2>1 DEF StopReporting, TInv, TypeOK, EmitsSomething, TimesAreRead, ReportingHasLoop, loopVars, Mine
<1>2. CASE \E ms \in Selections : SetConfig(ms)
  BY <1>2, CollectorsAssumption DEF SetConfig, TInv, TypeOK, EmitsSomething, TimesAreRead, ReportingHasLoop, loopVars, Mine
<1>3. CASE Signal
  <2>1. closed' \in [Loops -> BOOLEAN]
    BY <1>3 DEF Signal
  <2> QED
    BY <1>3, <2>1 DEF Signal, TInv, TypeOK, EmitsSomething, TimesAreRead, ReportingHasLoop, Mine
<1>4. CASE DeviceChanges
  BY <1>4 DEF DeviceChanges, TInv, TypeOK, EmitsSomething, TimesAreRead, ReportingHasLoop, loopVars, Mine
<1> QED
  BY <1>1, <1>2, <1>3, <1>4

LEMMA TypeInductive == TInv /\ [Next]_vars => TInv'
<1> SUFFICES ASSUME TInv, [Next]_vars PROVE TInv'
  OBVIOUS
<1>1. CASE UNCHANGED vars
  BY <1>1 DEF TInv, TypeOK, EmitsSomething, TimesAreRead, ReportingHasLoop, vars, envVars, loopVars, Mine
<1> QED
  BY <1>1, CollectorType, StartReportingType, TimePassesType, EnvironmentType DEF Next

\* Every value that is emitted or shown is a percentage, a switch or a known text:
\* counters that go backwards, empty ranges, levels out of range and readings that fail
\* included (the push of each of the six collectors).
THEOREM TypeCorrect == Spec => []TypeOK
<1>1. TInv => TypeOK
  BY DEF TInv
<1> QED
  BY <1>1, TypeInit, TypeInductive, PTL DEF Spec

-----------------------------------------------------------------------------
(***************************************************************************)
(* No change is slept through.  A collector goes to sleep only from the    *)
(* second look, which finds nothing enabled; what is enabled later has not *)
(* been signalled yet, and the signal finds the channel that was fetched   *)
(* before that look.                                                       *)
(***************************************************************************)
Awake(n) == pc[n] = "wait" /\ Enabled => closed[n] \/ unsignalled > 0

\* A collector's step leaves the others as they were.
LEMMA OthersStay ==
    ASSUME TypeOK, NEW n \in Loops, Collector(n), NEW k \in Loops \ {n}
    PROVE  pc'[k] = pc[k] /\ closed'[k] = closed[k] /\ UNCHANGED <<group, enabled, unsignalled>>
<1>1. CASE LoopStep(n)
  <2>1. CASE Check(n) \/ Recheck(n)
    BY <2>1 DEF Check, Recheck, Proceed, Goto, TypeOK, envVars
  <2>2. CASE Fetch(n) \/ Wake(n) \/ Listen(n) \/ Settle(n)
    BY <2>2 DEF Fetch, Wake, Listen, Settle, Goto, TypeOK, envVars
  <2>3. CASE InitPrev(n)
    BY <2>3 DEF InitPrev, Goto, TypeOK, envVars
  <2>4. CASE Push(n)
    BY <2>4 DEF Push, Return, Goto, TypeOK, envVars
  <2>5. CASE Emit(n)
    BY <2>5 DEF Emit, Return, TypeOK, envVars
  <2>6. CASE ConfigChanged(n) \/ Tick(n)
    BY <2>6 DEF ConfigChanged, Tick, Select, Goto, TypeOK, envVars
  <2>7. CASE Cancelled(n)
    BY <2>7 DEF Cancelled, End, Forget, TypeOK, envVars
  <2> QED
    BY <1>1, <2>1, <2>2, <2>3, <2>4, <2>5, <2>6, <2>7 DEF LoopStep
<1>2. CASE OpenVolume(n) \/ OpenBrightness(n)
  BY <1>2 DEF OpenVolume, OpenBrightness, End, Forget, Goto, TypeOK, envVars
<1> QED
  BY <1>1, <1>2 DEF Collector, BatteryLoop, CPULoop, MemLoop, NetLoop, VolumeLoop, BrightnessLoop

\* A collector falls asleep only when it has seen that nothing is enabled.
LEMMA SleepsIfDisabled ==
    ASSUME TypeOK, NEW n \in Loops, Collector(n), pc'[n] = "wait"
    PROVE  ~Enabled /\ UNCHANGED <<group, enabled>>
<1>1. CASE LoopStep(n)
  <2>1. CASE Check(n) \/ Recheck(n)
    BY <2>1 DEF Check, Recheck, Proceed, Goto, TypeOK, envVars
  <2>2. ~(Fetch(n) \/ Wake(n) \/ Listen(n) \/ Settle(n) \/ InitPrev(n))
    BY DEF Fetch, Wake, Listen, Settle, InitPrev, Goto, TypeOK
  <2>3. ~(Push(n) \/ Emit(n))
    BY DEF Push, Emit, Return, Goto, TypeOK
  <2>4. ~(ConfigChanged(n) \/ Tick(n) \/ Cancelled(n))
    BY DEF ConfigChanged, Tick, Select, Cancelled, End, Forget, Goto, TypeOK
  <2> QED
    BY <1>1, <2>1, <2>2, <2>3, <2>4 DEF LoopStep
<1>2. ~(OpenVolume(n) \/ OpenBrightness(n))
  BY DEF OpenVolume, OpenBrightness, End, Forget, Goto, TypeOK
<1> QED
  BY <1>1, <1>2 DEF Collector, BatteryLoop, CPULoop, MemLoop, NetLoop, VolumeLoop, BrightnessLoop

LEMMA AwakeInductive ==
    ASSUME TypeOK, NoLostChange, [Next]_vars
    PROVE  NoLostChange'
<1> SUFFICES ASSUME NEW k \in Loops PROVE Awake(k)'
  BY DEF NoLostChange, Awake
<1> USE DEF Awake
<1>0. Awake(k)
  BY DEF NoLostChange
<1>1. CASE \E n \in Loops : Collector(n)
  <2>1. PICK n \in Loops : Collector(n)
    BY <1>1
  <2>2. CASE n # k
    BY <1>0, <2>1, <2>2, OthersStay DEF Enabled, Mine
  <2>3. CASE n = k
    BY <2>1, <2>3, SleepsIfDisabled DEF Enabled, Mine
  <2> QED
    BY <2>2, <2>3
<1>2. CASE StartReporting
  BY <1>0, <1>2 DEF StartReporting, TypeOK, Enabled, Mine
<1>3. CASE StopReporting
  BY <1>0, <1>3 DEF StopReporting, loopVars, Enabled, Mine
<1>4. CASE \E ms \in Selections : SetConfig(ms)
  BY <1>4 DEF SetConfig, loopVars, TypeOK
<1>5. CASE Signal
  BY <1>5 DEF Signal
<1>6. CASE DeviceChanges
  BY <1>0, <1>6 DEF DeviceChanges, loopVars, Enabled, Mine
<1>7. CASE TimePasses
  BY <1>0, <1>7 DEF TimePasses, envVars, Enabled, Mine
<1>8. CASE UNCHANGED vars
  BY <1>0, <1>8 DEF vars, envVars, loopVars, Enabled, Mine
<1> QED
  BY <1>1, <1>2, <1>3, <1>4, <1>5, <1>6, <1>7, <1>8 DEF Next

\* A collector that sleeps in waitUntilEnabled while one of its metrics is enabled has
\* been woken, or signalConfigChanged is still to come: the look at the configuration
\* after the channel is fetched leaves no gap.
THEOREM NoChangeIsLost == Spec => []NoLostChange
<1>1. Init => NoLostChange
  BY DEF Init, NoLostChange
<1> QED
  BY <1>1, TypeCorrect, AwakeInductive, PTL DEF Spec
=============================================================================
