------------------------------- MODULE Config -------------------------------
(***************************************************************************)
(* The runtime configuration (core/runtime/config.go) and the store behind *)
(* it (core/configstore/store.go): RuntimeConfigSet called by host threads *)
(* and by the read loop, the reload that follows it, the snapshot of the   *)
(* store that every Set writes to runtime_config.json, start and restart.  *)
(*                                                                         *)
(* settings_json says for every metric under which variable it is          *)
(* published, whether at all, and whether the hub may write it.            *)
(* bindings_json, its older form, lists the enabled metrics with their     *)
(* variables; a reload derives each key from the other one.  topics stands *)
(* for the keys that a reload only reads.  A JSON text is modelled by what *)
(* it parses to, Bad if it does not; an empty one by the defaults.         *)
(*                                                                         *)
(* A thread's pc names its next access to the store, the disk or r.cfg.    *)
(* The files have POSIX semantics (a rename moves what is written through  *)
(* an open handle); what other systems refuse is a failing operation here. *)
(* Republication is module Publish, resubscription module Notify.          *)
(***************************************************************************)
EXTENDS Naturals, FiniteSets

CONSTANTS
    Threads,
    Metrics, Controllable,
    Vars, DefaultVar,       \* variable names, and each metric's own
    Legacy,                 \* the default bindings of former versions
    Topics, NoTopics,       \* values of notify.topics_json, and the empty one
    Requests,               \* the calls of RuntimeConfigSet, those it refuses included
    InitFiles,              \* what the disk may hold at first
    None, Bad,              \* no value; a text that does not parse
    Empty, Torn,            \* a file opened and not yet written; one that is broken
    MaxCalls, MaxFaults, MaxCrashes

Keys == {"settings", "bindings", "topics"}

\* MetricSetting and Binding by metric; a metric bound twice has its last variable.
Setting == [var : Vars, enabled : BOOLEAN, writable : BOOLEAN]

AllSettings == [Metrics -> Setting]

AllBindings == [Metrics -> Vars \cup {None}]

\* Store.data.
Data == [settings : AllSettings \cup {None, Bad},
         bindings : AllBindings \cup {Bad},
         topics : Topics \cup {Bad}]

\* A file is None if it does not exist, or else holds a snapshot of the store or less.
Contents == Data \cup {None, Empty, Torn}

ASSUME ConfigAssumption ==
    /\ Controllable \subseteq Metrics
    /\ DefaultVar \in [Metrics -> Vars]
    /\ \A m, n \in Metrics : DefaultVar[m] = DefaultVar[n] => m = n
    /\ Legacy \subseteq AllBindings
    /\ NoTopics \in Topics
    /\ None \notin Vars /\ None \notin AllSettings /\ Bad \notin AllSettings
    /\ None # Bad /\ Bad \notin AllBindings /\ Bad \notin Topics
    /\ None \notin Data \cup {Empty, Torn} /\ Empty \notin Data \cup {Torn} /\ Torn \notin Data
    /\ InitFiles \subseteq Contents
    /\ \A r \in Requests : r.key \in Keys /\ "value" \in DOMAIN r
ASSUME BoundsAssumption == MaxCalls \in Nat /\ MaxFaults \in Nat /\ MaxCrashes \in Nat

\* The fields of runtimeConfig; the rest of it is computed from them.
Cfgs == [settings : AllSettings, topics : Topics]

ASSUME CfgAssumption == None \notin Cfgs

-----------------------------------------------------------------------------
\* The conversions between the two forms, and what RuntimeConfigSet accepts.

Injective(names) ==
    \A m, n \in Metrics : names[m] # None /\ names[m] = names[n] => m = n

ToBindings(s) == [m \in Metrics |-> IF s[m].enabled THEN s[m].var ELSE None]

\* A metric that is not listed is disabled; what the hub may write is not kept.
FromBindings(b) ==
    [m \in Metrics |-> [var |-> IF b[m] = None THEN DefaultVar[m] ELSE b[m],
                        enabled |-> b[m] # None,
                        writable |-> m \in Controllable]]

DefaultBindings == DefaultVar

DefaultSettings == FromBindings(DefaultBindings)

Valid(s) ==
    /\ s \in AllSettings
    /\ Injective(ToBindings(s))
    /\ \A m \in Metrics : s[m].writable => m \in Controllable

\* validateSettings: metrics left out are disabled, and nothing becomes writable
\* that cannot be controlled.
Complete(list) ==
    [m \in Metrics |-> IF list[m] = None
                       THEN [var |-> DefaultVar[m], enabled |-> FALSE,
                             writable |-> m \in Controllable]
                       ELSE [list[m] EXCEPT !.writable = @ /\ m \in Controllable]]

\* (mutant: the list is stored as it came)
StoredRaw(r) == r.value

\* The value RuntimeConfigSet stores for a request, and whether it accepts it.
Stored(r) == IF r.key = "settings" THEN Complete(r.value) ELSE r.value

Accepted(r) ==
    /\ r.value # Bad
    /\ CASE r.key = "settings" -> r.value \in [Metrics -> Setting \cup {None}]
                                  /\ Valid(Complete(r.value))
         [] r.key = "bindings" -> r.value \in AllBindings /\ Injective(r.value)
         [] OTHER -> r.value \in Topics

\* What a text in the store is read as.
ParsedSettings(v) == IF v # None /\ v # Bad /\ Valid(v) THEN v ELSE DefaultSettings

ParsedBindings(v) == IF v # Bad /\ Injective(v) THEN v ELSE DefaultBindings

ParsedTopics(v) == IF v = Bad THEN NoTopics ELSE v

-----------------------------------------------------------------------------
VARIABLES
    data,           \* the store, None before it is loaded
    cfg,            \* r.cfg, None until the runtime is up
    file, tmp,      \* runtime_config.json and runtime_config.json.tmp
    pc,
    ret,            \* where a thread goes on after Store.Set
    reason,         \* reasonKey of a thread's reload
    snap,           \* the snapshot a thread writes
    fd,             \* the file a thread has open
    view, tops,     \* the settings and topics of a thread's reload
    calls, faults, crashes,
    lone,           \* history: the last call or start ran alone, without a fault
    held, due       \* history: the configuration before and after the last call

diskVars == <<file, tmp>>
localVars == <<pc, ret, reason, snap, fd, view, tops>>
counters == <<calls, faults, crashes>>
history == <<lone, held, due>>
vars == <<data, cfg, diskVars, localVars, counters, history>>

Saving == {"snapshot", "open", "fill", "rename", "remove", "renameAgain"}

Labels == Saving \cup {"idle", "migrate", "derive", "load", "settings", "bindings",
                       "topics", "storeTopics", "apply"}

TypeOK ==
    /\ data \in Data \cup {None} /\ cfg \in Cfgs \cup {None}
    /\ file \in Contents /\ tmp \in Contents
    /\ pc \in [Threads -> Labels] /\ ret \in [Threads -> Labels]
    /\ reason \in [Threads -> Keys \cup {"init"}]
    /\ snap \in [Threads -> Data \cup {None}]
    /\ fd \in [Threads -> {"none", "tmp", "file", "gone"}]
    /\ view \in [Threads -> AllSettings \cup {None}]
    /\ tops \in [Threads -> Topics]
    /\ calls \in Nat /\ faults \in Nat /\ crashes \in Nat
    /\ lone \in BOOLEAN
    /\ held \in Cfgs \cup {None} /\ due \in Cfgs \cup {None}

Everywhere(x) == [t \in Threads |-> x]

Init ==
    /\ data = None /\ cfg = None
    /\ file \in InitFiles /\ tmp = None
    /\ pc = Everywhere("idle") /\ ret = Everywhere("idle") /\ reason = Everywhere("init")
    /\ snap = Everywhere(None) /\ fd = Everywhere("none")
    /\ view = Everywhere(None) /\ tops = Everywhere(NoTopics)
    /\ calls = 0 /\ faults = 0 /\ crashes = 0
    /\ lone = TRUE /\ held = None /\ due = None

AtRest == \A t \in Threads : pc[t] = "idle"

Goto(t, from, to) == pc[t] = from /\ pc' = [pc EXCEPT ![t] = to]

\* An operation on the disk fails: nothing is promised from here on.
Fault ==
    /\ faults < MaxFaults /\ faults' = faults + 1
    /\ lone' = FALSE /\ held' = None /\ due' = None
    /\ UNCHANGED <<calls, crashes>>

NoFault == UNCHANGED <<counters, history>>

-----------------------------------------------------------------------------
\* Store.Set and writeFileAtomic.

\* Set of one key, up to the unlock; the thread saves next and goes on at next.
SetKey(t, key, value, next) ==
    /\ data' = [data EXCEPT ![key] = value]
    /\ pc' = [pc EXCEPT ![t] = "snapshot"]
    /\ ret' = [ret EXCEPT ![t] = next]

\* (mutant: the key is set in memory and not saved)
SetUnsaved(t, key, value, next) ==
    data' = [data EXCEPT ![key] = value] /\ pc' = [pc EXCEPT ![t] = next] /\ UNCHANGED ret

\* storeSetIfChanged.  A write that comes between its Get and its Set changes nothing
\* but that the same value may be saved twice.
SetIfChanged(t, key, value, next) ==
    IF data[key] = value
    THEN pc' = [pc EXCEPT ![t] = next] /\ UNCHANGED <<data, ret>>
    ELSE SetKey(t, key, value, next)

\* save takes its snapshot after Set has let go of the lock.
Snapshot(t) ==
    /\ Goto(t, "snapshot", "open")
    /\ snap' = [snap EXCEPT ![t] = data]
    /\ UNCHANGED <<data, cfg, diskVars, ret, reason, fd, view, tops>> /\ NoFault

\* The end of save.  Its error ends RuntimeConfigSet, with the key set in memory and
\* no reload; everywhere else it is only logged.
SaveEnds(t, ok) ==
    /\ pc' = [pc EXCEPT ![t] = IF ~ok /\ ret[t] = "load" /\ reason[t] # "init"
                               THEN "idle" ELSE ret[t]]
    /\ ret' = [ret EXCEPT ![t] = "idle"]
    /\ snap' = [snap EXCEPT ![t] = None]

\* os.WriteFile(tmp): opened and truncated, whoever else is writing it, ...
Open(t) ==
    /\ pc[t] = "open"
    /\ \/ /\ Goto(t, "open", "fill")
          /\ tmp' = Empty /\ fd' = [fd EXCEPT ![t] = "tmp"]
          /\ UNCHANGED <<ret, snap>> /\ NoFault
       \/ SaveEnds(t, FALSE) /\ Fault /\ UNCHANGED <<tmp, fd>>
    /\ UNCHANGED <<data, cfg, file, reason, view, tops>>

\* ... and written: over another thread's text the end of that one may remain.
Written(old, new) == IF old = Empty THEN {new} ELSE {new, Torn}

Fill(t) ==
    /\ pc[t] = "fill"
    /\ fd' = [fd EXCEPT ![t] = "none"]
    /\ \/ /\ Goto(t, "fill", "rename")
          /\ tmp' \in IF fd[t] = "tmp" THEN Written(tmp, snap[t]) ELSE {tmp}
          /\ file' \in IF fd[t] = "file" THEN Written(file, snap[t]) ELSE {file}
          /\ UNCHANGED <<ret, snap>> /\ NoFault
       \/ /\ SaveEnds(t, FALSE) /\ Fault
          /\ tmp' = IF fd[t] = "tmp" THEN Torn ELSE tmp
          /\ file' = IF fd[t] = "file" THEN Torn ELSE file
    /\ UNCHANGED <<data, cfg, reason, view, tops>>

\* What becomes of the other threads' open files.
Moved == [t \in Threads |-> CASE fd[t] = "tmp" -> "file"
                              [] fd[t] = "file" -> "gone"
                              [] OTHER -> fd[t]]

Unlinked(name) == [t \in Threads |-> IF fd[t] = name THEN "gone" ELSE fd[t]]

RenameDone(t) ==
    /\ tmp # None
    /\ file' = tmp /\ tmp' = None /\ fd' = Moved
    /\ SaveEnds(t, TRUE) /\ NoFault

\* The first rename; it fails if another thread has renamed the file away.
Rename(t) ==
    /\ pc[t] = "rename"
    /\ \/ RenameDone(t)
       \/ /\ Goto(t, "rename", "remove")
          /\ IF tmp = None THEN NoFault ELSE Fault
          /\ UNCHANGED <<diskVars, ret, snap, fd>>
    /\ UNCHANGED <<data, cfg, reason, view, tops>>

\* os.Remove(path), whether it works or not.
Remove(t) ==
    /\ Goto(t, "remove", "renameAgain")
    /\ \/ file' = None /\ fd' = Unlinked("file") /\ NoFault
       \/ UNCHANGED <<file, fd>> /\ Fault
    /\ UNCHANGED <<data, cfg, tmp, ret, reason, snap, view, tops>>

RenameAgain(t) ==
    /\ pc[t] = "renameAgain"
    /\ \/ RenameDone(t)
       \/ /\ SaveEnds(t, FALSE)
          /\ IF tmp = None THEN NoFault ELSE Fault
          /\ tmp' = None /\ fd' = Unlinked("tmp") /\ UNCHANGED file
    /\ UNCHANGED <<data, cfg, reason, view, tops>>

-----------------------------------------------------------------------------
\* RuntimeConfigSet and reloadRuntimeConfig.

\* The configuration a request asks for.
Asked(r) ==
    CASE r.key = "settings" -> [cfg EXCEPT !.settings = Stored(r)]
      [] r.key = "bindings" -> [cfg EXCEPT !.settings = FromBindings(r.value)]
      [] OTHER -> [cfg EXCEPT !.topics = r.value]

\* A request that is not accepted changes nothing.
Call(t, r) ==
    /\ cfg # None /\ pc[t] = "idle" /\ Accepted(r)
    /\ calls < MaxCalls /\ calls' = calls + 1
    /\ reason' = [reason EXCEPT ![t] = r.key]
    /\ SetKey(t, r.key, Stored(r), "load")
    /\ lone' = AtRest
    /\ held' = IF AtRest /\ lone THEN cfg ELSE None
    /\ due' = IF AtRest /\ lone THEN Asked(r) ELSE None
    /\ UNCHANGED <<cfg, diskVars, snap, fd, view, tops, faults, crashes>>

\* (mutant: at a start the settings are taken from bindings_json)
LoadBindings(t) ==
    /\ Goto(t, "load", "settings")
    /\ view' = [view EXCEPT ![t] = IF reason[t] \in {"bindings", "init"}
                                   THEN FromBindings(ParsedBindings(data.bindings))
                                   ELSE ParsedSettings(data.settings)]
    /\ UNCHANGED <<data, cfg, diskVars, ret, reason, snap, fd, tops>> /\ NoFault

\* reloadRuntimeConfig starts from the key that was set, or from settings_json.
Load(t) ==
    /\ pc[t] = "load"
    /\ IF reason[t] = "bindings"
       THEN /\ view' = [view EXCEPT ![t] = FromBindings(ParsedBindings(data.bindings))]
            /\ Goto(t, "load", "settings")
       ELSE /\ view' = [view EXCEPT ![t] = ParsedSettings(data.settings)]
            /\ Goto(t, "load", IF view'[t] = data.settings THEN "bindings" ELSE "settings")
    /\ UNCHANGED <<data, cfg, diskVars, ret, reason, snap, fd, tops>> /\ NoFault

StoreSettings(t) ==
    /\ pc[t] = "settings"
    /\ SetIfChanged(t, "settings", view[t], "bindings")
    /\ UNCHANGED <<cfg, diskVars, reason, snap, fd, view, tops>> /\ NoFault

StoreBindings(t) ==
    /\ pc[t] = "bindings"
    /\ SetIfChanged(t, "bindings", ToBindings(view[t]), "topics")
    /\ UNCHANGED <<cfg, diskVars, reason, snap, fd, view, tops>> /\ NoFault

ReadTopics(t) ==
    /\ Goto(t, "topics", "storeTopics")
    /\ tops' = [tops EXCEPT ![t] = ParsedTopics(data.topics)]
    /\ UNCHANGED <<data, cfg, diskVars, ret, reason, snap, fd, view>> /\ NoFault

StoreTopics(t) ==
    /\ pc[t] = "storeTopics"
    /\ SetIfChanged(t, "topics", tops[t], "apply")
    /\ UNCHANGED <<cfg, diskVars, reason, snap, fd, view, tops>> /\ NoFault

\* r.cfg is replaced as a whole.
Apply(t) ==
    /\ Goto(t, "apply", "idle")
    /\ cfg' = [settings |-> view[t], topics |-> tops[t]]
    /\ view' = [view EXCEPT ![t] = None] /\ tops' = [tops EXCEPT ![t] = NoTopics]
    /\ reason' = [reason EXCEPT ![t] = "init"]
    /\ held' = IF lone THEN cfg' ELSE None
    /\ due' = held'
    /\ UNCHANGED <<data, diskVars, ret, snap, fd, lone, counters>>

-----------------------------------------------------------------------------
\* configstore.New and initRuntimeConfig, in a process that starts.

\* The defaults, and over them what the file says if it can be read.
Loaded(contents) ==
    IF contents \in Data THEN contents
    ELSE [settings |-> None, bindings |-> DefaultBindings, topics |-> NoTopics]

Boot(t) ==
    /\ data = None
    /\ data' = Loaded(file)
    /\ pc' = [pc EXCEPT ![t] = "snapshot"] /\ ret' = [ret EXCEPT ![t] = "migrate"]
    /\ lone' = TRUE
    /\ UNCHANGED <<cfg, diskVars, reason, snap, fd, view, tops, counters, held, due>>

\* Default bindings of a former version become the present ones.
Migrate(t) ==
    /\ pc[t] = "migrate"
    /\ IF data.bindings \in Legacy
       THEN SetKey(t, "bindings", DefaultBindings, "derive")
       ELSE Goto(t, "migrate", "derive") /\ UNCHANGED <<data, ret>>
    /\ UNCHANGED <<cfg, diskVars, reason, snap, fd, view, tops>> /\ NoFault

\* settings_json, if the file is from a version that had none.
Derive(t) ==
    /\ pc[t] = "derive"
    /\ IF data.settings = None
       THEN SetKey(t, "settings", FromBindings(ParsedBindings(data.bindings)), "load")
       ELSE Goto(t, "derive", "load") /\ UNCHANGED <<data, ret>>
    /\ UNCHANGED <<cfg, diskVars, reason, snap, fd, view, tops>> /\ NoFault

\* The process ends, at any step; the files stay.
Crash ==
    /\ data # None
    /\ crashes < MaxCrashes /\ crashes' = crashes + 1
    /\ data' = None /\ cfg' = None
    /\ pc' = Everywhere("idle") /\ ret' = Everywhere("idle") /\ reason' = Everywhere("init")
    /\ snap' = Everywhere(None) /\ fd' = Everywhere("none")
    /\ view' = Everywhere(None) /\ tops' = Everywhere(NoTopics)
    /\ UNCHANGED <<diskVars, calls, faults, history>>

-----------------------------------------------------------------------------
SaveStep(t) ==
    Snapshot(t) \/ Open(t) \/ Fill(t) \/ Rename(t) \/ Remove(t) \/ RenameAgain(t)

ReloadStep(t) ==
    \/ Load(t) \/ StoreSettings(t) \/ StoreBindings(t)
    \/ ReadTopics(t) \/ StoreTopics(t) \/ Apply(t)

StartStep(t) == Boot(t) \/ Migrate(t) \/ Derive(t)

Next ==
    \/ \E t \in Threads : SaveStep(t) \/ ReloadStep(t) \/ StartStep(t)
    \/ \E t \in Threads, r \in Requests : Call(t, r)
    \/ Crash

Spec == Init /\ [][Next]_vars

-----------------------------------------------------------------------------
\* Properties.

\* The two forms of the metrics' configuration, what is in force, and what a restart
\* will find.  A call that ran alone and met no fault leaves all of them in agreement,
\* whatever overlapping and failing calls left before it.
Settled ==
    /\ Valid(data.settings)
    /\ data.bindings = ToBindings(data.settings)
    /\ cfg = [settings |-> data.settings, topics |-> data.topics]
    /\ file = data

LoneCallSettles == cfg # None /\ AtRest /\ lone => Settled

\* docs/requirements/notify-node.md: settings survive a restart.  What a lone call asked
\* for is what comes into force, and what every later start finds; after a crash in
\* the middle of the call a start finds that, or what was in force before.
Applies(t) == pc[t] = "apply" /\ pc'[t] = "idle" /\ cfg' # None

SetIsAtomic ==
    [][(\E t \in Threads : Applies(t)) /\ due # None =>
           cfg' \in IF cfg = None THEN {held, due} ELSE {due}]_vars

\* docs/requirements/notify-node.md: "Topic settings are persisted in local runtime
\* config and survive app restart."  So what is in force at rest is in the file.
TopicsSurvive ==
    cfg # None /\ AtRest /\ faults = 0 => file \in Data /\ file.topics = cfg.topics
=============================================================================
