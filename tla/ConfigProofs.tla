---------------------------- MODULE ConfigProofs ----------------------------
(***************************************************************************)
(* Theorems about Config: types, what a call that runs alone leaves, and   *)
(* what a crash in the middle of one leaves.                               *)
(***************************************************************************)
EXTENDS Config, TLAPS

-----------------------------------------------------------------------------
(***************************************************************************)
(* The conversions between settings and bindings.                          *)
(***************************************************************************)
LEMMA ToBindingsType ==
    ASSUME NEW s \in AllSettings
    PROVE  ToBindings(s) \in AllBindings
  BY DEF ToBindings, AllBindings, AllSettings, Setting

LEMMA FromBindingsRows ==
    ASSUME NEW b \in AllBindings
    PROVE  /\ FromBindings(b) \in AllSettings
           /\ \A m \in Metrics : /\ FromBindings(b)[m].enabled = (b[m] # None)
                                 /\ b[m] # None => FromBindings(b)[m].var = b[m]
                                 /\ FromBindings(b)[m].writable = (m \in Controllable)
  BY ConfigAssumption DEF FromBindings, AllBindings, AllSettings, Setting

LEMMA ToFrom ==
    ASSUME NEW b \in AllBindings
    PROVE  ToBindings(FromBindings(b)) = b
<1>1. ToBindings(FromBindings(b)) = [m \in Metrics |-> b[m]]
  BY FromBindingsRows DEF ToBindings
<1> QED
  BY <1>1 DEF AllBindings

LEMMA FromBindingsValid ==
    ASSUME NEW b \in AllBindings, Injective(b)
    PROVE  Valid(FromBindings(b))
  BY FromBindingsRows, ToFrom DEF Valid

LEMMA DefaultsValid ==
    /\ DefaultBindings \in AllBindings /\ Injective(DefaultBindings)
    /\ Valid(DefaultSettings)
<1>1. DefaultBindings \in AllBindings /\ Injective(DefaultBindings)
  BY ConfigAssumption DEF DefaultBindings, AllBindings, Injective
<1> QED
  BY <1>1, FromBindingsValid DEF DefaultSettings

\* What is read from the store is a valid configuration, whatever it holds.
LEMMA ParsedValid ==
    ASSUME NEW d \in Data
    PROVE  /\ Valid(ParsedSettings(d.settings)) /\ ParsedSettings(d.settings) \in AllSettings
           /\ ParsedBindings(d.bindings) \in AllBindings
           /\ Injective(ParsedBindings(d.bindings))
           /\ Valid(FromBindings(ParsedBindings(d.bindings)))
           /\ FromBindings(ParsedBindings(d.bindings)) \in AllSettings
           /\ ParsedTopics(d.topics) \in Topics
<1>1. /\ d.settings \in AllSettings \cup {None, Bad}
      /\ d.bindings \in AllBindings \cup {Bad}
      /\ d.topics \in Topics \cup {Bad}
  BY DEF Data
<1>2. Valid(ParsedSettings(d.settings))
  BY DefaultsValid DEF ParsedSettings
<1>3. /\ ParsedBindings(d.bindings) \in AllBindings
      /\ Injective(ParsedBindings(d.bindings))
  BY <1>1, DefaultsValid DEF ParsedBindings
<1>4. ParsedTopics(d.topics) \in Topics
  BY <1>1, ConfigAssumption DEF ParsedTopics
<1> QED
  BY <1>2, <1>3, <1>4, FromBindingsValid, FromBindingsRows DEF Valid

\* RuntimeConfigSet stores only what a reload will read as it is.
LEMMA StoredValid ==
    ASSUME NEW r \in Requests, Accepted(r)
    PROVE  /\ r.key \in Keys
           /\ r.key = "settings" => Valid(Stored(r)) /\ Stored(r) \in AllSettings
           /\ r.key = "bindings" => /\ Stored(r) = r.value /\ r.value \in AllBindings
                                    /\ Injective(r.value)
           /\ r.key = "topics" => Stored(r) = r.value /\ r.value \in Topics
<1>1. r.key \in Keys
  BY ConfigAssumption
<1> QED
  BY <1>1 DEF Accepted, Stored, Valid, Keys

LEMMA AskedType ==
    ASSUME NEW r \in Requests, Accepted(r), cfg \in Cfgs
    PROVE  Asked(r) \in Cfgs
<1>1. /\ r.key \in Keys
      /\ r.key = "settings" => Asked(r) = [cfg EXCEPT !.settings = Stored(r)]
      /\ r.key = "bindings" => Asked(r) = [cfg EXCEPT !.settings = FromBindings(r.value)]
      /\ r.key = "topics" => Asked(r) = [cfg EXCEPT !.topics = r.value]
  BY StoredValid DEF Asked, Keys
<1>2. /\ \A s \in AllSettings : [cfg EXCEPT !.settings = s] \in Cfgs
      /\ \A u \in Topics : [cfg EXCEPT !.topics = u] \in Cfgs
  BY DEF Cfgs
<1>3. CASE r.key = "settings"
  BY <1>1, <1>2, <1>3, StoredValid
<1>4. CASE r.key = "bindings"
  BY <1>1, <1>2, <1>4, StoredValid, FromBindingsRows
<1>5. CASE r.key = "topics"
  BY <1>1, <1>2, <1>5, StoredValid
<1> QED
  BY <1>1, <1>3, <1>4, <1>5 DEF Keys

\* Store.Set of one key.
LEMMA SetKeyData ==
    ASSUME NEW d \in Data
    PROVE  /\ \A s \in AllSettings : LET e == [d EXCEPT !["settings"] = s]
                                     IN  e \in Data /\ e.settings = s /\ e.bindings = d.bindings /\ e.topics = d.topics
           /\ \A b \in AllBindings : LET e == [d EXCEPT !["bindings"] = b]
                                     IN  e \in Data /\ e.bindings = b /\ e.settings = d.settings /\ e.topics = d.topics
           /\ \A u \in Topics : LET e == [d EXCEPT !["topics"] = u]
                                IN  e \in Data /\ e.topics = u /\ e.settings = d.settings /\ e.bindings = d.bindings
  BY DEF Data

-----------------------------------------------------------------------------
(***************************************************************************)
(* Type correctness.  A thread that is to store its view has one; and only *)
(* a process that has loaded its store has threads at work.                *)
(***************************************************************************)
Busy(t) == pc[t] # "idle"

\* Where a thread is, or where it goes on once it has saved.
At(t) == IF pc[t] \in Saving THEN ret[t] ELSE pc[t]

Viewing == {"settings", "bindings", "topics", "storeTopics", "apply"}

HasView == \A t \in Threads : At(t) \in Viewing => view[t] \in AllSettings

Running ==
    /\ data = None => cfg = None /\ \A t \in Threads : ~Busy(t)
    /\ cfg = None => \A t \in Threads : reason[t] = "init"

TInv == TypeOK /\ HasView /\ Running

LEMMA TypeInit == Init => TInv
<1> SUFFICES ASSUME Init PROVE TInv
  OBVIOUS
<1>1. TypeOK
  BY ConfigAssumption DEF Init, TypeOK, Everywhere, Contents, Labels
<1>2. HasView /\ Running
  BY DEF Init, HasView, Running, At, Busy, Viewing, Saving, Everywhere
<1> QED
  BY <1>1, <1>2 DEF TInv

LEMMA WorkData == None \notin Data
  BY ConfigAssumption

\* A step of a thread at work.
LEMMA WorkStays ==
    ASSUME TInv, NEW t \in Threads, Busy(t)
    PROVE  /\ data \in Data /\ None \notin Data
           /\ UNCHANGED <<data, cfg, reason>> => Running'
           /\ data' \in Data /\ UNCHANGED <<cfg, reason>> => Running'
  BY ConfigAssumption DEF TInv, TypeOK, Running, Busy

LEMMA ViewsStay ==
    ASSUME TInv, UNCHANGED view, \A u \in Threads : At(u)' \in Viewing => At(u) \in Viewing
    PROVE  HasView'
  BY DEF TInv, HasView

LEMMA NoFaultType ==
    ASSUME TInv, NoFault \/ Fault
    PROVE  /\ calls' \in Nat /\ faults' \in Nat /\ crashes' \in Nat /\ lone' \in BOOLEAN
           /\ held' \in Cfgs \cup {None} /\ due' \in Cfgs \cup {None}
<1>1. /\ calls \in Nat /\ faults \in Nat /\ crashes \in Nat /\ lone \in BOOLEAN
      /\ held \in Cfgs \cup {None} /\ due \in Cfgs \cup {None}
  BY DEF TInv, TypeOK
<1>2. CASE NoFault
  <2>1. UNCHANGED <<calls, faults, crashes>> /\ UNCHANGED <<lone, held, due>>
    BY <1>2 DEF NoFault, counters, history
  <2>2. calls' \in Nat /\ faults' \in Nat /\ crashes' \in Nat
    BY <1>1, <2>1
  <2>3. lone' = lone /\ held' = held /\ due' = due
    BY <2>1, Zenon
  <2>4. lone' \in BOOLEAN
    BY <1>1, <2>3, Zenon
  <2>5. held' \in Cfgs \cup {None} /\ due' \in Cfgs \cup {None}
    BY <1>1, <2>3
  <2> QED
    BY <2>2, <2>4, <2>5
<1>3. CASE Fault
  <2>1. lone' \in BOOLEAN
    BY <1>3, Zenon DEF Fault
  <2>2. calls' \in Nat /\ faults' \in Nat /\ crashes' \in Nat
    BY <1>1, <1>3 DEF Fault
  <2>3. held' \in Cfgs \cup {None} /\ due' \in Cfgs \cup {None}
    BY <1>3 DEF Fault
  <2> QED
    BY <2>1, <2>2, <2>3
<1> QED
  BY <1>2, <1>3

LEMMA GotoAt ==
    ASSUME TInv, NEW t \in Threads, NEW from \in Labels, NEW to \in Labels,
           Goto(t, from, to), UNCHANGED ret
    PROVE  /\ pc' \in [Threads -> Labels] /\ ret' \in [Threads -> Labels]
           /\ pc[t] = from /\ pc'[t] = to
           /\ \A u \in Threads \ {t} : pc'[u] = pc[u] /\ At(u)' = At(u)
  BY DEF TInv, TypeOK, Goto, At

LEMMA SaveEndsType ==
    ASSUME TInv, NEW t \in Threads, pc[t] \in Saving, NEW ok \in BOOLEAN, SaveEnds(t, ok)
    PROVE  /\ pc' \in [Threads -> Labels] /\ ret' \in [Threads -> Labels]
           /\ snap' \in [Threads -> Data \cup {None}]
           /\ \A u \in Threads : At(u)' \in Viewing => At(u) \in Viewing
<1>1. /\ pc \in [Threads -> Labels] /\ ret \in [Threads -> Labels]
      /\ snap \in [Threads -> Data \cup {None}]
  BY DEF TInv, TypeOK
<1>2. "idle" \in Labels /\ "idle" \notin Viewing
  BY DEF Labels, Viewing
<1> QED
  BY <1>1, <1>2 DEF SaveEnds, At

\* save and writeFileAtomic.
LEMMA SaveStepType ==
    ASSUME TInv, NEW t \in Threads, SaveStep(t)
    PROVE  TInv'
<1>1. Busy(t) /\ pc[t] \in Saving /\ UNCHANGED <<data, cfg, reason, view, tops>>
  BY DEF SaveStep, Snapshot, Open, Fill, Rename, Remove, RenameAgain, Goto, Saving, Busy
<1>2. Running' /\ data \in Data
  BY <1>1, WorkStays
<1>3. NoFault \/ Fault
  BY DEF SaveStep, Snapshot, Open, Fill, Rename, Remove, RenameAgain, RenameDone
<1>4. /\ snap[t] \in Data \cup {None} /\ file \in Contents /\ tmp \in Contents
      /\ None \in Contents /\ Empty \in Contents /\ Torn \in Contents
      /\ snap \in [Threads -> Data \cup {None}]
      /\ fd \in [Threads -> {"none", "tmp", "file", "gone"}]
  BY DEF TInv, TypeOK, Contents
<1>5. \A old \in Contents : Written(old, snap[t]) \subseteq Contents
  BY <1>4 DEF Written, Contents
<1>6. file' \in Contents /\ tmp' \in Contents
  BY <1>4, <1>5 DEF SaveStep, Snapshot, Open, Fill, Rename, Remove, RenameAgain, RenameDone, diskVars
<1>7. fd' \in [Threads -> {"none", "tmp", "file", "gone"}]
  <2>1. Moved \in [Threads -> {"none", "tmp", "file", "gone"}]
    BY <1>4 DEF Moved
  <2>2. \A name : Unlinked(name) \in [Threads -> {"none", "tmp", "file", "gone"}]
    BY <1>4 DEF Unlinked
  <2> QED
    BY <1>4, <2>1, <2>2 DEF SaveStep, Snapshot, Open, Fill, Rename, Remove, RenameAgain, RenameDone
<1>8. /\ pc' \in [Threads -> Labels] /\ ret' \in [Threads -> Labels]
      /\ snap' \in [Threads -> Data \cup {None}]
      /\ \A u \in Threads : At(u)' \in Viewing => At(u) \in Viewing
  <2>1. CASE SaveEnds(t, TRUE) \/ SaveEnds(t, FALSE)
    BY <1>1, <2>1, SaveEndsType
  <2>2. CASE /\ \E from, to \in Saving : Goto(t, from, to)
             /\ UNCHANGED ret
             /\ snap' \in [Threads -> Data \cup {None}]
    <3>1. Saving \subseteq Labels
      BY DEF Labels
    <3>2. pc[t] \in Saving /\ pc'[t] \in Saving
      BY <2>2, <3>1, GotoAt
    <3> QED
      BY <2>2, <3>1, <3>2, GotoAt DEF At
  <2>3. CASE Snapshot(t)
    BY <1>2, <1>4, <2>2, <2>3 DEF Snapshot, Saving
  <2>4. ASSUME ~Snapshot(t) PROVE \/ SaveEnds(t, TRUE) \/ SaveEnds(t, FALSE)
                                  \/ /\ \E from, to \in Saving : Goto(t, from, to)
                                     /\ UNCHANGED <<ret, snap>>
    BY <2>4 DEF SaveStep, Open, Fill, Rename, Remove, RenameAgain, RenameDone, Saving
  <2> QED
    BY <1>4, <2>1, <2>2, <2>3, <2>4
<1>9. HasView'
  BY <1>1, <1>8, ViewsStay
<1>10. TypeOK'
  BY <1>1, <1>3, <1>6, <1>7, <1>8, NoFaultType DEF TInv, TypeOK
<1> QED
  BY <1>2, <1>9, <1>10 DEF TInv

\* A value for a key.
Fits(key, value) ==
    \/ key = "settings" /\ value \in AllSettings
    \/ key = "bindings" /\ value \in AllBindings
    \/ key = "topics" /\ value \in Topics

LEMMA SetKeyType ==
    ASSUME TypeOK, data \in Data, NEW t \in Threads, NEW key, NEW value, Fits(key, value),
           NEW next \in Labels \ Saving, SetKey(t, key, value, next)
    PROVE  /\ data' \in Data
           /\ pc' \in [Threads -> Labels] /\ ret' \in [Threads -> Labels]
           /\ pc'[t] = "snapshot" /\ ret'[t] = next /\ At(t)' = next
           /\ \A u \in Threads \ {t} : pc'[u] = pc[u] /\ At(u)' = At(u)
<1>1. data' \in Data
  BY SetKeyData DEF Fits, SetKey
<1>2. pc \in [Threads -> Labels] /\ ret \in [Threads -> Labels] /\ "snapshot" \in Labels \cap Saving
  BY DEF TypeOK, Labels, Saving
<1> QED
  BY <1>1, <1>2 DEF SetKey, At

LEMMA SetIfChangedType ==
    ASSUME TypeOK, data \in Data, NEW t \in Threads, NEW key, NEW value, Fits(key, value),
           NEW next \in Labels \ Saving, SetIfChanged(t, key, value, next)
    PROVE  /\ data' \in Data
           /\ pc' \in [Threads -> Labels] /\ ret' \in [Threads -> Labels]
           /\ At(t)' = next
           /\ \A u \in Threads \ {t} : pc'[u] = pc[u] /\ At(u)' = At(u)
<1>1. CASE SetKey(t, key, value, next)
  BY <1>1, SetKeyType
<1>2. CASE pc' = [pc EXCEPT ![t] = next] /\ UNCHANGED <<data, ret>>
  BY <1>2 DEF TypeOK, At
<1> QED
  BY <1>1, <1>2 DEF SetIfChanged

\* reloadRuntimeConfig, up to the last step.
LEMMA ReloadStepType ==
    ASSUME TInv, NEW t \in Threads,
           Load(t) \/ StoreSettings(t) \/ StoreBindings(t) \/ ReadTopics(t) \/ StoreTopics(t)
    PROVE  TInv'
<1>1. /\ Busy(t) /\ NoFault
      /\ UNCHANGED <<cfg, file, tmp, reason, snap, fd>>
  BY DEF Load, StoreSettings, StoreBindings, ReadTopics, StoreTopics, Goto, Busy, diskVars
<1>2. data \in Data
  BY <1>1, WorkStays
<1>3. {"load", "settings", "bindings", "topics", "storeTopics", "apply"} \subseteq Labels \ Saving
  BY DEF Labels, Saving
<1>4. /\ data' \in Data
      /\ pc' \in [Threads -> Labels] /\ ret' \in [Threads -> Labels]
      /\ view' \in [Threads -> AllSettings \cup {None}]
      /\ tops' \in [Threads -> Topics]
      /\ view'[t] \in AllSettings
      /\ \A u \in Threads \ {t} : At(u)' = At(u) /\ view'[u] = view[u]
  <2>1. view \in [Threads -> AllSettings \cup {None}] /\ tops \in [Threads -> Topics]
    BY DEF TInv, TypeOK
  <2>2. CASE Load(t)
    <3>1. view' = [view EXCEPT ![t] = view'[t]] /\ view'[t] \in AllSettings
      BY <1>2, <2>1, <2>2, ParsedValid DEF Load
    <3>2. /\ pc' \in [Threads -> Labels] /\ ret' \in [Threads -> Labels]
          /\ \A u \in Threads \ {t} : At(u)' = At(u)
      BY <1>3, <2>2, GotoAt DEF Load
    <3> QED
      BY <1>2, <2>1, <2>2, <3>1, <3>2 DEF Load
  <2>3. CASE ReadTopics(t)
    <3>1. tops' \in [Threads -> Topics] /\ UNCHANGED <<data, view, ret>>
      BY <1>2, <2>1, <2>3, ParsedValid DEF ReadTopics
    <3>2. /\ pc' \in [Threads -> Labels] /\ ret' \in [Threads -> Labels] /\ pc[t] = "topics"
          /\ \A u \in Threads \ {t} : At(u)' = At(u)
      BY <1>3, <2>3, GotoAt DEF ReadTopics
    <3>3. view[t] \in AllSettings
      BY <3>2 DEF TInv, HasView, At, Viewing, Saving
    <3> QED
      BY <1>2, <2>1, <3>1, <3>2, <3>3
  <2>4. ASSUME StoreSettings(t) \/ StoreBindings(t) \/ StoreTopics(t)
        PROVE  UNCHANGED <<view, tops>> /\ view[t] \in AllSettings
    BY <2>4 DEF StoreSettings, StoreBindings, StoreTopics, TInv, HasView, At, Viewing, Saving
  <2>5. CASE StoreSettings(t)
    <3>1. Fits("settings", view[t])
      BY <2>4, <2>5 DEF Fits
    <3> QED
      BY <1>2, <1>3, <2>1, <2>4, <2>5, <3>1, SetIfChangedType DEF StoreSettings, TInv
  <2>6. CASE StoreBindings(t)
    <3>1. Fits("bindings", ToBindings(view[t]))
      BY <2>4, <2>6, ToBindingsType DEF Fits
    <3> QED
      BY <1>2, <1>3, <2>1, <2>4, <2>6, <3>1, SetIfChangedType DEF StoreBindings, TInv
  <2>7. CASE StoreTopics(t)
    <3>1. Fits("topics", tops[t])
      BY <2>1 DEF Fits
    <3> QED
      BY <1>2, <1>3, <2>1, <2>4, <2>7, <3>1, SetIfChangedType DEF StoreTopics, TInv
  <2> QED
    BY <2>2, <2>3, <2>5, <2>6, <2>7
<1>5. Running'
  BY <1>1, <1>4, WorkStays
<1>6. HasView'
  BY <1>4 DEF TInv, HasView
<1>7. TypeOK'
  BY <1>1, <1>4, NoFaultType DEF TInv, TypeOK
<1> QED
  BY <1>5, <1>6, <1>7 DEF TInv

\* ... which puts a configuration in force.
LEMMA ApplyType ==
    ASSUME TInv, NEW t \in Threads, Apply(t)
    PROVE  TInv' /\ view[t] \in AllSettings /\ cfg' \in Cfgs
<1>1. view[t] \in AllSettings /\ Busy(t) /\ data \in Data /\ None \notin Data
  <2>1. pc[t] = "apply"
    BY DEF Apply, Goto
  <2> QED
    BY <2>1, WorkStays DEF TInv, HasView, At, Viewing, Saving, Busy
<1>2. cfg' \in Cfgs
  BY <1>1 DEF Apply, Cfgs, TInv, TypeOK
<1>3. cfg' # None
  BY <1>2, CfgAssumption
<1>4. Running'
  BY <1>1, <1>3 DEF Running, Apply
<1>5. /\ pc' \in [Threads -> Labels] /\ ret' \in [Threads -> Labels]
      /\ pc'[t] = "idle" /\ \A u \in Threads \ {t} : At(u)' = At(u)
  BY GotoAt DEF Apply, Labels
<1>6. HasView'
  <2>1. \A u \in Threads \ {t} : view'[u] = view[u]
    BY DEF Apply, TInv, TypeOK
  <2>2. At(t)' \notin Viewing
    BY <1>5 DEF At, Saving, Viewing
  <2> QED
    BY <1>5, <2>1, <2>2 DEF TInv, HasView
<1>7. /\ held' \in Cfgs \cup {None} /\ due' \in Cfgs \cup {None}
      /\ calls' \in Nat /\ faults' \in Nat /\ crashes' \in Nat
  BY <1>2 DEF Apply, TInv, TypeOK, counters
<1>8. lone' \in BOOLEAN
  BY Zenon DEF Apply, TInv, TypeOK
<1>9. /\ view' \in [Threads -> AllSettings \cup {None}] /\ tops' \in [Threads -> Topics]
      /\ reason' \in [Threads -> Keys \cup {"init"}]
      /\ UNCHANGED <<data, file, tmp, snap, fd>>
  BY ConfigAssumption DEF Apply, TInv, TypeOK, diskVars
<1>10. TypeOK'
  BY <1>2, <1>5, <1>7, <1>8, <1>9 DEF TInv, TypeOK
<1> QED
  BY <1>1, <1>2, <1>4, <1>6, <1>10 DEF TInv

\* RuntimeConfigSet begins.
LEMMA CallType ==
    ASSUME TInv, NEW t \in Threads, NEW r \in Requests, Call(t, r)
    PROVE  /\ TInv'
           /\ data \in Data /\ data' \in Data /\ cfg \in Cfgs /\ Asked(r) \in Cfgs
           /\ Fits(r.key, Stored(r))
           /\ pc'[t] = "snapshot" /\ ret'[t] = "load" /\ At(t)' = "load"
           /\ \A u \in Threads \ {t} : pc'[u] = pc[u] /\ At(u)' = At(u)
<1>1. data \in Data /\ cfg \in Cfgs /\ data # None
  BY CfgAssumption DEF Call, TInv, TypeOK, Running
<1>2. Fits(r.key, Stored(r)) /\ r.key \in Keys
  BY StoredValid DEF Call, Fits, Keys
<1>3. "load" \in Labels \ Saving
  BY DEF Labels, Saving
<1>4. /\ data' \in Data
      /\ pc' \in [Threads -> Labels] /\ ret' \in [Threads -> Labels]
      /\ pc'[t] = "snapshot" /\ ret'[t] = "load" /\ At(t)' = "load"
      /\ \A u \in Threads \ {t} : pc'[u] = pc[u] /\ At(u)' = At(u)
  BY <1>1, <1>2, <1>3, SetKeyType DEF Call, TInv
<1>5. Asked(r) \in Cfgs
  BY <1>1, AskedType DEF Call
<1>6. UNCHANGED <<cfg, file, tmp, snap, fd, view, tops, faults, crashes>>
  BY DEF Call, diskVars
<1>7. HasView'
  <2>1. At(t)' \notin Viewing
    BY <1>4 DEF Viewing
  <2> QED
    BY <1>4, <1>6, <2>1 DEF TInv, HasView
<1>8. Running'
  BY <1>1, <1>4, <1>6, WorkData, CfgAssumption DEF Running
<1>9. calls' \in Nat /\ reason' \in [Threads -> Keys \cup {"init"}]
  BY <1>2 DEF Call, TInv, TypeOK
<1>10. held' \in Cfgs \cup {None} /\ due' \in Cfgs \cup {None}
  BY <1>1, <1>5 DEF Call
<1>11. lone' \in BOOLEAN
  BY Zenon DEF Call, AtRest
<1>12. TypeOK'
  BY <1>4, <1>6, <1>9, <1>10, <1>11 DEF TInv, TypeOK
<1> QED
  BY <1>1, <1>2, <1>4, <1>5, <1>7, <1>8, <1>12 DEF TInv

\* configstore.New.
LEMMA BootType ==
    ASSUME TInv, NEW t \in Threads, Boot(t)
    PROVE  /\ TInv' /\ data' \in Data
           /\ pc'[t] = "snapshot" /\ ret'[t] = "migrate" /\ At(t)' = "migrate"
           /\ \A u \in Threads : ~Busy(u)
           /\ \A u \in Threads \ {t} : pc'[u] = pc[u] /\ At(u)' = At(u)
<1>1. data' \in Data
  BY DefaultsValid, ConfigAssumption DEF Boot, Loaded, Data
<1>2. /\ pc' \in [Threads -> Labels] /\ ret' \in [Threads -> Labels]
      /\ pc'[t] = "snapshot" /\ ret'[t] = "migrate" /\ At(t)' = "migrate"
      /\ \A u \in Threads \ {t} : pc'[u] = pc[u] /\ At(u)' = At(u)
  BY DEF Boot, TInv, TypeOK, At, Labels, Saving
<1>3. \A u \in Threads : ~Busy(u)
  BY DEF Boot, TInv, Running
<1>4. UNCHANGED <<cfg, file, tmp, reason, snap, fd, view, tops, calls, faults, crashes, held, due>>
  BY DEF Boot, diskVars, counters
<1>5. HasView' /\ Running'
  BY <1>1, <1>2, <1>4, WorkData DEF TInv, HasView, Running, Viewing
<1>6. lone' \in BOOLEAN
  BY Zenon DEF Boot
<1>7. TypeOK'
  BY <1>1, <1>2, <1>4, <1>6 DEF TInv, TypeOK
<1> QED
  BY <1>1, <1>2, <1>3, <1>5, <1>7 DEF TInv

\* initRuntimeConfig, before its reload.
LEMMA MigrateType ==
    ASSUME TInv, NEW t \in Threads, Migrate(t) \/ Derive(t)
    PROVE  TInv'
<1>1. /\ Busy(t) /\ NoFault
      /\ UNCHANGED <<cfg, file, tmp, reason, snap, fd, view, tops>>
  BY DEF Migrate, Derive, Goto, Busy, diskVars
<1>2. data \in Data
  BY <1>1, WorkStays
<1>3. {"migrate", "derive", "load"} \subseteq Labels \ (Saving \cup Viewing)
  BY DEF Labels, Saving, Viewing
<1> DEFINE Typed == /\ data' \in Data
                    /\ pc' \in [Threads -> Labels] /\ ret' \in [Threads -> Labels]
                    /\ At(t)' \notin Viewing
                    /\ \A u \in Threads \ {t} : At(u)' = At(u)
<1>4. Typed
  <2>1. ASSUME NEW from \in {"migrate", "derive"}, NEW to \in {"derive", "load"},
               Goto(t, from, to), UNCHANGED <<data, ret>>
        PROVE  Typed
    BY <1>2, <1>3, <2>1, GotoAt DEF At
  <2>2. Fits("bindings", DefaultBindings)
    BY DefaultsValid DEF Fits
  <2>3. Fits("settings", FromBindings(ParsedBindings(data.bindings)))
    BY <1>2, ParsedValid DEF Fits
  <2>4. ASSUME NEW key, NEW value, Fits(key, value), NEW next \in {"derive", "load"}, SetKey(t, key, value, next)
        PROVE  Typed
    BY <1>2, <1>3, <2>4, SetKeyType DEF TInv
  <2> HIDE DEF Typed
  <2> QED
    BY <2>1, <2>2, <2>3, <2>4 DEF Migrate, Derive
<1>5. Running'
  BY <1>1, <1>4, WorkStays
<1>6. HasView'
  BY <1>1, <1>4 DEF TInv, HasView
<1>7. TypeOK'
  BY <1>1, <1>4, NoFaultType DEF TInv, TypeOK
<1> QED
  BY <1>5, <1>6, <1>7 DEF TInv

LEMMA CrashType ==
    ASSUME TInv, Crash
    PROVE  TInv' /\ data' = None /\ cfg' = None /\ \A t \in Threads : pc'[t] = "idle"
<1>1. /\ pc' = [t \in Threads |-> "idle"] /\ reason' = [t \in Threads |-> "init"]
      /\ data' = None /\ cfg' = None
  BY DEF Crash, Everywhere
<1>2. HasView' /\ Running'
  BY <1>1 DEF HasView, Running, At, Busy, Viewing, Saving
<1>3. UNCHANGED <<file, tmp, calls, faults, held, due>> /\ crashes' \in Nat
  BY DEF Crash, diskVars, history, TInv, TypeOK
<1>4. lone' \in BOOLEAN
  BY Zenon DEF Crash, history, TInv, TypeOK
<1>5. /\ ret' \in [Threads -> Labels] /\ snap' \in [Threads -> Data \cup {None}]
      /\ fd' \in [Threads -> {"none", "tmp", "file", "gone"}]
      /\ view' \in [Threads -> AllSettings \cup {None}] /\ tops' \in [Threads -> Topics]
      /\ "idle" \in Labels
  BY ConfigAssumption DEF Crash, Everywhere, Labels
<1>6. TypeOK'
  BY <1>1, <1>3, <1>4, <1>5 DEF TInv, TypeOK
<1> QED
  BY <1>1, <1>2, <1>6 DEF TInv

LEMMA TypeInductive == TInv /\ [Next]_vars => TInv'
<1> SUFFICES ASSUME TInv, [Next]_vars PROVE TInv'
  OBVIOUS
<1>1. CASE UNCHANGED vars
  <2>1. /\ UNCHANGED <<data, cfg, file, tmp, pc, ret, reason, snap, fd, view, tops>>
        /\ UNCHANGED <<calls, faults, crashes, held, due>> /\ lone' = lone
    BY <1>1, Zenon DEF vars, diskVars, localVars, counters, history
  <2>2. lone' \in BOOLEAN
    BY <2>1, Zenon DEF TInv, TypeOK
  <2>3. TypeOK'
    BY <2>1, <2>2 DEF TInv, TypeOK
  <2> QED
    BY <2>1, <2>3 DEF TInv, HasView, Running, At, Busy
<1> QED
  BY <1>1, SaveStepType, ReloadStepType, ApplyType, BootType, MigrateType, CallType, CrashType
  DEF Next, ReloadStep, StartStep

\* Every variable keeps its type: what overlapping and failing writers leave in the files
\* is a snapshot of the store or less, and what is in force is always a configuration
\* (store.go, reloadRuntimeConfig).
THEOREM TypeCorrect == Spec => []TypeOK
<1>1. TInv => TypeOK
  BY DEF TInv
<1> QED
  BY <1>1, TypeInit, TypeInductive, PTL DEF Spec

-----------------------------------------------------------------------------
(***************************************************************************)
(* A call or a start that runs alone.  What it has stored so far is in     *)
(* memory and, as soon as it has saved, in the file; nobody else has a     *)
(* file open, and what it stores next is a function of what it has read.   *)
(***************************************************************************)
Alone == \A t, u \in Threads : Busy(t) /\ Busy(u) => t = u

\* Where a thread may go on once it has saved.
Targets == {"migrate", "derive", "load", "bindings", "topics", "apply"}

Saves(t) ==
    /\ pc[t] \in Saving => pc[t] \notin {"remove", "renameAgain"} /\ ret[t] \in Targets
    /\ pc[t] \in {"open", "fill", "rename"} => snap[t] = data
    /\ pc[t] = "fill" => fd[t] = "tmp" /\ tmp = Empty
    /\ pc[t] = "rename" => tmp = data
    /\ pc[t] \notin Saving => file = data

Stores(t) ==
    /\ At(t) \in Viewing => Valid(view[t])
    /\ At(t) \in Viewing \ {"settings"} => data.settings = view[t]
    /\ At(t) \in {"topics", "storeTopics", "apply"} => data.bindings = ToBindings(view[t])
    /\ At(t) = "apply" => data.topics = tops[t]

LInv ==
    lone => /\ Alone
            /\ \A t \in Threads : Busy(t) => Saves(t) /\ Stores(t)
            /\ AtRest /\ cfg # None => Settled

LEMMA LoneInit == Init => LInv
  BY DEF Init, LInv, Alone, Busy, Everywhere

\* A step of the thread that runs alone.
LEMMA LoneStep ==
    ASSUME LInv, NEW t \in Threads, Busy(t), \A u \in Threads \ {t} : pc'[u] = pc[u],
           lone' => lone /\ Busy(t)' /\ Saves(t)' /\ Stores(t)'
    PROVE  LInv'
<1>1. SUFFICES ASSUME lone'
               PROVE  /\ Alone'
                      /\ \A u \in Threads : Busy(u)' => (Saves(u) /\ Stores(u))'
                      /\ ~AtRest'
  BY DEF LInv
<1>2. \A u \in Threads \ {t} : ~Busy(u)'
  BY <1>1 DEF LInv, Alone, Busy
<1>3. ~AtRest'
  BY <1>1 DEF AtRest, Busy
<1> QED
  BY <1>1, <1>2, <1>3 DEF Alone

LEMMA NoFaultLone ==
    ASSUME NoFault
    PROVE  lone' = lone
  BY Zenon DEF NoFault, history

LEMMA FaultNotLone ==
    ASSUME Fault
    PROVE  ~lone'
  BY Zenon DEF Fault

\* save and writeFileAtomic, by a thread that runs alone and without a fault.
LEMMA SaveStepAlone ==
    ASSUME TInv, LInv, lone, NEW t \in Threads, SaveStep(t), ~Fault
    PROVE  Busy(t)' /\ Saves(t)' /\ At(t)' = At(t) /\ file' \in {file, data}
<1>1. Busy(t) /\ pc[t] \in Saving /\ UNCHANGED data
  BY DEF SaveStep, Snapshot, Open, Fill, Rename, Remove, RenameAgain, Goto, Saving, Busy
<1>2. data \in Data /\ None \notin Data
  BY <1>1, WorkStays
<1>3. Saves(t) /\ ret[t] \in Targets
  BY <1>1 DEF LInv, Saves
<1>4. /\ pc \in [Threads -> Labels] /\ ret \in [Threads -> Labels]
      /\ snap \in [Threads -> Data \cup {None}]
      /\ fd \in [Threads -> {"none", "tmp", "file", "gone"}]
  BY DEF TInv, TypeOK
<1>5. Targets \cap Saving = {} /\ "idle" \notin Targets \cup Saving
  BY DEF Targets, Saving
<1>6. CASE Snapshot(t)
  <2>1. /\ pc'[t] = "open" /\ snap'[t] = data /\ pc[t] = "snapshot"
        /\ UNCHANGED <<ret, file>>
    BY <1>4, <1>6 DEF Snapshot, Goto, diskVars
  <2> QED
    BY <1>1, <1>3, <2>1 DEF Saves, At, Saving, Busy
<1>7. CASE Open(t)
  <2>1. /\ pc'[t] = "fill" /\ tmp' = Empty /\ fd'[t] = "tmp" /\ pc[t] = "open"
        /\ UNCHANGED <<ret, snap, file>>
    BY <1>4, <1>7 DEF Open, Goto
  <2> QED
    BY <1>1, <1>3, <2>1 DEF Saves, At, Saving, Busy
<1>8. CASE Fill(t)
  <2>1. /\ pc'[t] = "rename" /\ pc[t] = "fill" /\ UNCHANGED <<ret, snap>>
        /\ tmp' \in IF fd[t] = "tmp" THEN Written(tmp, snap[t]) ELSE {tmp}
        /\ file' \in IF fd[t] = "file" THEN Written(file, snap[t]) ELSE {file}
    BY <1>4, <1>8 DEF Fill, Goto
  <2>2. fd[t] = "tmp" /\ tmp = Empty /\ snap[t] = data
    BY <1>3, <2>1 DEF Saves
  <2>3. tmp' = data /\ file' = file
    BY <2>1, <2>2 DEF Written
  <2> QED
    BY <1>1, <1>3, <2>1, <2>2, <2>3 DEF Saves, At, Saving, Busy
<1>9. CASE Rename(t)
  <2>1. tmp = data /\ pc[t] = "rename"
    BY <1>3, <1>9 DEF Rename, Saves
  <2>2. RenameDone(t)
    BY <1>2, <1>9, <2>1 DEF Rename
  <2>3. file' = data /\ pc'[t] = ret[t]
    BY <1>4, <2>1, <2>2 DEF RenameDone, SaveEnds
  <2> QED
    BY <1>1, <1>3, <1>5, <2>1, <2>3 DEF Saves, At, Busy, Saving
<1>10. ~(Remove(t) \/ RenameAgain(t))
  BY <1>1, <1>3 DEF Remove, RenameAgain, Goto, Saves
<1> QED
  BY <1>6, <1>7, <1>8, <1>9, <1>10 DEF SaveStep

\* Every step of a save moves one thread, and is a fault if it is not without one.
LEMMA SaveStepFrame ==
    ASSUME TInv, NEW t \in Threads, SaveStep(t)
    PROVE  /\ Busy(t) /\ UNCHANGED <<data, cfg, reason, view, tops>>
           /\ \A u \in Threads \ {t} : pc'[u] = pc[u] /\ At(u)' = At(u)
           /\ Fault \/ NoFault
<1>1. Busy(t) /\ UNCHANGED <<data, cfg, reason, view, tops>>
  BY DEF SaveStep, Snapshot, Open, Fill, Rename, Remove, RenameAgain, Goto, Saving, Busy
<1>2. \A u \in Threads \ {t} : pc'[u] = pc[u] /\ ret'[u] = ret[u]
  BY DEF SaveStep, Snapshot, Open, Fill, Rename, Remove, RenameAgain, RenameDone, SaveEnds, Goto,
         TInv, TypeOK
<1>3. Fault \/ NoFault
  BY DEF SaveStep, Snapshot, Open, Fill, Rename, Remove, RenameAgain, RenameDone
<1> QED
  BY <1>1, <1>2, <1>3 DEF At

LEMMA SaveStepLone ==
    ASSUME TInv, LInv, NEW t \in Threads, SaveStep(t)
    PROVE  LInv'
<1>1. ASSUME lone'
      PROVE  lone /\ Busy(t)' /\ Saves(t)' /\ Stores(t)'
  <2>1. ~Fault
    BY <1>1, FaultNotLone
  <2>2. lone
    BY <1>1, <2>1, SaveStepFrame, NoFaultLone, Zenon
  <2>3. Busy(t)' /\ Saves(t)' /\ At(t)' = At(t)
    BY <2>1, <2>2, SaveStepAlone
  <2>4. Stores(t)
    BY <2>2, SaveStepFrame DEF LInv
  <2>5. Stores(t)'
    BY <2>3, <2>4, SaveStepFrame DEF Stores
  <2> QED
    BY <2>2, <2>3, <2>5
<1> QED
  BY <1>1, SaveStepFrame, LoneStep

\* storeSetIfChanged, between two steps that need no save.
LEMMA SetLone ==
    ASSUME TInv, LInv, lone, NEW t \in Threads, Busy(t), pc[t] \notin Saving,
           NEW key, NEW value, Fits(key, value), NEW next \in Targets,
           SetIfChanged(t, key, value, next), UNCHANGED file
    PROVE  /\ Busy(t)' /\ Saves(t)' /\ At(t)' = next
           /\ \A u \in Threads \ {t} : pc'[u] = pc[u]
           /\ data' \in Data
           /\ key = "settings" => /\ data'.settings = value /\ data'.bindings = data.bindings
                                  /\ data'.topics = data.topics
           /\ key = "bindings" => /\ data'.bindings = value /\ data'.settings = data.settings
                                  /\ data'.topics = data.topics
           /\ key = "topics" => /\ data'.topics = value /\ data'.bindings = data.bindings
                                /\ data'.settings = data.settings
<1>1. data \in Data /\ TypeOK
  BY WorkStays DEF TInv
<1>2. next \in Labels \ Saving /\ next # "idle"
  BY DEF Targets, Labels, Saving
<1>3. At(t)' = next /\ \A u \in Threads \ {t} : pc'[u] = pc[u]
  BY <1>1, <1>2, SetIfChangedType
<1>4. file = data
  BY DEF LInv, Saves
<1>5. CASE data[key] = value
  <2>1. pc'[t] = next /\ UNCHANGED data
    BY <1>1, <1>5 DEF SetIfChanged, TypeOK
  <2> QED
    BY <1>1, <1>2, <1>3, <1>4, <1>5, <2>1 DEF Saves, Busy, Fits, Saving
<1>6. CASE data[key] # value
  <2>1. SetKey(t, key, value, next)
    BY <1>6 DEF SetIfChanged
  <2>2. pc'[t] = "snapshot" /\ ret'[t] = next
    BY <1>1, <1>2, <2>1, SetKeyType
  <2>3. /\ data' \in Data
        /\ key = "settings" => /\ data'.settings = value /\ data'.bindings = data.bindings
                               /\ data'.topics = data.topics
        /\ key = "bindings" => /\ data'.bindings = value /\ data'.settings = data.settings
                               /\ data'.topics = data.topics
        /\ key = "topics" => /\ data'.topics = value /\ data'.bindings = data.bindings
                             /\ data'.settings = data.settings
    <3>1. data' = [data EXCEPT ![key] = value]
      BY <2>1 DEF SetKey
    <3>2. CASE key = "settings" /\ value \in AllSettings
      <4>1. data' = [data EXCEPT !["settings"] = value]
        BY <3>1, <3>2
      <4>2. LET e == [data EXCEPT !["settings"] = value]
            IN  /\ e \in Data
                /\ \A x \in {"settings", "bindings", "topics"} : e[x] = IF x = "settings" THEN value ELSE data[x]
        BY <1>1, <3>2 DEF Data
      <4> QED
        BY <3>2, <4>1, <4>2
    <3>3. CASE key = "bindings" /\ value \in AllBindings
      <4>1. data' = [data EXCEPT !["bindings"] = value]
        BY <3>1, <3>3
      <4>2. LET e == [data EXCEPT !["bindings"] = value]
            IN  /\ e \in Data
                /\ \A x \in {"settings", "bindings", "topics"} : e[x] = IF x = "bindings" THEN value ELSE data[x]
        BY <1>1, <3>3 DEF Data
      <4> QED
        BY <3>3, <4>1, <4>2
    <3>4. CASE key = "topics" /\ value \in Topics
      <4>1. data' = [data EXCEPT !["topics"] = value]
        BY <3>1, <3>4
      <4>2. LET e == [data EXCEPT !["topics"] = value]
            IN  /\ e \in Data
                /\ \A x \in {"settings", "bindings", "topics"} : e[x] = IF x = "topics" THEN value ELSE data[x]
        BY <1>1, <3>4 DEF Data
      <4> QED
        BY <3>4, <4>1, <4>2
    <3> QED
      BY <3>2, <3>3, <3>4 DEF Fits
  <2> QED
    BY <1>3, <2>2, <2>3 DEF Saves, Busy, Saving, Targets
<1> QED
  BY <1>5, <1>6

\* reloadRuntimeConfig, up to the last step.
LEMMA ReloadStepLone ==
    ASSUME TInv, LInv, NEW t \in Threads,
           Load(t) \/ StoreSettings(t) \/ StoreBindings(t) \/ ReadTopics(t) \/ StoreTopics(t)
    PROVE  LInv'
<1>1. /\ Busy(t) /\ pc[t] \notin Saving /\ NoFault /\ UNCHANGED <<cfg, file>>
  BY DEF Load, StoreSettings, StoreBindings, ReadTopics, StoreTopics, Goto, Busy, Saving, diskVars
<1>2. data \in Data /\ TypeOK
  BY <1>1, WorkStays DEF TInv
<1>3. {"load", "settings", "bindings", "topics", "storeTopics", "apply"} \subseteq Labels \ Saving
  BY DEF Labels, Saving
<1>4. \A u \in Threads \ {t} : pc'[u] = pc[u]
  BY <1>2 DEF Load, StoreSettings, StoreBindings, ReadTopics, StoreTopics, SetIfChanged, SetKey, Goto, TypeOK
<1>5. ASSUME lone'
      PROVE  lone /\ Busy(t)' /\ Saves(t)' /\ Stores(t)'
  <2>1. lone
    BY <1>1, <1>5, NoFaultLone, Zenon
  <2>2. Saves(t) /\ Stores(t) /\ file = data /\ At(t) = pc[t]
    BY <1>1, <2>1 DEF LInv, Saves, At
  <2>3. CASE Load(t)
    <3>1. /\ pc'[t] \in {"settings", "bindings"} /\ Valid(view'[t]) /\ UNCHANGED data
          /\ pc'[t] = "bindings" => data.settings = view'[t]
      <4>1. CASE reason[t] = "bindings"
        BY <1>2, <2>3, <4>1, ParsedValid DEF Load, Goto, TypeOK
      <4>2. CASE reason[t] # "bindings"
        <5>1. /\ view'[t] = ParsedSettings(data.settings) /\ UNCHANGED data
              /\ pc'[t] = IF view'[t] = data.settings THEN "bindings" ELSE "settings"
          BY <1>2, <2>3, <4>2 DEF Load, Goto, TypeOK
        <5> QED
          BY <1>2, <5>1, ParsedValid
      <4> QED
        BY <4>1, <4>2
    <3> QED
      BY <1>1, <2>1, <2>2, <3>1 DEF Saves, Stores, At, Busy, Saving, Viewing
  <2>4. CASE ReadTopics(t)
    <3>1. pc[t] = "topics" /\ pc'[t] = "storeTopics" /\ UNCHANGED <<data, view>>
      BY <1>2, <2>4 DEF ReadTopics, Goto, TypeOK
    <3> QED
      BY <1>1, <2>1, <2>2, <3>1 DEF Saves, Stores, At, Busy, Saving, Viewing
  <2>5. ASSUME StoreSettings(t) \/ StoreBindings(t) \/ StoreTopics(t)
        PROVE  /\ UNCHANGED <<view, tops>> /\ view[t] \in AllSettings /\ tops[t] \in Topics
               /\ pc[t] \in Viewing
    BY <1>2, <2>5 DEF StoreSettings, StoreBindings, StoreTopics, TInv, HasView, At, Viewing, Saving, TypeOK
  <2>6. CASE StoreSettings(t)
    <3>1. Fits("settings", view[t])
      BY <2>5, <2>6 DEF Fits
    <3>2. Busy(t)' /\ Saves(t)' /\ At(t)' = "bindings" /\ data'.settings = view[t]
      BY <1>1, <2>1, <2>6, <3>1, SetLone DEF StoreSettings, Targets
    <3> QED
      BY <2>1, <2>2, <2>5, <2>6, <3>2 DEF Stores, Viewing
  <2>7. CASE StoreBindings(t)
    <3>1. Fits("bindings", ToBindings(view[t]))
      BY <2>5, <2>7, ToBindingsType DEF Fits
    <3>2. /\ Busy(t)' /\ Saves(t)' /\ At(t)' = "topics"
          /\ data'.bindings = ToBindings(view[t]) /\ data'.settings = data.settings
      BY <1>1, <2>1, <2>7, <3>1, SetLone DEF StoreBindings, Targets
    <3>3. pc[t] = "bindings"
      BY <2>7 DEF StoreBindings
    <3> QED
      BY <2>1, <2>2, <2>5, <2>7, <3>2, <3>3 DEF Stores, Viewing
  <2>8. CASE StoreTopics(t)
    <3>1. Fits("topics", tops[t])
      BY <2>5, <2>8 DEF Fits
    <3>2. /\ Busy(t)' /\ Saves(t)' /\ At(t)' = "apply"
          /\ data'.topics = tops[t] /\ data'.bindings = data.bindings /\ data'.settings = data.settings
      BY <1>1, <2>1, <2>8, <3>1, SetLone DEF StoreTopics, Targets
    <3>3. pc[t] = "storeTopics"
      BY <2>8 DEF StoreTopics
    <3> QED
      BY <2>1, <2>2, <2>5, <2>8, <3>2, <3>3 DEF Stores, Viewing
  <2> QED
    BY <2>3, <2>4, <2>6, <2>7, <2>8
<1> QED
  BY <1>1, <1>4, <1>5, LoneStep

\* The configuration comes into force, and everything agrees.
LEMMA ApplyLone ==
    ASSUME TInv, LInv, NEW t \in Threads, Apply(t)
    PROVE  LInv' /\ (lone => Settled')
<1>1. /\ Busy(t) /\ pc[t] = "apply" /\ UNCHANGED <<data, file>>
      /\ pc' = [pc EXCEPT ![t] = "idle"]
  BY DEF Apply, Goto, Busy, diskVars
<1>2. lone' = lone
  BY Zenon DEF Apply
<1>3. data \in Data /\ TypeOK
  BY <1>1, WorkStays DEF TInv
<1>4. ASSUME lone
      PROVE  Settled' /\ \A u \in Threads : ~Busy(u)'
  <2>1. At(t) = "apply" /\ pc[t] \notin Saving
    BY <1>1 DEF At, Saving
  <2>2. Saves(t) /\ Stores(t) /\ Alone
    BY <1>1, <1>4 DEF LInv
  <2>3. /\ Valid(view[t]) /\ data.settings = view[t] /\ data.bindings = ToBindings(view[t])
        /\ data.topics = tops[t] /\ file = data
    BY <2>1, <2>2 DEF Saves, Stores, Viewing
  <2>4. cfg' = [settings |-> view[t], topics |-> tops[t]]
    BY DEF Apply
  <2>5. \A u \in Threads : ~Busy(u)'
    BY <1>1, <1>3, <2>2 DEF Alone, Busy, TypeOK
  <2> QED
    BY <1>1, <2>3, <2>4, <2>5 DEF Settled
<1> QED
  BY <1>2, <1>4 DEF LInv, Alone

LEMMA BootLone ==
    ASSUME TInv, NEW t \in Threads, Boot(t)
    PROVE  LInv'
<1>1. /\ pc'[t] = "snapshot" /\ ret'[t] = "migrate" /\ At(t)' = "migrate"
      /\ \A u \in Threads \ {t} : ~Busy(u)'
  BY BootType DEF Busy
<1>2. Saves(t)' /\ Stores(t)' /\ Busy(t)'
  BY <1>1 DEF Saves, Stores, Saving, Targets, Viewing, Busy
<1> QED
  BY <1>1, <1>2 DEF LInv, Alone, AtRest, Busy

LEMMA MigrateLone ==
    ASSUME TInv, LInv, NEW t \in Threads, Migrate(t) \/ Derive(t)
    PROVE  LInv'
<1>1. /\ Busy(t) /\ pc[t] \notin Saving /\ NoFault
      /\ UNCHANGED <<cfg, file, view, tops>>
  BY DEF Migrate, Derive, Goto, Busy, Saving, diskVars
<1>2. data \in Data /\ TypeOK
  BY <1>1, WorkStays DEF TInv
<1>3. \A u \in Threads \ {t} : pc'[u] = pc[u]
  BY <1>2 DEF Migrate, Derive, SetKey, Goto, TypeOK
<1>4. ASSUME lone'
      PROVE  lone /\ Busy(t)' /\ Saves(t)' /\ Stores(t)'
  <2>1. lone
    BY <1>1, <1>4, NoFaultLone, Zenon
  <2>2. file = data
    BY <1>1, <2>1 DEF LInv, Saves
  <2>3. CASE pc'[t] \in {"derive", "load"} /\ UNCHANGED data
    BY <1>1, <2>1, <2>2, <2>3 DEF Saves, Stores, At, Busy, Saving, Viewing
  <2>4. CASE pc'[t] = "snapshot" /\ ret'[t] \in {"derive", "load"}
    BY <2>1, <2>4 DEF Saves, Stores, At, Busy, Saving, Viewing, Targets
  <2>5. ASSUME NEW key, NEW value, NEW next \in {"derive", "load"}, SetKey(t, key, value, next)
        PROVE  pc'[t] = "snapshot" /\ ret'[t] = next
    BY <1>2, <2>5 DEF SetKey, TypeOK
  <2>6. ASSUME NEW from, NEW to \in {"derive", "load"}, Goto(t, from, to)
        PROVE  pc'[t] = to
    BY <1>2, <2>6 DEF Goto, TypeOK
  <2> QED
    BY <2>3, <2>4, <2>5, <2>6 DEF Migrate, Derive
<1> QED
  BY <1>1, <1>3, <1>4, LoneStep

LEMMA CallLone ==
    ASSUME TInv, NEW t \in Threads, NEW r \in Requests, Call(t, r)
    PROVE  LInv'
<1>1. SUFFICES ASSUME lone' PROVE LInv'
  BY DEF LInv
<1>2. AtRest
  BY <1>1, Zenon DEF Call
<1>3. /\ pc'[t] = "snapshot" /\ ret'[t] = "load" /\ At(t)' = "load"
      /\ \A u \in Threads \ {t} : ~Busy(u)'
  BY <1>2, CallType DEF Busy, AtRest
<1>4. Saves(t)' /\ Stores(t)' /\ Busy(t)'
  BY <1>3 DEF Saves, Stores, Saving, Targets, Viewing, Busy
<1> QED
  BY <1>3, <1>4 DEF LInv, Alone, AtRest, Busy

LEMMA LoneInductive == TInv /\ LInv /\ [Next]_vars => LInv'
<1> SUFFICES ASSUME TInv, LInv, [Next]_vars PROVE LInv'
  OBVIOUS
<1>1. CASE UNCHANGED vars
  <2>1. /\ UNCHANGED <<data, cfg, file, tmp, pc, ret, snap, fd, view, tops>>
        /\ lone' = lone
    BY <1>1, Zenon DEF vars, diskVars, localVars, history
  <2> QED
    BY <2>1 DEF LInv, Alone, Saves, Stores, At, Busy, AtRest, Settled
<1>2. CASE Crash
  BY <1>2, CrashType DEF LInv, Alone, Busy
<1> QED
  BY <1>1, <1>2, SaveStepLone, ReloadStepLone, ApplyLone, BootLone, MigrateLone, CallLone
  DEF Next, ReloadStep, StartStep

\* Whatever overlapping, failing or crashed calls left in memory and on the disk, a call or
\* a start that then runs alone brings both forms of the settings, what is in force and
\* the file into agreement (RuntimeConfigSet, reloadRuntimeConfig, Store.Set).
THEOREM LoneCallsSettle == Spec => []LoneCallSettles
<1>1. LInv => LoneCallSettles
  BY DEF LInv, LoneCallSettles
<1> QED
  BY <1>1, TypeInit, TypeInductive, LoneInit, LoneInductive, PTL DEF Spec

-----------------------------------------------------------------------------
(***************************************************************************)
(* Atomicity.  As long as due is known, what a start would read from the   *)
(* file, and what it would read from memory, is the configuration before   *)
(* the last call or the one after it; and the thread at work, be it the    *)
(* call itself or a start after a crash, is on its way to one of the two.  *)
(***************************************************************************)
Reads(d) == [settings |-> ParsedSettings(d.settings), topics |-> ParsedTopics(d.topics)]

Good(d) == d \in Data /\ d.settings # None /\ Reads(d) \in {held, due}

\* A start after a crash.
Starts(t) ==
    /\ At(t) \in Viewing => view[t] = ParsedSettings(data.settings)
    /\ At(t) = "storeTopics" => tops[t] = ParsedTopics(data.topics)

\* The call.
Asks(t) ==
    /\ cfg = held /\ reason[t] \in Keys
    /\ At(t) \in {"load"} \cup Viewing
    /\ reason[t] # "bindings" => ParsedSettings(data.settings) = due.settings
    /\ reason[t] = "bindings" /\ At(t) = "load" =>
           FromBindings(ParsedBindings(data.bindings)) = due.settings
    /\ ParsedTopics(data.topics) = due.topics
    /\ At(t) \in Viewing => view[t] = due.settings
    /\ At(t) = "storeTopics" => tops[t] = due.topics

AInv ==
    due # None =>
        /\ lone /\ held # None
        /\ Good(file) /\ (data # None => Good(data))
        /\ \A t \in Threads : Busy(t) => IF cfg = None THEN Starts(t) ELSE Asks(t)

LEMMA AtomicInit == Init => AInv
  BY DEF Init, AInv

\* What is valid is read as it is.
LEMMA ReadAsIs ==
    /\ \A s \in AllSettings : Valid(s) => ParsedSettings(s) = s
    /\ \A u \in Topics : ParsedTopics(u) = u
    /\ \A b \in AllBindings : Injective(b) => ParsedBindings(b) = b
  BY ConfigAssumption DEF ParsedSettings, ParsedTopics, ParsedBindings

\* A configuration is what its two parts say.
LEMMA CfgParts ==
    /\ \A c \in Cfgs : c = [settings |-> c.settings, topics |-> c.topics]
    /\ \A c \in Cfgs : \A d :
         Reads(d) = c <=> /\ ParsedSettings(d.settings) = c.settings
                          /\ ParsedTopics(d.topics) = c.topics
  BY DEF Cfgs, Reads

\* What Good says does not depend on the bindings.
LEMMA SameReads ==
    ASSUME NEW d, NEW e \in Data, Good(d), UNCHANGED <<held, due>>, e.settings # None,
           ParsedSettings(e.settings) = ParsedSettings(d.settings),
           ParsedTopics(e.topics) = ParsedTopics(d.topics)
    PROVE  Good(e) /\ Good(e)'
  BY DEF Good, Reads

LEMMA NoFaultKeeps ==
    ASSUME NoFault
    PROVE  held' = held /\ due' = due /\ lone' = lone
  BY Zenon DEF NoFault, history

\* A step without a fault of the thread that runs alone.
LEMMA AtomicStep ==
    ASSUME TInv, LInv, AInv, NEW t \in Threads, Busy(t), NoFault,
           \A u \in Threads \ {t} : pc'[u] = pc[u], UNCHANGED cfg,
           due # None => /\ Good(file') /\ Good(data')
                         /\ IF cfg = None THEN Starts(t)' ELSE Asks(t)'
    PROVE  AInv'
<1>1. SUFFICES ASSUME due' # None
               PROVE  /\ lone' /\ held' # None
                      /\ Good(file)' /\ Good(data)'
                      /\ \A u \in Threads : Busy(u)' => IF cfg' = None THEN Starts(u)' ELSE Asks(u)'
  BY DEF AInv
<1>2. due # None /\ UNCHANGED <<held, due>> /\ held # None /\ lone
  BY <1>1, NoFaultKeeps DEF AInv
<1>3. lone'
  BY <1>2, NoFaultKeeps, Zenon
<1>4. Good(file)' /\ Good(data)'
  BY <1>2 DEF Good
<1>5. \A u \in Threads \ {t} : ~Busy(u)'
  BY <1>2 DEF LInv, Alone, Busy
<1> QED
  BY <1>2, <1>3, <1>4, <1>5

LEMMA SaveStepAtomic ==
    ASSUME TInv, LInv, AInv, NEW t \in Threads, SaveStep(t)
    PROVE  AInv'
<1>1. CASE Fault
  BY <1>1 DEF Fault, AInv
<1>2. CASE NoFault /\ ~Fault
  <2>1. ASSUME due # None
        PROVE  Good(file') /\ Good(data') /\ IF cfg = None THEN Starts(t)' ELSE Asks(t)'
    <3>1. lone
      BY <2>1 DEF AInv
    <3>2. At(t)' = At(t) /\ file' \in {file, data}
      BY <1>2, <3>1, SaveStepAlone
    <3>3. /\ Good(file) /\ Good(data)
          /\ IF cfg = None THEN Starts(t) ELSE Asks(t)
      BY <2>1, SaveStepFrame, WorkStays, WorkData DEF AInv
    <3>4. UNCHANGED <<data, cfg, reason, view, tops, held, due>>
      BY <1>2, SaveStepFrame, NoFaultKeeps
    <3> QED
      BY <3>2, <3>3, <3>4 DEF Starts, Asks
  <2> QED
    BY <1>2, <2>1, SaveStepFrame, AtomicStep
<1> QED
  BY <1>1, <1>2, SaveStepFrame

LEMMA ReloadStepAtomic ==
    ASSUME TInv, LInv, AInv, NEW t \in Threads,
           Load(t) \/ StoreSettings(t) \/ StoreBindings(t) \/ ReadTopics(t) \/ StoreTopics(t)
    PROVE  AInv'
<1>1. /\ Busy(t) /\ pc[t] \notin Saving /\ NoFault /\ UNCHANGED <<cfg, file, reason>>
  BY DEF Load, StoreSettings, StoreBindings, ReadTopics, StoreTopics, Goto, Busy, Saving, diskVars
<1>2. data \in Data /\ data # None /\ TypeOK
  BY <1>1, WorkStays DEF TInv
<1>3. \A u \in Threads \ {t} : pc'[u] = pc[u]
  BY <1>2 DEF Load, StoreSettings, StoreBindings, ReadTopics, StoreTopics, SetIfChanged, SetKey, Goto, TypeOK
<1>4. ASSUME due # None
      PROVE  Good(file') /\ Good(data') /\ IF cfg = None THEN Starts(t)' ELSE Asks(t)'
  <2>1. /\ lone /\ Good(file) /\ Good(data)
        /\ IF cfg = None THEN Starts(t) ELSE Asks(t)
        /\ held' = held /\ due' = due
    BY <1>1, <1>2, <1>4, NoFaultKeeps DEF AInv
  <2>2. Stores(t) /\ At(t) = pc[t]
    BY <1>1, <2>1 DEF LInv, At
  <2>3. cfg = None => reason[t] = "init"
    BY DEF TInv, Running
  <2>4. view[t] \in AllSettings \cup {None} /\ tops[t] \in Topics
    BY <1>2 DEF TypeOK
  <2>5. CASE Load(t)
    <3>1. /\ pc[t] = "load" /\ pc'[t] \in {"settings", "bindings"} /\ UNCHANGED <<data, tops>>
          /\ At(t)' = pc'[t]
          /\ view'[t] = IF reason[t] = "bindings" THEN FromBindings(ParsedBindings(data.bindings))
                                                  ELSE ParsedSettings(data.settings)
      BY <1>2, <2>5 DEF Load, Goto, TypeOK, At, Saving
    <3>2. CASE cfg = None
      BY <1>1, <2>1, <2>3, <3>1, <3>2 DEF Starts
    <3>3. CASE cfg # None
      <4>1. Asks(t) /\ At(t) = "load"
        BY <2>1, <2>2, <3>1, <3>3
      <4>2. view'[t] = due.settings
        BY <3>1, <4>1 DEF Asks
      <4> QED
        BY <1>1, <2>1, <3>1, <3>3, <4>1, <4>2 DEF Asks, Viewing
    <3> QED
      BY <1>1, <2>1, <3>1, <3>2, <3>3
  <2>6. CASE ReadTopics(t)
    <3>1. /\ pc[t] = "topics" /\ pc'[t] = "storeTopics" /\ UNCHANGED <<data, view>>
          /\ At(t)' = "storeTopics" /\ tops'[t] = ParsedTopics(data.topics)
      BY <1>2, <2>6 DEF ReadTopics, Goto, TypeOK, At, Saving
    <3> QED
      BY <1>1, <2>1, <2>2, <3>1 DEF Starts, Asks, Viewing
  <2>7. CASE StoreSettings(t)
    <3>1. pc[t] = "settings" /\ UNCHANGED <<view, tops>> /\ Valid(view[t]) /\ view[t] \in AllSettings
      BY <2>2, <2>7 DEF StoreSettings, Stores, Viewing, Valid
    <3>2. /\ At(t)' = "bindings" /\ data' \in Data
          /\ data'.settings = view[t] /\ data'.topics = data.topics
      BY <1>1, <2>1, <2>7, <3>1, SetLone DEF StoreSettings, Targets, Fits
    <3>3. ParsedSettings(data'.settings) = view[t] /\ data'.settings # None
      BY <3>1, <3>2, ReadAsIs, ConfigAssumption
    <3>4. CASE cfg = None
      <4>1. view[t] = ParsedSettings(data.settings)
        BY <2>1, <2>2, <3>1, <3>4 DEF Starts, Viewing
      <4>2. Good(data')
        BY <2>1, <3>2, <3>3, <4>1, SameReads
      <4> QED
        BY <1>1, <2>1, <3>1, <3>2, <3>3, <3>4, <4>2 DEF Starts
    <3>5. CASE cfg # None
      <4>1. Asks(t) /\ view[t] = due.settings
        BY <2>1, <2>2, <3>1, <3>5 DEF Asks, Viewing
      <4>2. Reads(data') = due
        BY <1>2, <1>4, <3>2, <3>3, <4>1, CfgParts DEF Asks, TypeOK
      <4>3. Good(data')
        BY <3>2, <3>3, <4>2 DEF Good
      <4> QED
        BY <1>1, <2>1, <3>1, <3>2, <3>3, <3>5, <4>1, <4>3 DEF Asks, Viewing
    <3> QED
      BY <3>4, <3>5
  <2>8. CASE StoreBindings(t)
    <3>1. pc[t] = "bindings" /\ UNCHANGED <<view, tops>> /\ view[t] \in AllSettings
      BY <2>2, <2>8 DEF StoreBindings, Stores, Viewing, Valid
    <3>2. /\ At(t)' = "topics" /\ data' \in Data
          /\ data'.settings = data.settings /\ data'.topics = data.topics
      BY <1>1, <2>1, <2>8, <3>1, ToBindingsType, SetLone DEF StoreBindings, Targets, Fits
    <3>3. Good(data')
      BY <2>1, <3>2, SameReads DEF Good
    <3> QED
      BY <1>1, <2>1, <2>2, <3>1, <3>2, <3>3 DEF Starts, Asks, Viewing
  <2>9. CASE StoreTopics(t)
    <3>1. pc[t] = "storeTopics" /\ UNCHANGED <<view, tops>>
      BY <2>9 DEF StoreTopics
    <3>2. /\ At(t)' = "apply" /\ data' \in Data
          /\ data'.settings = data.settings /\ data'.topics = tops[t]
      BY <1>1, <2>1, <2>4, <2>9, SetLone DEF StoreTopics, Targets, Fits
    <3>3. tops[t] = ParsedTopics(data.topics) /\ ParsedTopics(data'.topics) = tops[t]
      BY <2>1, <2>2, <2>4, <3>1, <3>2, ReadAsIs DEF Starts, Asks
    <3>4. Good(data')
      BY <2>1, <3>2, <3>3, SameReads DEF Good
    <3> QED
      BY <1>1, <2>1, <2>2, <3>1, <3>2, <3>3, <3>4 DEF Starts, Asks, Viewing
  <2> QED
    BY <2>5, <2>6, <2>7, <2>8, <2>9
<1> QED
  BY <1>1, <1>3, <1>4, AtomicStep

\* A step of a start before its reload; it changes no settings that are there.
LEMMA MigrateAtomic ==
    ASSUME TInv, LInv, AInv, NEW t \in Threads, Migrate(t) \/ Derive(t)
    PROVE  AInv'
<1>1. /\ Busy(t) /\ pc[t] \in {"migrate", "derive"} /\ NoFault
      /\ UNCHANGED <<cfg, file, reason, view, tops>>
  BY DEF Migrate, Derive, Goto, Busy, diskVars
<1>2. data \in Data /\ data # None /\ TypeOK
  BY <1>1, WorkStays DEF TInv
<1>3. \A u \in Threads \ {t} : pc'[u] = pc[u]
  BY <1>2 DEF Migrate, Derive, SetKey, Goto, TypeOK
<1>4. ASSUME due # None
      PROVE  Good(file') /\ Good(data') /\ IF cfg = None THEN Starts(t)' ELSE Asks(t)'
  <2>1. /\ Good(file) /\ Good(data)
        /\ IF cfg = None THEN Starts(t) ELSE Asks(t)
        /\ held' = held /\ due' = due
    BY <1>1, <1>2, <1>4, NoFaultKeeps DEF AInv
  <2>2. cfg = None
    BY <1>1, <2>1 DEF Asks, At, Viewing, Saving
  <2>3. data.settings # None
    BY <2>1 DEF Good
  <2>4. CASE UNCHANGED <<data, ret>> /\ pc'[t] \in {"derive", "load"}
    BY <1>1, <2>1, <2>2, <2>4 DEF Starts, At, Viewing, Saving
  <2>5. CASE SetKey(t, "bindings", DefaultBindings, "derive")
    <3>1. At(t)' = "derive"
      BY <1>2, <2>5, SetKeyType, DefaultsValid DEF Fits, Labels, Saving
    <3>2. data' \in Data /\ data'.settings = data.settings /\ data'.topics = data.topics
      BY <1>2, <2>5, SetKeyData, DefaultsValid DEF SetKey
    <3>3. Good(data')
      BY <2>1, <3>2, SameReads DEF Good
    <3> QED
      BY <1>1, <2>1, <2>2, <3>1, <3>3 DEF Starts, Viewing
  <2>6. Goto(t, "migrate", "derive") => pc'[t] = "derive"
    BY <1>2 DEF Goto, TypeOK
  <2>7. Goto(t, "derive", "load") => pc'[t] = "load"
    BY <1>2 DEF Goto, TypeOK
  <2> QED
    BY <2>3, <2>4, <2>5, <2>6, <2>7 DEF Migrate, Derive
<1> QED
  BY <1>1, <1>3, <1>4, AtomicStep

\* Whatever comes into force.
LEMMA ApplyAtomic ==
    ASSUME TInv, LInv, AInv, NEW t \in Threads, Apply(t)
    PROVE  /\ AInv'
           /\ due # None => cfg' \in IF cfg = None THEN {held, due} ELSE {due}
<1>1. Busy(t) /\ pc[t] = "apply" /\ UNCHANGED data /\ cfg' = [settings |-> view[t], topics |-> tops[t]]
  BY DEF Apply, Goto, Busy
<1>2. data \in Data /\ data # None /\ TypeOK
  BY <1>1, WorkStays DEF TInv
<1>3. cfg' \in Cfgs /\ cfg' # None
  BY ApplyType, CfgAssumption
<1>4. ASSUME due # None
      PROVE  cfg' \in IF cfg = None THEN {held, due} ELSE {due}
  <2>1. lone /\ Good(data) /\ IF cfg = None THEN Starts(t) ELSE Asks(t)
    BY <1>1, <1>2, <1>4 DEF AInv
  <2>2. At(t) = "apply" /\ Stores(t)
    BY <1>1, <2>1 DEF LInv, At, Saving
  <2>3. data.topics = tops[t] /\ tops[t] \in Topics
    BY <1>2, <2>2 DEF Stores, TypeOK
  <2>4. ParsedTopics(data.topics) = tops[t]
    BY <2>3, ReadAsIs
  <2>5. CASE cfg = None
    <3>1. view[t] = ParsedSettings(data.settings)
      BY <2>1, <2>2, <2>5 DEF Starts, Viewing
    <3> QED
      BY <1>1, <2>1, <2>4, <2>5, <3>1 DEF Good, Reads
  <2>6. CASE cfg # None
    <3>1. view[t] = due.settings /\ tops[t] = due.topics
      BY <2>1, <2>2, <2>4, <2>6 DEF Asks, Viewing
    <3> QED
      BY <1>1, <1>2, <1>4, <2>6, <3>1, CfgParts DEF TypeOK
  <2> QED
    BY <2>5, <2>6
<1>5. ASSUME due' # None
      PROVE  /\ lone' /\ held' # None /\ Good(file)' /\ Good(data)'
             /\ \A u \in Threads : ~Busy(u)'
  <2>1. lone
    BY <1>5, Zenon DEF Apply
  <2>2. lone' /\ held' = cfg' /\ due' = cfg'
    BY <2>1, Zenon DEF Apply
  <2>3. Settled'
    BY <2>1, ApplyLone
  <2>4. Reads(data') = cfg'
    BY <1>3, <2>3, ReadAsIs, CfgParts DEF Settled, Cfgs, Valid, Reads
  <2>5. data'.settings # None
    BY <2>3, ConfigAssumption DEF Settled, Valid
  <2>6. Good(file)' /\ Good(data)'
    BY <1>1, <1>2, <2>2, <2>3, <2>4, <2>5 DEF Good, Settled, Reads
  <2>7. \A u \in Threads : ~Busy(u)'
    BY <1>1, <1>2, <2>1 DEF LInv, Alone, Busy, TypeOK, Apply, Goto
  <2> QED
    BY <1>3, <2>2, <2>6, <2>7
<1> QED
  BY <1>4, <1>5 DEF AInv

\* A start reads what the file says.
LEMMA BootAtomic ==
    ASSUME TInv, AInv, NEW t \in Threads, Boot(t)
    PROVE  AInv'
<1>1. SUFFICES ASSUME due' # None PROVE AInv'
  BY DEF AInv
<1>2. /\ due # None /\ UNCHANGED <<held, due, file, cfg>> /\ data = None /\ data' = Loaded(file)
      /\ lone'
  BY <1>1, Zenon DEF Boot, diskVars
<1>3. cfg = None
  BY <1>2 DEF TInv, Running
<1>4. Good(file) /\ held # None
  BY <1>2 DEF AInv
<1>5. data' = file
  BY <1>2, <1>4 DEF Good, Loaded
<1>6. Good(file)' /\ Good(data)'
  BY <1>2, <1>4, <1>5 DEF Good
<1>7. \A u \in Threads : Busy(u)' => Starts(u)'
  BY BootType DEF Starts, Viewing, Busy
<1> QED
  BY <1>2, <1>3, <1>4, <1>6, <1>7 DEF AInv

\* The files stay as they are.
LEMMA CrashAtomic ==
    ASSUME TInv, AInv, Crash
    PROVE  AInv'
<1>1. UNCHANGED <<held, due, file>> /\ lone' = lone
  BY Zenon DEF Crash, history, diskVars
<1>2. data' = None /\ cfg' = None /\ \A t \in Threads : ~Busy(t)'
  BY CrashType DEF Busy
<1> QED
  BY <1>1, <1>2 DEF AInv, Good

\* A call is made when everything agrees.
LEMMA CallAtomic ==
    ASSUME TInv, LInv, NEW t \in Threads, NEW r \in Requests, Call(t, r)
    PROVE  AInv'
<1>1. SUFFICES ASSUME due' # None PROVE AInv'
  BY DEF AInv
<1>2. AtRest /\ lone
  BY <1>1, Zenon DEF Call
<1>3. lone' /\ held' = cfg /\ due' = Asked(r)
  BY <1>2, Zenon DEF Call
<1>4. /\ cfg # None /\ Accepted(r) /\ UNCHANGED <<cfg, file, view, tops>>
      /\ data' = [data EXCEPT ![r.key] = Stored(r)]
      /\ reason' = [reason EXCEPT ![t] = r.key]
  BY DEF Call, SetKey, diskVars
<1>5. /\ data \in Data /\ data' \in Data /\ cfg \in Cfgs /\ At(t)' = "load" /\ pc'[t] = "snapshot"
      /\ \A u \in Threads \ {t} : pc'[u] = pc[u]
  BY CallType
<1>6. Settled
  BY <1>2, <1>4 DEF LInv
<1>7. /\ Valid(data.settings) /\ data.settings \in AllSettings /\ data.topics \in Topics
      /\ data.settings = cfg.settings /\ data.topics = cfg.topics /\ file = data
  BY <1>5, <1>6 DEF Settled, Valid, Cfgs
<1>8. ParsedSettings(data.settings) = cfg.settings /\ ParsedTopics(data.topics) = cfg.topics
  BY <1>7, ReadAsIs
<1>9. Reads(data) = cfg /\ data.settings # None
  BY <1>5, <1>7, <1>8, CfgParts, ConfigAssumption
<1>10. Good(file)'
  BY <1>3, <1>4, <1>5, <1>7, <1>9 DEF Good, Reads
<1>11. /\ Good(data)'
       /\ r.key # "bindings" => ParsedSettings(data'.settings) = due'.settings
       /\ r.key = "bindings" => FromBindings(ParsedBindings(data'.bindings)) = due'.settings
       /\ ParsedTopics(data'.topics) = due'.topics
  <2>1. CASE r.key = "settings"
    <3>1. Valid(Stored(r)) /\ Stored(r) \in AllSettings
      BY <1>4, <2>1, StoredValid
    <3>2. data'.settings = Stored(r) /\ data'.topics = data.topics
      BY <1>4, <1>5, <2>1, <3>1, SetKeyData
    <3>3. due' = [settings |-> Stored(r), topics |-> cfg.topics]
      BY <1>3, <1>5, <2>1 DEF Asked, Cfgs
    <3>4. ParsedSettings(data'.settings) = Stored(r) /\ data'.settings # None
      BY <3>1, <3>2, ReadAsIs, ConfigAssumption
    <3>5. Reads(data') = due'
      BY <1>8, <3>2, <3>3, <3>4 DEF Reads
    <3> QED
      BY <1>5, <1>8, <2>1, <3>2, <3>3, <3>4, <3>5 DEF Good, Reads
  <2>2. CASE r.key = "bindings"
    <3>1. Stored(r) = r.value /\ r.value \in AllBindings /\ Injective(r.value)
      BY <1>4, <2>2, StoredValid
    <3>2. /\ data'.bindings = r.value
          /\ data'.settings = data.settings /\ data'.topics = data.topics
      BY <1>4, <1>5, <2>2, <3>1, SetKeyData
    <3>3. due' = [settings |-> FromBindings(r.value), topics |-> cfg.topics]
      BY <1>3, <1>5, <2>2 DEF Asked, Cfgs
    <3>4. ParsedBindings(data'.bindings) = r.value
      BY <3>1, <3>2, ReadAsIs
    <3>5. Reads(data') = held'
      BY <1>3, <1>9, <3>2 DEF Reads
    <3> QED
      BY <1>5, <1>8, <1>9, <2>2, <3>2, <3>3, <3>4, <3>5 DEF Good, Reads
  <2>3. CASE r.key = "topics"
    <3>1. Stored(r) = r.value /\ r.value \in Topics
      BY <1>4, <2>3, StoredValid
    <3>2. data'.settings = data.settings /\ data'.topics = r.value
      BY <1>4, <1>5, <2>3, <3>1, SetKeyData
    <3>3. due' = [settings |-> cfg.settings, topics |-> r.value]
      BY <1>3, <1>5, <2>3 DEF Asked, Cfgs
    <3>4. ParsedTopics(data'.topics) = r.value
      BY <3>1, <3>2, ReadAsIs
    <3>5. Reads(data') = due'
      BY <1>8, <3>2, <3>3, <3>4 DEF Reads
    <3> QED
      BY <1>5, <1>8, <1>9, <2>3, <3>2, <3>3, <3>4, <3>5 DEF Good, Reads
  <2> QED
    BY <1>4, <2>1, <2>2, <2>3, StoredValid DEF Keys
<1>12. reason'[t] = r.key /\ r.key \in Keys
  BY <1>4, StoredValid DEF TInv, TypeOK
<1>13. Asks(t)'
  BY <1>3, <1>4, <1>5, <1>11, <1>12 DEF Asks, Viewing
<1>14. \A u \in Threads \ {t} : ~Busy(u)'
  BY <1>2, <1>5 DEF AtRest, Busy
<1>15. held' # None /\ cfg' # None
  BY <1>3, <1>4
<1> QED
  BY <1>3, <1>10, <1>11, <1>13, <1>14, <1>15 DEF AInv

LEMMA AtomicInductive == TInv /\ LInv /\ AInv /\ [Next]_vars => AInv'
<1> SUFFICES ASSUME TInv, LInv, AInv, [Next]_vars PROVE AInv'
  OBVIOUS
<1>1. CASE UNCHANGED vars
  <2>1. /\ UNCHANGED <<data, cfg, file, pc, ret, reason, view, tops, held, due>>
        /\ lone' = lone
    BY <1>1, Zenon DEF vars, diskVars, localVars, history
  <2> QED
    BY <2>1 DEF AInv, Good, Reads, Starts, Asks, At, Busy
<1> QED
  BY <1>1, SaveStepAtomic, ReloadStepAtomic, ApplyAtomic, BootAtomic, MigrateAtomic, CallAtomic,
     CrashAtomic
  DEF Next, ReloadStep, StartStep

\* Only the last step of a reload puts a configuration in force.
LEMMA OnlyApplyApplies ==
    ASSUME TInv, [Next]_vars, NEW t \in Threads, Applies(t)
    PROVE  Apply(t)
<1>1. pc[t] = "apply" /\ pc'[t] = "idle" /\ cfg' # None /\ TypeOK
  BY DEF Applies, TInv
<1>2. ~Crash /\ ~UNCHANGED vars
  BY <1>1, CrashType DEF vars, localVars
<1>3. ASSUME NEW u \in Threads, Apply(u)
      PROVE  u = t
  BY <1>1, <1>3 DEF Apply, Goto, TypeOK
<1>4. ASSUME NEW u \in Threads, SaveStep(u)
      PROVE  FALSE
  <2>1. u # t
    BY <1>1, <1>4 DEF SaveStep, Snapshot, Open, Fill, Rename, Remove, RenameAgain, Goto
  <2> QED
    BY <1>1, <1>4, <2>1, SaveStepFrame
<1>5. ASSUME NEW u \in Threads,
             Load(u) \/ StoreSettings(u) \/ StoreBindings(u) \/ ReadTopics(u) \/ StoreTopics(u)
                 \/ StartStep(u) \/ \E r \in Requests : Call(u, r)
      PROVE  FALSE
  BY <1>1, <1>5 DEF Load, StoreSettings, StoreBindings, ReadTopics, StoreTopics, StartStep, Boot,
                    Migrate, Derive, Call, SetIfChanged, SetKey, Goto, TypeOK, TInv, Running, Busy
<1> QED
  BY <1>2, <1>3, <1>4, <1>5 DEF Next, ReloadStep

\* A call that runs alone puts in force what it asks for; and if the process ends in the
\* middle of it, every start that follows puts that in force or what was in force
\* before, however many of these starts are cut short (RuntimeConfigSet, Store.Set,
\* initRuntimeConfig).
THEOREM SetsAreAtomic == Spec => SetIsAtomic
<1>1. TInv /\ LInv /\ AInv /\ [Next]_vars =>
          [(\E t \in Threads : Applies(t)) /\ due # None =>
               cfg' \in IF cfg = None THEN {held, due} ELSE {due}]_vars
  BY OnlyApplyApplies, ApplyAtomic
<1> QED
  BY <1>1, TypeInit, TypeInductive, LoneInit, LoneInductive, AtomicInit, AtomicInductive, PTL
  DEF Spec, SetIsAtomic

=============================================================================
