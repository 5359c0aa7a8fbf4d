------------------------------ MODULE MCConfig ------------------------------
(***************************************************************************)
(* Instances of Config for TLC: a volume, which the hub may set, and a     *)
(* battery, which nobody may set.                                          *)
(***************************************************************************)
EXTENDS Config, TLC

CONSTANTS volume, battery, v, b, topic

OwnVar == [m \in Metrics |-> IF m = volume THEN v ELSE b]

Names(onVolume, onBattery) == [m \in Metrics |-> IF m = volume THEN onVolume ELSE onBattery]

Row(var, enabled, writable) == [var |-> var, enabled |-> enabled, writable |-> writable]

Rows(forVolume, forBattery) ==
    [m \in Metrics |-> IF m = volume THEN forVolume ELSE forBattery]

VolumeOnly == Names(v, None)

LegacyBindings == {VolumeOnly}

\* The volume locked, and nothing said of the battery: the bindings that are derived
\* from it are legacy defaults.  The names swapped.  A name used twice.
Locked == Rows(Row(v, TRUE, FALSE), None)

Swapped == Rows(Row(b, TRUE, TRUE), Row(v, TRUE, TRUE))

Twice == Rows(Row(v, TRUE, TRUE), Row(v, TRUE, FALSE))

Set(key, value) == [key |-> key, value |-> value]

CallSet ==
    {Set("settings", Locked), Set("settings", Swapped), Set("settings", Twice),
     Set("bindings", Names(v, b)), Set("bindings", Names(v, v)), Set("bindings", Bad),
     Set("topics", topic)}

Saved(s, bs, ts) == [settings |-> s, bindings |-> bs, topics |-> ts]

\* No file; one of a version without settings; one edited by hand.
FileSet ==
    {None, Saved(None, VolumeOnly, NoTopics), Saved(Bad, Names(b, b), Bad), Torn}

ThreadSymmetry == Permutations(Threads)
=============================================================================
