----------------------------- MODULE MCPublish -----------------------------
(***************************************************************************)
(* Instances of Publish for TLC: a volume, which the hub may set unless    *)
(* the configuration forbids it, and a battery, which nobody may set.      *)
(***************************************************************************)
EXTENDS Publish

CONSTANTS volume, battery, absent, low, high, unknown, public, private, c1, c2

Config(bound, writable, noBattery, vis) ==
    [bound |-> bound, writable |-> writable, noBattery |-> noBattery, visibilityDefault |-> vis]

VolumeOpen == Config({volume}, {volume}, absent, public)

VolumeLocked == Config({volume}, {}, absent, public)

VolumeOff == Config({}, {}, absent, public)

VolumeHidden == Config({volume}, {volume}, absent, private)

VolumeConfigs == {VolumeOpen, VolumeLocked, VolumeOff, VolumeHidden}

FeedVolume == [c \in Collectors |-> volume]

VisibleConfigs == {VolumeOpen, VolumeLocked, VolumeOff}

BatteryPlain == Config({battery}, {}, absent, public)

BatteryUnknown == Config({battery}, {}, unknown, public)

OneOfEach == [e \in Events |-> 1]

Only(es) == [e \in Events |-> IF e \in es THEN 1 ELSE 0]

ChangesOnly == Only({"change"})

StopsAndLosses == Only({"stop", "loss"})

LossesAndChanges == Only({"loss", "change"})

TwoOfEach == [e \in Events |-> 2]

BatteryConfigs == {BatteryPlain, BatteryUnknown}

FeedBattery == [c \in Collectors |-> battery]
=============================================================================
