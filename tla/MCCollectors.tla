---------------------------- MODULE MCCollectors ----------------------------
(***************************************************************************)
(* Instances of Collectors for TLC: readings of every kind, the failing    *)
(* and the impossible ones included.                                       *)
(***************************************************************************)
EXTENDS Collectors

Power(flag, life, ac) == [flag |-> flag, life |-> life, ac |-> ac]

Times(idle, kernel, user) == [idle |-> idle, kernel |-> kernel, user |-> user]

Adapter(up, address, kind) == [up |-> up, address |-> address, kind |-> kind]

Monitor(low, cur, high) == [min |-> low, cur |-> cur, max |-> high]

ReadingSets == [
    battery |-> {None, Power(0, 80, 1), Power(128, 80, 255)},
    cpu |-> {None, Times(0, 0, 0), Times(1, 2, 1), Times(4, 4, 2), Times(9, 5, 3)},
    mem |-> {None, 40, 101},
    net |-> {None, {Adapter(TRUE, TRUE, "wifi"), Adapter(TRUE, TRUE, "ethernet")},
             {Adapter(TRUE, TRUE, "cellular"), Adapter(FALSE, TRUE, "wifi"),
              Adapter(TRUE, TRUE, "tunnel")}},
    volume |-> {None, [level |-> 335, muted |-> FALSE], [level |-> 1001, muted |-> TRUE]},
    brightness |-> {[dxva2 |-> None, wmi |-> 101],
                    [dxva2 |-> Monitor(10, 5, 90), wmi |-> 30],
                    [dxva2 |-> Monitor(10, 70, 90), wmi |-> None]}]

\* Nothing, or one metric of each group.
Choices ==
    {{}, {"battery_on_ac", "cpu_percent", "mem_percent", "net_type", "volume_muted",
          "brightness_percent"}}
=============================================================================
