----------------------------- MODULE MCHostPackages -----------------------------
(* A small instance of HostPackages for TLC. *)
EXTENDS HostPackages, TLC

CONSTANTS linux, tool

\* Off, a short and a long interval, in ticks.
OffShortLong == {0, 4, 7}

TwoPackages == {linux, tool}

Host(f, h, t, w, m, n, k, o) ==
    [faults |-> f, hours |-> h, ttl |-> t, way |-> w, pm |-> m, out |-> n, holds |-> k, may |-> o]

\* Releases of the kernel and of the tool.
Out(k, t) == (linux :> k) @@ (tool :> t)

AllHolds == {"none", "phased", "deps", "both"}

\* The schedule itself: nothing is published, everything about it may change.
ScheduleSettings ==
    {Host(f, OffShortLong, 0, "ssh", "apk", Out(0, 0), {}, {"time", "restart", "save", "no answer"}) :
        f \in {{"unrecorded"}, {"short lives"}}}

\* Releases against the cache: one that outlives the interval, one that does not, and
\* none while the interval is saved.
ReleaseSettings ==
    {Host({}, {4}, 5, "lxc", "apt", Out(0, 2), {"none"}, {"time"}),
     Host({}, {4}, 3, "ssh", "apk", Out(0, 2), {"none"}, {"time", "restart"}),
     Host({}, {4}, 0, "ssh", "apk", Out(0, 1), {"none"}, {"time", "save"}),
     Host({}, {4}, 5, "lxc", "apt", Out(0, 1), {"none"}, {"time", "twin"})}

\* Upgrades, of hosts with and without a marker, of a container and of nodes.
UpgradeSettings ==
    {Host({}, {0}, 0, "ssh", "apt", Out(1, 1), AllHolds, {"upgrade", "fail", "timeout"}),
     Host({}, {0}, 0, "ssh", "apt", Out(0, 2), AllHolds, {"upgrade", "timeout"}),
     Host({}, {0}, 0, "lxc", "apt", Out(0, 1), {"none", "deps"}, {"upgrade", "fail"}),
     Host({}, {0}, 0, "ssh", "dnf", Out(1, 1), {"none"}, {"upgrade", "fail", "timeout", "reboot"}),
     Host({}, {0}, 0, "ssh", "zypper", Out(1, 1), {"none"}, {"upgrade", "overlap", "no mirror"}),
     Host({}, {0}, 0, "ssh", "unknown", Out(1, 1), {"none"}, {"upgrade"}),
     Host({}, {0}, 0, "ssh", "yum", Out(1, 0), {"none"}, {"upgrade", "no answer", "no sudo"}),
     Host({}, {0}, 0, "ssh", "pacman", Out(1, 2), {"none"}, {"upgrade", "no answer"}),
     Host({}, {0}, 0, "node", "apt", Out(1, 1), {"none", "deps"}, {"upgrade", "pinned"}),
     Host({}, {0}, 0, "node", "apt", Out(1, 1), {"none"}, {"upgrade", "no ssh"})}

AllSettings == ScheduleSettings \cup ReleaseSettings \cup UpgradeSettings
===============================================================================
