------------------------------ MODULE HostPackages ------------------------------
(***************************************************************************)
(* One host and its packages: what a check lists (check_host_updates in    *)
(* app/ssh_client.py, get_lxc_updates and get_node_updates in              *)
(* app/proxmox_client.py, the package managers of app/package_managers.py),*)
(* when a check fetches the package index again (app/update_check_cache.py)*)
(* what an upgrade installs, and whether a reboot is asked for afterwards. *)
(*                                                                         *)
(* Built on UpdateCheckSchedule, whose clock, restarts and checks these    *)
(* are: the job's check begins when it fires and ends with it, a check by  *)
(* hand ends in OnDemandCheck, and a restart empties the cache.            *)
(*                                                                         *)
(* The host is outside: its package manager is modelled by what the code   *)
(* relies on.  A transaction holds the manager's lock and goes on when     *)
(* Keepup has given up on it.                                              *)
(***************************************************************************)
EXTENDS UpdateCheckSchedule

CONSTANTS
    Pkgs, Kernel,  \* the packages of the host, and the one that is its kernel
    MaxVersion,    \* bound: releases of a package
    CheckTime,     \* how long a check takes at most (HOST_SCAN_TIMEOUT), less than an interval
    Settings       \* the hosts and surroundings that are looked at (see Setting)

Managers == {"apt", "dnf", "yum", "zypper", "pacman", "apk", "unknown"}

\* What may happen beside checks: time passes; restarts, saved intervals, upgrades, reboots by
\* hand; upgrades that fail, time out or overlap; a mirror that cannot be reached, a
\* check that fails, a login that may not use sudo, a node that takes no SSH login, a
\* container of another server with the same node name and number, a pinned kernel.
May == {"time", "restart", "save", "upgrade", "reboot", "fail", "timeout", "overlap",
        "no mirror", "no answer", "no sudo", "no ssh", "twin", "pinned"}

\* out: bound, the releases there are of each package.
\* way: an SSH host, a container reached by pct exec, a node asked through the API.
Setting ==
    [faults : FaultSets, hours : SUBSET Intervals, ttl : Nat, way : {"ssh", "lxc", "node"},
     pm : Managers, out : [Pkgs -> 0..MaxVersion], holds : SUBSET {"none", "phased", "deps", "both"}, may : SUBSET May]

ASSUME PackagesAssumption ==
    /\ Kernel \in Pkgs /\ MaxVersion \in Nat
    /\ CheckTime \in Nat \ {0} /\ \A h \in Intervals \ {0} : CheckTime < h
ASSUME SettingsAssumption ==
    /\ Settings \subseteq Setting
    /\ \A s \in Settings : s.way # "ssh" => s.pm = "apt"
    /\ \A s \in Settings : s.pm # "apt" => s.holds \subseteq {"none"}

VARIABLES
    host,     \* the setting of this behaviour; never changes
    repo,     \* the mirror: newest release of each package, and what holds it back
    index,    \* the host's copy of that
    inst,     \* the version that is installed
    running,  \* the kernel that was booted
    txn,      \* the transaction of the package manager, and who began it
    fresh,    \* _last_refresh: how long ago the index was fetched, or Never
    probe,    \* the checks under way
    report,   \* what the last check said
    wait,     \* how long the newest release is out without being reported
    run       \* the upgrade by hand and the scheduled one

hostVars == <<repo, index, inst, running, txn>>
appVars == <<fresh, probe, report, run>>
cycleVars == <<vars, host, hostVars, appVars, wait>>

Versions == 0..MaxVersion

\* A release is reported by the first scheduled check after the index has expired.
\* The index may be a check older than its stamp, and that check takes its time.  A
\* check may also have begun before the interval was saved, so that the first time
\* the job fires is missed.
ReportBound(h) == h + (IF host.ttl = 0 THEN 0 ELSE host.ttl - 1) + 2 * CheckTime
MaxWait == ReportBound(MaxAge) + 1

Callers == {"job", "user", "auto"}
Runners == {"manual", "auto"}
Nothing == [p \in Pkgs |-> 0]

NoProbe == [at |-> "off", refresh |-> FALSE, listed |-> Nothing, took |-> 0]
NoTxn == [open |-> FALSE, todo |-> Nothing, by |-> "manual"]
NoRun == [phase |-> "idle", goal |-> Nothing]

CycleTypeOK ==
    /\ TypeOK
    /\ host \in Settings
    /\ repo \in [Pkgs -> [ver : Versions, hold : {"none", "phased", "deps", "both"}]]
    /\ index \in [Pkgs -> [ver : Versions, hold : {"none", "phased", "deps", "both"}]]
    /\ inst \in [Pkgs -> Versions] /\ running \in Versions
    /\ txn \in [open : BOOLEAN, todo : [Pkgs -> Versions], by : Runners]
    /\ fresh \in 0..host.ttl \cup {Never}
    /\ probe \in [Callers -> [at : {"off", "asked", "listed"}, refresh : BOOLEAN,
                              listed : [Pkgs -> Versions], took : 0..CheckTime]]
    /\ report \in [listed : [Pkgs -> Versions], reboot : BOOLEAN,
                   status : [Pkgs -> {"no", "apply", "phased", "full"}]]
    /\ wait \in [Pkgs -> 0..MaxWait]
    /\ run \in [Runners -> [phase : {"idle", "started", "running", "done", "asking",
                                     "rebooting", "finished", "failed"},
                            goal : [Pkgs -> Versions]]]

\* A host that is up to date and has not been checked.
CycleInit ==
    /\ Init
    /\ host \in Settings /\ faults = host.faults /\ hours \in host.hours
    /\ repo = [p \in Pkgs |-> [ver |-> 0, hold |-> "none"]]
    /\ index = repo
    /\ inst = Nothing /\ running = 0
    /\ txn = NoTxn
    /\ fresh = Never
    /\ probe = [c \in Callers |-> NoProbe]
    /\ report = [listed |-> Nothing, reboot |-> FALSE, status |-> [p \in Pkgs |-> "no"]]
    /\ wait = [p \in Pkgs |-> 0]
    /\ run = [b \in Runners |-> NoRun]
-------------------------------------------------------------------------------
(***************************************************************************)
(* Package managers.                                                       *)
(***************************************************************************)

\* DETECT_CMD runs under sudo; if that is refused nothing is printed.
DetectedPm == IF host.way = "ssh" /\ "no sudo" \in host.may THEN "unknown" ELSE host.pm

\* list_cmd: which managers fetch the index when they are told to, and always.
ListFetches(pm, refresh) == pm \in {"dnf", "yum"} \/ (refresh /\ pm # "unknown")

\* upgrade_cmd: which of them fetch it before they upgrade.
UpgradeFetches(pm) == pm \in {"dnf", "yum", "pacman"}

\* The reboot marker: /var/run/reboot-required, needs-restarting, needs-rebooting.
HasMarker(pm) == pm \in {"apt", "dnf", "yum", "zypper"}

\* apt list --upgradable, dnf check-update, zypper lu, pacman -Qu, apk version.
Upgradable(idx) == {p \in Pkgs : inst[p] < idx[p].ver}

\* apt-get -s upgrade and apt-get -s full-upgrade.
Applicable == {p \in Upgradable(index) : index[p].hold = "none"}
FullApplicable == {p \in Upgradable(index) : index[p].hold \in {"none", "deps"}}

\* Mutant: the full upgrade is taken for what an upgrade installs.
HeldBackFull(p) == p \notin FullApplicable

\* parse: a listed package that an upgrade would not install.
HeldBack(p) == p \notin Applicable

\* parse, of the lines of a listing and of the simulations after it.  A node's
\* packages come from the API, without them.
StatusOf(listed) ==
    [p \in Pkgs |->
        IF listed[p] = 0 THEN "no"
        ELSE IF host.way = "node" \/ host.pm # "apt" \/ ~HeldBack(p) THEN "apply"
        ELSE IF p \in FullApplicable THEN "full" ELSE "phased"]

\* _kernel_update_in
KernelAmong(status) == status[Kernel] = "apply"

\* resolve_next_boot_kernel
NextBoot == IF host.way = "node" /\ "pinned" \in host.may THEN 0 ELSE inst[Kernel]

\* node_reboot_required, or the API's kernels when that cannot be asked.
NodeNeedsReboot == (IF "no ssh" \in host.may THEN inst[Kernel] ELSE NextBoot) > running

\* Mutant: only a kernel that is still to be installed asks for a reboot.
RebootFlagListed(pm, status) == KernelAmong(status)

\* parse, reboot_required_typed: what a check says about rebooting.
RebootFlag(pm, status) ==
    CASE host.way = "lxc" -> FALSE
      [] host.way = "node" -> NodeNeedsReboot
      [] OTHER -> KernelAmong(status) \/ (HasMarker(pm) /\ inst[Kernel] > running)

\* What an upgrade installs from the index idx.
Installs(idx) ==
    [p \in Pkgs |-> IF p \in Upgradable(idx) /\ idx[p].hold = "none" THEN idx[p].ver ELSE 0]
-------------------------------------------------------------------------------
(***************************************************************************)
(* The cache.                                                              *)
(***************************************************************************)
IsCacheFresh == host.ttl > 0 /\ fresh # Never /\ fresh < host.ttl

\* Mutant: every check is taken for one that fetched the index.
MarkRefreshedAlways(c) == fresh' = 0

\* mark_refreshed, when a check that was to fetch the index has ended.
MarkRefreshed(c) == fresh' = IF probe[c].refresh THEN 0 ELSE fresh
-------------------------------------------------------------------------------
(***************************************************************************)
(* Checks.                                                                 *)
(***************************************************************************)

\* check_host_updates begins: is the index to be fetched again?
BeginProbe(c) ==
    /\ probe[c] = NoProbe
    /\ probe' = [probe EXCEPT ![c].at = "asked",
                              ![c].refresh = host.way # "node" /\ ~IsCacheFresh]

\* The commands on the host, up to the list.  That the fetch failed is not seen.
RunList(c) ==
    /\ probe[c].at = "asked"
    /\ IF host.way # "node" /\ ListFetches(DetectedPm, probe[c].refresh)
       THEN index' = repo \/ ("no mirror" \in host.may /\ UNCHANGED index)
       ELSE UNCHANGED index
    /\ probe' = [probe EXCEPT ![c].at = "listed",
                   ![c].listed = [p \in Pkgs |->
                       IF DetectedPm # "unknown" /\ p \in Upgradable(index') THEN index'[p].ver ELSE 0]]
    /\ UNCHANGED <<vars, host, repo, inst, running, txn, fresh, report, wait, run>>

\* The simulations, the reboot marker, and what the check makes of it all.
Result(c) ==
    LET status == StatusOf(probe[c].listed)
    IN  [listed |-> probe[c].listed, status |-> status, reboot |-> RebootFlag(DetectedPm, status)]

EndProbe(c) ==
    /\ probe[c].at = "listed"
    /\ probe' = [probe EXCEPT ![c] = NoProbe]
    /\ MarkRefreshed(c)

\* The connection or a command fails, or it takes too long: an exception.
DropProbe(c) ==
    /\ probe[c] # NoProbe /\ "no answer" \in host.may
    /\ probe' = [probe EXCEPT ![c] = NoProbe]
    /\ UNCHANGED fresh

Untold(r) == {p \in Pkgs : inst[p] < repo[p].ver /\ r.listed[p] < repo[p].ver}
Told(r) == wait' = [p \in Pkgs |-> IF p \in Untold(r) THEN wait[p] ELSE 0]

FireProbe ==
    /\ Fire
    /\ IF checking THEN UNCHANGED probe ELSE BeginProbe("job")
    /\ UNCHANGED <<host, hostVars, fresh, report, wait, run>>

FinishProbe ==
    /\ Finish
    /\ EndProbe("job") /\ report' = Result("job") /\ Told(report')
    /\ UNCHANGED <<host, hostVars, run>>

\* scan_hosts: the scan ends although this host was not checked.
FinishWithout ==
    /\ Finish
    /\ DropProbe("job")
    /\ UNCHANGED <<host, hostVars, report, wait, run>>

AskProbe ==
    /\ up
    /\ BeginProbe("user")
    /\ UNCHANGED <<vars, host, hostVars, fresh, report, wait, run>>

AnswerProbe ==
    /\ OnDemandCheck
    /\ EndProbe("user") /\ report' = Result("user") /\ Told(report')
    /\ UNCHANGED <<host, hostVars, run>>

\* host_check: the error is shown, and no time is put on record.
AskFails ==
    /\ DropProbe("user")
    /\ UNCHANGED <<vars, host, hostVars, report, wait, run>>
-------------------------------------------------------------------------------
(***************************************************************************)
(* Upgrades.                                                               *)
(***************************************************************************)
SetPhase(b, phase) == run' = [run EXCEPT ![b].phase = phase]

\* Offered: the packages of the last check that an upgrade is said to install.
Offered == [p \in Pkgs |-> IF report.status[p] = "apply" THEN report.listed[p] ELSE 0]

StartUpgrade(b) ==
    /\ up /\ "upgrade" \in host.may /\ run[b] = NoRun
    /\ "overlap" \in host.may \/ \A o \in Runners : run[o] = NoRun
    /\ run' = [run EXCEPT ![b] = [phase |-> "started", goal |-> Offered]]
    /\ UNCHANGED <<vars, host, hostVars, fresh, probe, report, wait>>

\* The upgrade command: with no manager an echo, without sudo an error; a lock that
\* is held is waited for by dnf and yum, and an error to the others.
BeginTransaction(b) ==
    /\ run[b].phase = "started"
    /\ \/ /\ DetectedPm = "unknown" \/ "no ssh" \in host.may
          /\ SetPhase(b, IF host.may \cap {"no sudo", "no ssh"} # {} THEN "failed" ELSE "done")
          /\ UNCHANGED <<index, txn>>
       \/ /\ DetectedPm \notin {"unknown", "dnf", "yum"} /\ txn.open
          /\ SetPhase(b, "failed")
          /\ UNCHANGED <<index, txn>>
       \/ /\ DetectedPm # "unknown" /\ "no ssh" \notin host.may /\ ~txn.open
          /\ index' = IF UpgradeFetches(DetectedPm) THEN repo ELSE index
          /\ txn' = [open |-> TRUE, todo |-> Installs(index'), by |-> b]
          /\ SetPhase(b, "running")
    /\ UNCHANGED <<vars, host, repo, inst, running, fresh, probe, report, wait>>

Install(p) ==
    /\ txn.open /\ txn.todo[p] # 0
    /\ inst' = [inst EXCEPT ![p] = txn.todo[p]]
    /\ txn' = [txn EXCEPT !.todo[p] = 0]
    /\ UNCHANGED <<vars, host, repo, index, running, appVars, wait>>

\* How run_host_update_buffered and upgrade_lxc end, by the exit status.
ReturnOf(ok) == IF ok THEN "done" ELSE "failed"

\* The transaction ends; whoever still waits for it learns how.
EndTransaction(ok) ==
    /\ txn.open
    /\ IF ok THEN txn.todo = Nothing ELSE "fail" \in host.may
    /\ txn' = NoTxn
    /\ IF run[txn.by].phase = "running" THEN SetPhase(txn.by, ReturnOf(ok)) ELSE UNCHANGED run
    /\ UNCHANGED <<vars, host, repo, index, inst, running, fresh, probe, report, wait>>

\* Mutant: what was printed until the timeout is returned.
UpgradeTimesOutQuietly(b) ==
    /\ run[b].phase = "running" /\ "timeout" \in host.may
    /\ SetPhase(b, "done")
    /\ UNCHANGED <<vars, host, hostVars, fresh, probe, report, wait>>

\* UpgradeTimeout: the transaction may go on.
UpgradeTimesOut(b) ==
    /\ run[b].phase = "running" /\ "timeout" \in host.may
    /\ SetPhase(b, "failed")
    /\ UNCHANGED <<vars, host, hostVars, fresh, probe, report, wait>>

\* _run_os_update with auto_reboot, after the upgrade: reboot_required_typed.  A
\* container shares the kernel of its node and is not asked.
AskReboot ==
    /\ run["auto"].phase = "done"
    /\ IF host.way = "lxc" THEN SetPhase("auto", "finished") /\ UNCHANGED probe
       ELSE SetPhase("auto", "asking") /\ BeginProbe("auto")
    /\ UNCHANGED <<vars, host, hostVars, fresh, report, wait>>

AskRebootAnswered ==
    /\ run["auto"].phase = "asking"
    /\ EndProbe("auto")
    /\ SetPhase("auto", IF Result("auto").reboot THEN "rebooting" ELSE "finished")
    /\ UNCHANGED <<vars, host, hostVars, report, wait>>

AskRebootFails ==
    /\ run["auto"].phase = "asking"
    /\ DropProbe("auto")
    /\ SetPhase("auto", "failed")
    /\ UNCHANGED <<vars, host, hostVars, report, wait>>

\* The host boots what it has installed, and an open transaction dies.
Boot(newRun) ==
    /\ running' = NextBoot
    /\ txn' = NoTxn
    /\ run' = IF txn.open /\ newRun[txn.by].phase = "running"
              THEN [newRun EXCEPT ![txn.by].phase = "failed"] ELSE newRun
    /\ UNCHANGED <<vars, host, repo, index, inst, fresh, probe, report, wait>>

AutoReboot ==
    /\ run["auto"].phase = "rebooting"
    /\ Boot([run EXCEPT !["auto"].phase = "finished"])

\* The restart button of the dashboard, or somebody at the host.
RebootByHand ==
    /\ "reboot" \in host.may
    /\ Boot(run)

EndRun(b) ==
    /\ run[b].phase \in {"failed", "finished"} \/ (b = "manual" /\ run[b].phase = "done")
    /\ run' = [run EXCEPT ![b] = NoRun]
    /\ UNCHANGED <<vars, host, hostVars, fresh, probe, report, wait>>
-------------------------------------------------------------------------------
(***************************************************************************)
(* The surroundings.                                                       *)
(***************************************************************************)
Publish(p) ==
    /\ repo[p].ver < host.out[p]
    /\ \E h \in host.holds : repo' = [repo EXCEPT ![p] = [ver |-> @.ver + 1, hold |-> h]]
    /\ wait' = [wait EXCEPT ![p] = 0]
    /\ UNCHANGED <<vars, host, index, inst, running, txn, appVars>>

\* A phased release reaches everybody.
RolledOut(p) ==
    /\ repo[p].hold \in {"phased", "both"}
    /\ repo' = [repo EXCEPT ![p].hold = IF @ = "both" THEN "deps" ELSE "none"]
    /\ UNCHANGED <<vars, host, index, inst, running, txn, appVars, wait>>

\* A node fetches its index by itself.
NodeFetches ==
    /\ host.way = "node"
    /\ index' = repo
    /\ UNCHANGED <<vars, host, repo, inst, running, txn, appVars, wait>>

\* A container of another server is checked under the same cache key.
TwinRefreshed ==
    /\ up /\ "twin" \in host.may /\ ~IsCacheFresh
    /\ fresh' = 0
    /\ UNCHANGED <<vars, host, hostVars, probe, report, wait, run>>

\* Time passes; no check takes longer than it may.
Pass ==
    /\ "time" \in host.may
    /\ Tick
    /\ \A c \in Callers : probe[c] # NoProbe => probe[c].took < CheckTime
    /\ probe' = [c \in Callers |-> IF probe[c] = NoProbe THEN NoProbe ELSE [probe[c] EXCEPT !.took = @ + 1]]
    /\ fresh' = IF fresh = Never \/ fresh = host.ttl THEN fresh ELSE fresh + 1
    /\ wait' = [p \in Pkgs |->
                  IF p \in Untold(report) /\ due # NoJob /\ Applied /\ wait[p] < MaxWait
                  THEN wait[p] + 1 ELSE wait[p]]
    /\ UNCHANGED <<host, hostVars, report, run>>

StartUp == Startup /\ UNCHANGED <<host, hostVars, appVars, wait>>

\* The cache, checks and runs are gone; a transaction is not.
ShutDown ==
    /\ "restart" \in host.may
    /\ Stop
    /\ fresh' = Never
    /\ probe' = [c \in Callers |-> NoProbe]
    /\ run' = [b \in Runners |-> NoRun]
    /\ wait' = [p \in Pkgs |-> 0]
    /\ UNCHANGED <<host, hostVars, report>>

Save(h) ==
    /\ "save" \in host.may
    /\ SaveInterval(h) \/ WizardSave(h)
    /\ wait' = [p \in Pkgs |-> 0]
    /\ UNCHANGED <<host, hostVars, appVars>>

CycleNext ==
    \/ StartUp \/ ShutDown \/ Pass \/ (\E h \in Intervals : Save(h))
    \/ FireProbe \/ FinishProbe \/ FinishWithout \/ AskProbe \/ AnswerProbe \/ AskFails
    \/ \E c \in Callers : RunList(c)
    \/ \E b \in Runners : StartUpgrade(b) \/ BeginTransaction(b) \/ UpgradeTimesOut(b) \/ EndRun(b)
    \/ \E p \in Pkgs : Install(p) \/ Publish(p) \/ RolledOut(p)
    \/ \E ok \in BOOLEAN : EndTransaction(ok)
    \/ AskReboot \/ AskRebootAnswered \/ AskRebootFails \/ AutoReboot \/ RebootByHand
    \/ NodeFetches \/ TwinRefreshed

CycleSpec == CycleInit /\ [][CycleNext]_cycleVars

\* As in UpdateCheckSchedule, with the steps of a check (_CHECK_TIMEOUT).
CycleFairness ==
    /\ WF_cycleVars(StartUp) /\ WF_cycleVars(Pass) /\ WF_cycleVars(FireProbe)
    /\ WF_cycleVars(FinishProbe) /\ WF_cycleVars(AnswerProbe) /\ WF_cycleVars(AskRebootAnswered)
    /\ \A c \in Callers : WF_cycleVars(RunList(c))

FairCycleSpec == CycleSpec /\ CycleFairness
-------------------------------------------------------------------------------
(***************************************************************************)
(* Properties                                                              *)
(***************************************************************************)

\* However checks by hand, scheduled checks and restarts share the cached index, a
\* release is reported within an interval and the life of the cache of its
\* publication, if the mirror and the host can be reached.
ToldInTime ==
    /\ host.way # "node" /\ host.pm # "unknown"
    /\ host.may \cap {"no mirror", "no answer", "no sudo", "twin"} = {}
    => \A p \in Pkgs : wait[p] <= ReportBound(hours)

\* An upgrade that is reported as done has installed what the check before it
\* offered, unless a newer release has come in between: whatever is held back, has
\* failed half-way or goes on after a timeout.
DoneIsApplied ==
    host.way # "node" =>
        \A b \in Runners : run[b].phase \in {"done", "asking", "rebooting", "finished"} =>
            \A p \in Pkgs : inst[p] >= run[b].goal[p] \/ index[p].ver > run[b].goal[p]

\* A scheduled upgrade with auto_reboot that comes to its end leaves no host on an
\* older kernel than it would boot, if the package manager marks a pending reboot.
RebootedForKernel ==
    /\ run["auto"].phase = "finished"
    /\ HasMarker(host.pm) /\ host.way # "lxc"
    /\ host.may \cap {"overlap", "no sudo"} = {}
    => running = NextBoot

\* "a hard cancel mid dpkg/rpm can leave the package database half-configured": no
\* scheduled reboot hits a transaction, not even that of an upgrade that was given up.
NoRebootMidTransaction ==
    [][ run["auto"].phase = "rebooting" /\ run'["auto"].phase = "finished"
        => "overlap" \in host.may \/ ~txn.open ]_cycleVars

\* "Reboot logic has two independent signals": a host that installs a kernel is
\* rebooted whatever its package manager.
RebootedOnAnyManager ==
    run["auto"].phase = "finished" /\ host.way = "ssh" /\ "overlap" \notin host.may => running = NextBoot

\* "monitoring and applying OS package updates": what is listed for a node is installed.
NodeListIsApplied ==
    \A b \in Runners : run[b].phase = "done" =>
        \A p \in Pkgs : inst[p] >= run[b].goal[p] \/ index[p].ver > run[b].goal[p]

\* "the first check after restart always refreshes (safe default)", and every check
\* after the cache has expired: also for containers with the same name and number.
ToldInTimeTwins ==
    host.may \cap {"no mirror", "no answer", "no sudo"} = {} /\ host.way # "node" =>
        \A p \in Pkgs : wait[p] <= ReportBound(hours)
===============================================================================
