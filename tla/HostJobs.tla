-------------------------------- MODULE HostJobs --------------------------------
(***************************************************************************)
(* OS upgrades and reboots: the dashboard's background jobs (app/main.py), *)
(* the scheduled run (app/auto_update_scheduler.py) and the dispatch by    *)
(* kind of host that both share (app/host_ops.py).                         *)
(*                                                                         *)
(* A host is a plain one, a Proxmox node, a container or a VM.  A job      *)
(* works on the entry it was given when it was triggered, or, for a node's *)
(* upgrade, on the entry it finds when it starts; whether the entry's      *)
(* Proxmox server still exists is looked up at every dispatch.  Jobs are   *)
(* coroutines of one event loop: they interleave with each other and with  *)
(* the admin pages at every await.                                         *)
(***************************************************************************)
EXTENDS Naturals

CONSTANTS
    Hosts,      \* machines, all Proxmox ones on one server
    Kind,       \* "plain", "node", "lxc" or "vm"
    SelfNode,   \* KEEPUP_PROXMOX_NODE: the node Keepup runs on
    JobIds,     \* bound: the runs there will be
    FaultSets   \* what may come between: one of these sets, in each behaviour

ASSUME HostsAssumption == Kind \in [Hosts -> {"plain", "node", "lxc", "vm"}]

\* Host entries are edited in Admin > Hosts; the process is stopped.
Faults == {"edit", "stop"}
ASSUME FaultsAssumption == FaultSets \subseteq SUBSET Faults

VARIABLES
    faults,    \* what may come between in this behaviour; never changes
    entry,     \* config.yml: each host's entry (see Entry)
    server,    \* config.yml: the Proxmox server is configured
    sudo,      \* credential store: the hosts with a sudo password
    job,       \* _jobs and the scheduled runs under way
    activity,  \* the activity log: what is recorded of each run
    boot,      \* the machines: "up", "stopping" (a reboot was asked for) or "down"
    boots,     \* the machines: how often each came back
    did,       \* history: what each run did to its host
    rebooted   \* history: the hosts that Keepup asked to reboot

config == <<entry, server, sudo>>
machines == <<boot, boots>>
history == <<did, rebooted>>
vars == <<faults, config, job, activity, machines, history>>

\* An entry with proxmox_* fields has no SSH user; "bare" has neither; "root" and
\* "other" name the SSH user.
Entry == {"absent", "typed", "bare", "root", "other"}

NoJob == [type |-> "none", host |-> "none", given |-> "absent", phase |-> "free", since |-> 0]
Phases == {"free", "queued", "running", "deciding", "rebooting", "waiting", "done", "lost"}
Types == {"none", "upgrade", "node upgrade", "restart", "node restart", "scheduled"}
Job == [type : Types, host : Hosts \cup {"none"}, given : Entry, phase : Phases, since : Nat]

Outcomes == {"upgrade ok", "upgrade failed", "reboot ok", "reboot failed", "skipped"}

TypeOK ==
    /\ faults \in FaultSets
    /\ entry \in [Hosts -> Entry] /\ server \in BOOLEAN /\ sudo \subseteq Hosts
    /\ job \in [JobIds -> Job]
    /\ activity \in [JobIds -> SUBSET Outcomes]
    /\ boot \in [Hosts -> {"up", "stopping", "down"}]
    /\ boots \in [Hosts -> Nat]
    /\ did \in [JobIds -> SUBSET {"upgrade", "reboot"}] /\ rebooted \subseteq Hosts
    /\ \A j \in JobIds : /\ job[j].phase # "free" => job[j].host \in Hosts
                         /\ activity[j] # {} => job[j].phase \notin {"free", "queued", "running"}

\* Plain hosts are set up; the guests of the server are known to it only.
Init ==
    /\ faults \in FaultSets
    /\ entry \in [Hosts -> Entry]
    /\ \A h \in Hosts : IF Kind[h] = "plain" THEN entry[h] \in {"root", "other"}
                                             ELSE entry[h] = "absent"
    /\ server = TRUE
    /\ sudo \in SUBSET {h \in Hosts : Kind[h] = "plain"}
    /\ job = [j \in JobIds |-> NoJob]
    /\ activity = [j \in JobIds |-> {}]
    /\ boot = [h \in Hosts |-> "up"] /\ boots = [h \in Hosts |-> 0]
    /\ did = [j \in JobIds |-> {}] /\ rebooted = {}
-------------------------------------------------------------------------------
(***************************************************************************)
(* The admin pages and the machines.                                       *)
(***************************************************************************)

\* admin_proxmox_select_hosts, admin_proxmox_add_node_host
AddGuest(h) ==
    /\ server /\ Kind[h] # "plain" /\ entry[h] = "absent"
    /\ entry' = [entry EXCEPT ![h] = "typed"]
    /\ UNCHANGED <<faults, server, sudo, job, activity, machines, history>>

\* admin_update_host: rebuilds the entry around the SSH user it asks for.
UpdateHost(h, user) ==
    /\ "edit" \in faults /\ entry[h] # "absent"
    /\ entry' = [entry EXCEPT ![h] = user]
    /\ UNCHANGED <<faults, server, sudo, job, activity, machines, history>>

\* admin_delete_host
DeleteHost(h) ==
    /\ "edit" \in faults /\ entry[h] # "absent"
    /\ entry' = [entry EXCEPT ![h] = "absent"]
    /\ sudo' = sudo \ {h}
    /\ UNCHANGED <<faults, server, job, activity, machines, history>>

\* admin_save_credentials
SaveSudoPassword(h) ==
    /\ entry[h] # "absent" /\ h \notin sudo
    /\ sudo' = sudo \cup {h}
    /\ UNCHANGED <<faults, entry, server, job, activity, machines, history>>

\* delete_proxmox_server: nodes and containers go, VMs stay without their fields.
RemoveServer ==
    /\ server
    /\ server' = FALSE
    /\ entry' = [h \in Hosts |-> IF entry[h] # "typed" THEN entry[h]
                                 ELSE IF Kind[h] = "vm" THEN "bare" ELSE "absent"]
    /\ sudo' = {h \in sudo : entry'[h] # "absent"}
    /\ UNCHANGED <<faults, job, activity, machines, history>>

GoDown(h) ==
    /\ boot[h] = "stopping"
    /\ boot' = [boot EXCEPT ![h] = "down"]
    /\ UNCHANGED <<faults, config, job, activity, boots, history>>

ComeUp(h) ==
    /\ boot[h] = "down"
    /\ boot' = [boot EXCEPT ![h] = "up"]
    /\ boots' = [boots EXCEPT ![h] = @ + 1]
    /\ UNCHANGED <<faults, config, job, activity, history>>
-------------------------------------------------------------------------------
(***************************************************************************)
(* Triggering.                                                             *)
(***************************************************************************)
NeedsSudo(e) == e # "root"

\* _new_job
NewJob(j, type, h) ==
    /\ job[j] = NoJob
    /\ job' = [job EXCEPT ![j] = [type |-> type, host |-> h, given |-> entry[h],
                                  phase |-> "queued", since |-> boots[h]]]

\* host_update; a plain host that needs a password and gets none shows the form.
HostUpdate(j, h, given, save) ==
    /\ entry[h] # "absent"
    /\ IF entry[h] = "typed"
       THEN /\ NewJob(j, IF Kind[h] = "node" THEN "node upgrade" ELSE "upgrade", h)
            /\ UNCHANGED sudo
       ELSE /\ NeedsSudo(entry[h]) => given \/ h \in sudo
            /\ sudo' = IF NeedsSudo(entry[h]) /\ given /\ save THEN sudo \cup {h} ELSE sudo
            /\ NewJob(j, "upgrade", h)
    /\ UNCHANGED <<faults, entry, server, activity, machines, history>>

\* host_restart; the node Keepup runs on is refused at once.
HostRestart(j, h, given, save) ==
    /\ entry[h] # "absent"
    /\ IF entry[h] = "typed" /\ Kind[h] = "node"
       THEN /\ h # SelfNode
            /\ NewJob(j, "node restart", h)
            /\ UNCHANGED sudo
       ELSE /\ NeedsSudo(entry[h]) => given \/ h \in sudo
            /\ sudo' = IF NeedsSudo(entry[h]) /\ given /\ save THEN sudo \cup {h} ELSE sudo
            /\ NewJob(j, "restart", h)
    /\ UNCHANGED <<faults, entry, server, activity, machines, history>>

\* _run_os_update fires for a host with os_enabled.
FireScheduled(j, h) ==
    /\ entry[h] # "absent" /\ job[j] = NoJob
    /\ LET skip == NeedsSudo(entry[h]) /\ h \notin sudo
       IN  /\ job' = [job EXCEPT ![j] =
                        [type |-> "scheduled", host |-> h, given |-> entry[h],
                         phase |-> IF skip THEN "done" ELSE "queued", since |-> boots[h]]]
           /\ activity' = [activity EXCEPT ![j] = IF skip THEN {"skipped"} ELSE {}]
    /\ UNCHANGED <<faults, config, machines, history>>
-------------------------------------------------------------------------------
(***************************************************************************)
(* Running.                                                                *)
(***************************************************************************)

\* resolve_kind of the entry e of host h, now.
ResolveKind(h, e) == IF e = "typed" /\ server THEN Kind[h] ELSE "plain"

\* _connect refuses an entry without an SSH user.
Connects(e) == e \in {"root", "other"}

Reachable(h) == boot[h] # "down"

Goto(j, phase) == job' = [job EXCEPT ![j].phase = phase]
Record(j, outcome) == activity' = [activity EXCEPT ![j] = @ \cup {outcome}]
Finish(j, outcome) == Goto(j, "done") /\ Record(j, outcome) /\ UNCHANGED <<config, machines>>

\* run_os_update starts.  A node's job reads its entry now.
BeginUpgrade(j) ==
    /\ job[j].phase = "queued" /\ job[j].type \in {"upgrade", "node upgrade", "scheduled"}
    /\ LET h == job[j].host
           e == IF job[j].type = "node upgrade" THEN entry[h] ELSE job[j].given
       IN  /\ e # "absent" /\ Reachable(h)
           /\ ResolveKind(h, e) \in {"plain", "vm"} => Connects(e)
           /\ job' = [job EXCEPT ![j].phase = "running", ![j].given = e, ![j].since = boots[h]]
    /\ UNCHANGED <<faults, config, activity, machines, history>>

\* Mutant: the scheduled run takes a failed upgrade for a finished one.
UpgradeFailsQuietly(j) ==
    /\ \/ job[j].phase = "queued" /\ job[j].type \in {"upgrade", "node upgrade", "scheduled"}
       \/ job[j].phase = "running"
    /\ Finish(j, IF job[j].type = "scheduled" THEN "upgrade ok" ELSE "upgrade failed")
    /\ UNCHANGED <<faults, history>>

\* The entry is gone, the host cannot be reached or stops answering, the command
\* fails or takes too long.
UpgradeFails(j) ==
    /\ \/ job[j].phase = "queued" /\ job[j].type \in {"upgrade", "node upgrade", "scheduled"}
       \/ job[j].phase = "running"
    /\ Finish(j, "upgrade failed")
    /\ UNCHANGED <<faults, history>>

\* A scheduled run goes on to its auto-reboot, if there is one.
UpgradeSucceeds(j, autoReboot) ==
    /\ job[j].phase = "running"
    /\ boot[job[j].host] # "down" /\ boots[job[j].host] = job[j].since
    /\ Goto(j, IF job[j].type = "scheduled" /\ autoReboot THEN "deciding" ELSE "done")
    /\ Record(j, "upgrade ok")
    /\ did' = [did EXCEPT ![j] = @ \cup {"upgrade"}]
    /\ UNCHANGED <<faults, config, machines, rebooted>>

\* reboot_required_typed
RebootRequired(j, required) ==
    /\ job[j].phase = "deciding"
    /\ LET kind == ResolveKind(job[j].host, job[j].given)
       IN  /\ kind \in {"plain", "vm"} => Connects(job[j].given)
           /\ kind = "lxc" => ~required
    /\ Goto(j, IF required THEN "rebooting" ELSE "done")
    /\ UNCHANGED <<faults, config, activity, machines, history>>

AskReboot(j, h) ==
    /\ boot' = [boot EXCEPT ![h] = IF @ = "up" THEN "stopping" ELSE @]
    /\ did' = [did EXCEPT ![j] = @ \cup {"reboot"}]
    /\ rebooted' = rebooted \cup {h}

AtReboot(j) == job[j].phase = "rebooting" \/ (job[j].phase = "queued" /\ job[j].type = "restart")

\* Mutant: the guard is left to the route.
RebootUnguarded(j) ==
    /\ AtReboot(j)
    /\ LET h == job[j].host
           kind == ResolveKind(h, job[j].given)
       IN  /\ Reachable(h)
           /\ kind \in {"plain", "vm"} => Connects(job[j].given)
           /\ AskReboot(j, h)
    /\ Goto(j, "done") /\ Record(j, "reboot ok")
    /\ UNCHANGED <<faults, config, boots>>

\* reboot_host_typed, with its guard
Reboot(j) ==
    /\ AtReboot(j)
    /\ LET h == job[j].host
           kind == ResolveKind(h, job[j].given)
       IN  /\ Reachable(h)
           /\ kind = "node" => h # SelfNode
           /\ kind \in {"plain", "vm"} => Connects(job[j].given)
           /\ AskReboot(j, h)
    /\ Goto(j, "done") /\ Record(j, "reboot ok")
    /\ UNCHANGED <<faults, config, boots>>

\* A scheduled run records a failed reboot, or check, as a failed upgrade.
RebootFails(j) ==
    /\ AtReboot(j) \/ job[j].phase = "deciding"
    /\ Finish(j, IF job[j].type = "scheduled" THEN "upgrade failed" ELSE "reboot failed")
    /\ UNCHANGED <<faults, history>>

\* _job_run_proxmox_node_restart, up to the wait for the node.
RestartNode(j) ==
    /\ job[j].phase = "queued" /\ job[j].type = "node restart"
    /\ job[j].host # SelfNode /\ server /\ Reachable(job[j].host)
    /\ job' = [job EXCEPT ![j].phase = "waiting", ![j].since = boots[job[j].host]]
    /\ AskReboot(j, job[j].host)
    /\ UNCHANGED <<faults, config, activity, boots>>

RestartNodeFails(j) ==
    /\ job[j].phase = "queued" /\ job[j].type = "node restart"
    /\ Finish(j, "reboot failed")
    /\ UNCHANGED <<faults, history>>

\* wait_for_node: the API of the node answers a poll, then get_node_kernel does.
NodeAnswers(j) ==
    /\ job[j].phase = "waiting" /\ Reachable(job[j].host)
    /\ Finish(j, "reboot ok")
    /\ UNCHANGED <<faults, history>>

\* Mutant: the wait for the node has no end.
NodeStaysAwayForever(j) == FALSE /\ UNCHANGED vars

\* Ten minutes without an answer, or no kernel after it.
NodeStaysAway(j) ==
    /\ job[j].phase = "waiting"
    /\ Finish(j, "reboot failed")
    /\ UNCHANGED <<faults, history>>

Step(j) ==
    \/ BeginUpgrade(j) \/ UpgradeFails(j) \/ Reboot(j) \/ RebootFails(j)
    \/ RestartNode(j) \/ RestartNodeFails(j) \/ NodeAnswers(j) \/ NodeStaysAway(j)
    \/ \E b \in BOOLEAN : UpgradeSucceeds(j, b) \/ RebootRequired(j, b)

\* The process is stopped and started: _jobs is memory.
Stop ==
    /\ "stop" \in faults
    /\ job' = [j \in JobIds |-> IF job[j].phase \in {"free", "done"} THEN job[j]
                                ELSE [job[j] EXCEPT !.phase = "lost"]]
    /\ UNCHANGED <<faults, config, activity, machines, history>>

Next ==
    \/ RemoveServer \/ Stop
    \/ \E h \in Hosts : \/ AddGuest(h) \/ DeleteHost(h) \/ SaveSudoPassword(h)
                        \/ GoDown(h) \/ ComeUp(h)
                        \/ \E user \in {"root", "other"} : UpdateHost(h, user)
    \/ \E j \in JobIds :
         \/ Step(j)
         \/ \E h \in Hosts :
              \/ FireScheduled(j, h)
              \/ \E given, save \in BOOLEAN : HostUpdate(j, h, given, save) \/ HostRestart(j, h, given, save)

Spec == Init /\ [][Next]_vars

\* The event loop gets back to every job, whose awaits all have a time limit.  A
\* machine that went down need not come back.
FairSpec == Spec /\ \A j \in JobIds : WF_vars(Step(j))
-------------------------------------------------------------------------------
(***************************************************************************)
(* Properties                                                              *)
(***************************************************************************)

\* The node Keepup runs on is never asked to reboot, by the dashboard or by the
\* schedule, not even by a run whose Proxmox server is removed while it runs and
\* whose host is then handled like a plain one (but see SelfSparedAfterEdits).
SelfSpared == "edit" \notin faults => SelfNode \notin rebooted

\* The activity log never claims what was not done: a run recorded as a success
\* upgraded, or asked to reboot, its host, and a run that ended is on record.
RightlyTold ==
    \A j \in JobIds :
        /\ "upgrade ok" \in activity[j] => "upgrade" \in did[j]
        /\ "reboot ok" \in activity[j] => "reboot" \in did[j]
        /\ job[j].phase = "done" => activity[j] # {}

\* Every job ends, even if the machine it waits for never comes back: the
\* dashboard does not poll for ever.
JobEnds == \A j \in JobIds : job[j].phase = "queued" ~> job[j].phase \in {"done", "lost"}

\* "Detect 'this container' so Keepup never reboots its own Proxmox host out from
\* under itself", whatever is edited.
SelfSparedAfterEdits == SelfNode \notin rebooted

\* "Upgraded via pct exec [...]; no in-container SSH required": no scheduled run of
\* a Proxmox container is skipped for want of a sudo password.
GuestsNotSkipped ==
    \A j \in JobIds : "skipped" \in activity[j] /\ job[j].given = "typed" => Kind[job[j].host] # "lxc"

\* "reboot_node called, node returns, kernel shown": a restart of a node that ended
\* well has seen the node come back.
NodeSeenBack ==
    \A j \in JobIds : job[j].type = "node restart" /\ "reboot ok" \in activity[j]
                      => boots[job[j].host] > job[j].since
===============================================================================
