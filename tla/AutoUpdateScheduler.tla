-------------------------- MODULE AutoUpdateScheduler --------------------------
(***************************************************************************)
(* Unattended updates: the schedules in config.yml, the jobs APScheduler   *)
(* holds in memory for them, and the coroutines those jobs start           *)
(* (app/auto_update_scheduler.py, app/auto_updates_router.py), with the    *)
(* admin routes that change the configuration underneath                   *)
(* (app/admin.py, app/config_manager.py).                                  *)
(*                                                                         *)
(* A request handler never awaits between reading and writing the          *)
(* configuration, so it is one action.  A run awaits the host: the         *)
(* configuration can change while it is under way.  The job store is in    *)
(* memory and a job never overlaps itself (max_instances is 1), which is   *)
(* all that is modelled of APScheduler.                                    *)
(***************************************************************************)
EXTENDS FiniteSets

CONSTANTS
    Hosts,         \* host slugs
    NeedsSudo,     \* the hosts whose user is not root
    Stacks,        \* update_paths of container stacks
    OnPortainer,   \* the stacks served by the Portainer backend, not over SSH
    StackHost,     \* the host of each stack
    JobIds,        \* scheduler ids of stack jobs
    StackJobId,    \* the id _stack_job_id makes of each update_path
    NoStack        \* no job under this id

ASSUME HostsAssumption == NeedsSudo \subseteq Hosts /\ Hosts \cap JobIds = {}
ASSUME StacksAssumption ==
    /\ OnPortainer \subseteq Stacks /\ NoStack \notin Stacks
    /\ StackJobId \in [Stacks -> JobIds] /\ StackHost \in [Stacks -> Hosts]

VARIABLES
    up,            \* the process is running
    configured,    \* config.yml: the hosts it lists
    osEnabled,     \* config.yml: the hosts with auto_update.os_enabled
    autoReboot,    \* config.yml: those with auto_update.auto_reboot
    sudo,          \* credential store: the hosts with a sudo_password
    stackEnabled,  \* config.yml: stack_auto_update
    portainer,     \* config.yml and credential store: Portainer is set up
    backend,       \* _backends holds a PortainerBackend
    osJob,         \* scheduler: the hosts with an OS job
    stackJob,      \* scheduler: the stack each job id updates
    wiped,         \* a factory reset happened since the process started
    run,           \* where the run of each job is
    reboots,       \* the runs that read auto_reboot before they awaited
    entry,         \* what the last run of each job wrote to the activity log
    told           \* the jobs whose last run sent a notification

config == <<configured, osEnabled, autoReboot, sudo, stackEnabled, portainer>>
jobs == <<osJob, stackJob>>
runs == <<run, reboots, entry, told>>
vars == <<up, config, backend, jobs, wiped, runs>>

Jobs == Hosts \cup JobIds

Entry == {"os_upgrade", "reboot", "container_redeploy"} \X {"success", "error", "skipped"}

TypeOK ==
    /\ up \in BOOLEAN /\ portainer \in BOOLEAN /\ backend \in BOOLEAN /\ wiped \in BOOLEAN
    /\ configured \subseteq Hosts /\ osEnabled \subseteq configured
    /\ autoReboot \subseteq osEnabled /\ sudo \subseteq Hosts
    /\ stackEnabled \subseteq Stacks
    /\ osJob \subseteq Hosts
    /\ stackJob \in [JobIds -> Stacks \cup {NoStack}]
    /\ run \in [Jobs -> {"idle", "upgrading", "checking", "rebooting", "redeploying"}]
    /\ reboots \subseteq Hosts
    /\ entry \in [Jobs -> SUBSET Entry]
    /\ told \subseteq Jobs

\* A fresh install, with the process up and nothing configured.
Init ==
    /\ up = TRUE /\ portainer = FALSE /\ backend = FALSE /\ wiped = FALSE
    /\ configured = {} /\ osEnabled = {} /\ autoReboot = {} /\ sudo = {}
    /\ stackEnabled = {}
    /\ osJob = {}
    /\ stackJob = [j \in JobIds |-> NoStack]
    /\ run = [r \in Jobs |-> "idle"]
    /\ reboots = {}
    /\ entry = [r \in Jobs |-> {}]
    /\ told = {}
-------------------------------------------------------------------------------
(***************************************************************************)
(* Admin routes.                                                           *)
(***************************************************************************)
AddHost(h) ==
    /\ up /\ h \notin configured
    /\ configured' = configured \cup {h}
    /\ UNCHANGED <<up, osEnabled, autoReboot, sudo, stackEnabled, portainer, backend, jobs, wiped, runs>>

\* admin_delete_host: the scheduler is not told.
DeleteHost(h) ==
    /\ up /\ h \in configured
    /\ configured' = configured \ {h}
    /\ osEnabled' = osEnabled \ {h}
    /\ autoReboot' = autoReboot \ {h}
    /\ sudo' = sudo \ {h}
    /\ UNCHANGED <<up, stackEnabled, portainer, backend, jobs, wiped, runs>>

\* admin_update_host: the rebuilt entry keeps no auto_update, the credentials
\* follow the slug, and the scheduler is not told.
UpdateHost(h, g) ==
    /\ up /\ h \in configured /\ (g = h \/ g \notin configured)
    /\ configured' = (configured \ {h}) \cup {g}
    /\ osEnabled' = osEnabled \ {h}
    /\ autoReboot' = autoReboot \ {h}
    /\ sudo' = IF h \in sudo THEN (sudo \ {h}) \cup {g} ELSE sudo
    /\ UNCHANGED <<up, stackEnabled, portainer, backend, jobs, wiped, runs>>

SaveSudoPassword(h) ==
    /\ up /\ h \in configured
    /\ sudo' = sudo \cup {h}
    /\ UNCHANGED <<up, configured, osEnabled, autoReboot, stackEnabled, portainer, backend, jobs,
                   wiped, runs>>

\* Mutant: the job is brought in line with the configuration before the save.
ApplyHostScheduleStale(h) ==
    osJob' = IF h \in osEnabled THEN osJob \cup {h} ELSE osJob \ {h}

\* apply_host_schedule, on the configuration just saved.
ApplyHostSchedule(h) ==
    osJob' = IF h \in osEnabled' THEN osJob \cup {h} ELSE osJob \ {h}

\* POST /hosts/{slug} with a valid schedule; an invalid one changes nothing.
SaveHostAutoUpdate(h, enabled, reboot) ==
    /\ up
    /\ osEnabled' = IF enabled /\ h \in configured THEN osEnabled \cup {h} ELSE osEnabled \ {h}
    /\ autoReboot' = IF enabled /\ reboot /\ h \in configured
                     THEN autoReboot \cup {h} ELSE autoReboot \ {h}
    /\ ApplyHostSchedule(h)
    /\ UNCHANGED <<up, configured, sudo, stackEnabled, portainer, backend, stackJob, wiped, runs>>

ApplyStackSchedule(p) ==
    stackJob' = [stackJob EXCEPT ![StackJobId[p]] = IF p \in stackEnabled' THEN p ELSE NoStack]

\* POST /stacks/{backend_key}/{ref}
SaveStackAutoUpdate(p, enabled) ==
    /\ up
    /\ stackEnabled' = IF enabled THEN stackEnabled \cup {p} ELSE stackEnabled \ {p}
    /\ ApplyStackSchedule(p)
    /\ UNCHANGED <<up, configured, osEnabled, autoReboot, sudo, portainer, backend, osJob, wiped, runs>>

\* Saving or clearing the Portainer integration reloads the backends at once.
SavePortainer(set) ==
    /\ up
    /\ portainer' = set
    /\ backend' = set
    /\ UNCHANGED <<up, configured, osEnabled, autoReboot, sudo, stackEnabled, jobs, wiped, runs>>

\* admin_factory_reset: the files are wiped; scheduler and backends are not told.
FactoryReset ==
    /\ up
    /\ configured' = {} /\ osEnabled' = {} /\ autoReboot' = {} /\ sudo' = {}
    /\ stackEnabled' = {}
    /\ portainer' = FALSE
    /\ wiped' = TRUE
    /\ UNCHANGED <<up, backend, jobs, runs>>
-------------------------------------------------------------------------------
(***************************************************************************)
(* Process life cycle.                                                     *)
(***************************************************************************)
Stop ==
    /\ up
    /\ up' = FALSE
    /\ osJob' = {}
    /\ stackJob' = [j \in JobIds |-> NoStack]
    /\ backend' = FALSE
    /\ run' = [r \in Jobs |-> "idle"]
    /\ reboots' = {}
    /\ UNCHANGED <<config, wiped, entry, told>>

\* apply_all_schedules: of the stacks that share a job id, the one applied last
\* keeps it.
ApplyAllSchedules ==
    /\ osJob' = osEnabled
    /\ stackJob' \in [JobIds -> Stacks \cup {NoStack}]
    /\ \A j \in JobIds :
         LET sharing == {p \in stackEnabled : StackJobId[p] = j}
         IN  IF sharing = {} THEN stackJob'[j] = NoStack ELSE stackJob'[j] \in sharing

\* _startup
Startup ==
    /\ ~up
    /\ up' = TRUE
    /\ backend' = portainer
    /\ ApplyAllSchedules
    /\ wiped' = FALSE
    /\ UNCHANGED <<config, runs>>
-------------------------------------------------------------------------------
(***************************************************************************)
(* _run_os_update                                                          *)
(***************************************************************************)
Goto(r, step) == run' = [run EXCEPT ![r] = step]

Record(r, entries) == entry' = [entry EXCEPT ![r] = @ \cup entries]

\* The job fires.  It may be left over from a host that is gone or switched off.
FireOs(h) ==
    /\ up /\ h \in osJob /\ run[h] = "idle"
    /\ h \in osEnabled
    /\ IF h \in NeedsSudo \ sudo
       THEN /\ entry' = [entry EXCEPT ![h] = {<<"os_upgrade", "skipped">>}]
            /\ told' = told \cup {h}
            /\ UNCHANGED <<run, reboots>>
       ELSE /\ Goto(h, "upgrading")
            /\ reboots' = IF h \in autoReboot THEN reboots \cup {h} ELSE reboots \ {h}
            /\ entry' = [entry EXCEPT ![h] = {}]
            /\ told' = told \ {h}
    /\ UNCHANGED <<up, config, backend, jobs, wiped>>

\* Mutant: a failed run is recorded and nobody is told.
FailOsQuietly(h) ==
    /\ Goto(h, "idle")
    /\ Record(h, {<<"os_upgrade", "error">>})
    /\ UNCHANGED told

\* The except clause: whatever failed, the run is recorded as a failed upgrade.
FailOs(h) ==
    /\ Goto(h, "idle")
    /\ Record(h, {<<"os_upgrade", "error">>})
    /\ told' = told \cup {h}

\* Mutant: a failed upgrade still goes on to the reboot.
UpgradeIgnoresFailure(h) ==
    /\ up /\ run[h] = "upgrading"
    /\ Goto(h, IF h \in reboots THEN "checking" ELSE "idle")
    /\ \E status \in {"success", "error"} : Record(h, {<<"os_upgrade", status>>})
    /\ UNCHANGED <<up, config, backend, jobs, wiped, reboots, told>>

Upgrade(h) ==
    /\ up /\ run[h] = "upgrading"
    /\ \/ /\ Record(h, {<<"os_upgrade", "success">>})
          /\ Goto(h, IF h \in reboots THEN "checking" ELSE "idle")
          /\ UNCHANGED told
       \/ FailOs(h)
    /\ UNCHANGED <<up, config, backend, jobs, wiped, reboots>>

CheckReboot(h) ==
    /\ up /\ run[h] = "checking"
    /\ \/ Goto(h, "rebooting") /\ UNCHANGED <<entry, told>>
       \/ Goto(h, "idle") /\ UNCHANGED <<entry, told>>
       \/ FailOs(h)
    /\ UNCHANGED <<up, config, backend, jobs, wiped, reboots>>

\* A refused self-reboot fails like any other.
Reboot(h) ==
    /\ up /\ run[h] = "rebooting"
    /\ \/ Record(h, {<<"reboot", "success">>}) /\ Goto(h, "idle") /\ UNCHANGED told
       \/ FailOs(h)
    /\ UNCHANGED <<up, config, backend, jobs, wiped, reboots>>
-------------------------------------------------------------------------------
(***************************************************************************)
(* _run_stack_update: the configuration is not read again.                 *)
(***************************************************************************)
Unserved(p) == IF p \in OnPortainer THEN ~backend ELSE StackHost[p] \notin configured

FireStack(j) ==
    /\ up /\ stackJob[j] # NoStack /\ run[j] = "idle"
    /\ IF Unserved(stackJob[j])
       THEN /\ entry' = [entry EXCEPT ![j] = {<<"container_redeploy", "error">>}]
            /\ told' = told \cup {j}
            /\ UNCHANGED run
       ELSE /\ Goto(j, "redeploying")
            /\ entry' = [entry EXCEPT ![j] = {}]
            /\ told' = told \ {j}
    /\ UNCHANGED <<up, config, backend, jobs, wiped, reboots>>

Redeploy(j) ==
    /\ up /\ run[j] = "redeploying"
    /\ \/ Record(j, {<<"container_redeploy", "success">>}) /\ UNCHANGED told
       \/ Record(j, {<<"container_redeploy", "error">>}) /\ told' = told \cup {j}
    /\ Goto(j, "idle")
    /\ UNCHANGED <<up, config, backend, jobs, wiped, reboots>>

Admin ==
    \/ \E h \in Hosts : AddHost(h) \/ DeleteHost(h) \/ SaveSudoPassword(h)
    \/ \E h, g \in Hosts : UpdateHost(h, g)
    \/ \E h \in Hosts, enabled, reboot \in BOOLEAN : SaveHostAutoUpdate(h, enabled, reboot)
    \/ \E p \in Stacks, enabled \in BOOLEAN : SaveStackAutoUpdate(p, enabled)
    \/ \E set \in BOOLEAN : SavePortainer(set)
    \/ FactoryReset

RunStep(r) ==
    \/ r \in Hosts /\ (Upgrade(r) \/ CheckReboot(r) \/ Reboot(r))
    \/ r \in JobIds /\ Redeploy(r)

Next ==
    \/ Admin \/ Stop \/ Startup
    \/ \E h \in Hosts : FireOs(h)
    \/ \E j \in JobIds : FireStack(j)
    \/ \E r \in Jobs : RunStep(r)

Spec == Init /\ [][Next]_vars
-------------------------------------------------------------------------------
(***************************************************************************)
(* Properties                                                              *)
(***************************************************************************)

\* No schedule is lost: while the process runs, every host and every stack whose
\* schedule is on has its job, whatever was deleted, renamed, reset or restarted
\* before (for job ids that tell the stacks apart).
SchedulesKept ==
    up => /\ osEnabled \subseteq osJob
          /\ \A p \in stackEnabled : stackJob[StackJobId[p]] = p

\* Short of a factory reset, a stack is only redeployed while its schedule is on.
RedeployWanted ==
    \A j \in JobIds : up /\ ~wiped /\ stackJob[j] # NoStack => stackJob[j] \in stackEnabled

\* "a host whose upgrade failed is never rebooted": a run that asks whether to
\* reboot, or reboots, has recorded its upgrade as a success and nothing else.
RebootAfterSuccess ==
    \A h \in Hosts :
        run[h] \in {"checking", "rebooting"}
            => entry[h] = {<<"os_upgrade", "success">>} /\ h \in reboots

\* Why it holds: a run is under way with nothing recorded until its upgrade has
\* answered, and a job never updates a stack with another id.
FreshRun == \A h \in Hosts : run[h] = "upgrading" => entry[h] = {}

OwnJob == \A j \in JobIds : stackJob[j] # NoStack => StackJobId[stackJob[j]] = j

\* A run that did not do its work is never silent: every failed or skipped run
\* that reached the log was also notified.
FailureTold ==
    \A r \in Jobs, k \in {"os_upgrade", "container_redeploy"}, s \in {"error", "skipped"} :
        <<k, s>> \in entry[r] => r \in told

\* Unless the process is stopped under it, a run that ends leaves an entry in the
\* activity log.
RunsRecorded ==
    [][\A r \in Jobs : run[r] # "idle" /\ run'[r] = "idle" /\ up' => entry'[r] # {}]_vars

\* "A reboot is its own run, not a second os_upgrade entry".
OneUpgradeEntry ==
    \A h \in Hosts : {<<"os_upgrade", "success">>, <<"os_upgrade", "error">>} \cap entry[h]
                        # {<<"os_upgrade", "success">>, <<"os_upgrade", "error">>}

\* "Notifications fire when auto-update jobs complete or fail."
CompletionTold ==
    [][\A r \in Jobs : run[r] # "idle" /\ run'[r] = "idle" /\ up' => r \in told']_vars

\* Factory reset, "What is deleted: [...] auto-update schedules": afterwards no
\* stack is redeployed on a schedule that is not in the configuration.
ResetEndsRedeploys ==
    [][\A j \in JobIds :
          run[j] = "idle" /\ run'[j] = "redeploying" => stackJob[j] \in stackEnabled]_vars
===============================================================================
