--------------------------- MODULE ContainerInventory ---------------------------
(***************************************************************************)
(* Which containers a scan reports: SSHDockerBackend, which lists the      *)
(* containers of every monitored host (app/backends/ssh_docker_backend.py),*)
(* beside PortainerBackend, which lists the stacks of a connected          *)
(* Portainer (app/portainer_client.py), and the monitoring settings that   *)
(* both the admin pages and the scan itself write                          *)
(* (app/config_manager.py).                                                *)
(*                                                                         *)
(* A scan reads the settings once, then awaits Portainer and every host:   *)
(* settings, Portainer's stacks and the connection to it may change before *)
(* the answers are used, and scans overlap (the scheduled one and the      *)
(* dashboards).  A host in "selected" mode may still be configured by      *)
(* stack names; the first scan rewrites that to container names.           *)
(***************************************************************************)
EXTENDS FiniteSets

CONSTANTS
    Hosts,
    Containers,
    HostOf,       \* the host of each container
    Projects,     \* compose projects, each on one host
    ProjectOf,    \* the project of each container, or NoProject
    NoProject,
    StackIds,     \* ids of Portainer stacks
    PathId,       \* the id in the /data/compose/{id}/ path of a project, or NoPath
    NoPath,
    Self,         \* the container Keepup runs in
    Scans,        \* the scheduled job and the open dashboards
    Worlds        \* the worlds to look at (see World)

\* "old settings": hosts may still be configured by docker_stacks; the rest is what
\* may happen during a scan.
Happenings ==
    {"old settings", "save", "edit host", "connect", "list", "recreate",
     "portainer fails", "endpoint fails", "ps fails", "host fails"}

\* What may happen, the hosts that run a portainer/agent container, and who scans.
World == [may : SUBSET Happenings, agents : SUBSET Hosts, scans : SUBSET Scans]

ASSUME ContainersAssumption ==
    /\ HostOf \in [Containers -> Hosts]
    /\ ProjectOf \in [Containers -> Projects \cup {NoProject}] /\ NoProject \notin Projects
    /\ \A x, y \in Containers : ProjectOf[x] = ProjectOf[y] /\ ProjectOf[x] # NoProject
                                    => HostOf[x] = HostOf[y]
ASSUME StacksAssumption == PathId \in [Projects -> StackIds \cup {NoPath}] /\ NoPath \notin StackIds
ASSUME WorldsAssumption == Worlds \subseteq World

VARIABLES
    monitor,     \* config.yml: the docker_* settings of each host
    connected,   \* config.yml, credentials and _backends: Portainer is connected
    listed,      \* Portainer: its stacks, as pairs of id and project
    scan,        \* what each scan has read and reported so far
    choice,      \* history: the settings the administrator last asked for
    world        \* the world of this behaviour; never changes

inventoryVars == <<monitor, connected, listed, scan, choice, world>>

May(what) == what \in world.may

\* docker_mode with docker_containers or, from older versions, docker_stacks.
Settings ==
    [mode : {"off", "all", "selected"}, by : {"containers", "stacks"},
     containers : SUBSET Containers, stacks : SUBSET Projects]

Off == [mode |-> "off", by |-> "containers", containers |-> {}, stacks |-> {}]
All == [Off EXCEPT !.mode = "all"]
Selected(S) == [Off EXCEPT !.mode = "selected", !.containers = S]
ByStacks(P) == [Off EXCEPT !.mode = "selected", !.by = "stacks", !.stacks = P]

On(h) == {x \in Containers : HostOf[x] = h}
ProjectsOn(h) == {ProjectOf[x] : x \in On(h)} \ {NoProject}

(***************************************************************************)
(* A scan: the settings it goes by, the stacks Portainer told the SSH      *)
(* backend, the hosts and the Portainer backend it still waits for, and    *)
(* what it reports.  calm: nothing changed while it ran; complete: nothing *)
(* failed.                                                                 *)
(***************************************************************************)
Scan ==
    [snap : [Hosts -> Settings], known : {"asking", "known", "unknown"},
     stacks : SUBSET (StackIds \X Projects), left : SUBSET Hosts, pending : BOOLEAN,
     ssh : SUBSET Containers, portainer : SUBSET Projects,
     calm : BOOLEAN, complete : BOOLEAN]

NotRun ==
    [snap |-> [h \in Hosts |-> Off], known |-> "unknown", stacks |-> {}, left |-> {},
     pending |-> FALSE, ssh |-> {}, portainer |-> {},
     calm |-> TRUE, complete |-> TRUE]

InventoryTypeOK ==
    /\ monitor \in [Hosts -> Settings] /\ choice \in [Hosts -> Settings]
    /\ connected \in BOOLEAN
    /\ listed \subseteq StackIds \X Projects
    /\ scan \in [Scans -> Scan]
    /\ world \in World

InventoryInit ==
    /\ world \in Worlds
    /\ monitor \in [Hosts -> {Off, All} \cup
                       (IF May("old settings") THEN {ByStacks(P) : P \in SUBSET Projects} ELSE {})]
    /\ \A h \in Hosts : monitor[h].stacks \subseteq ProjectsOn(h)
    /\ connected \in BOOLEAN
    /\ listed \in SUBSET {<<PathId[p], p>> : p \in {q \in Projects : PathId[q] # NoPath}}
    /\ scan = [c \in Scans |-> NotRun]
    /\ choice = monitor

Running(c) == scan[c].left # {} \/ scan[c].pending

\* Whatever changes in the middle of a scan leaves its mark on it.
Disturb == scan' = [c \in Scans |-> IF Running(c) THEN [scan[c] EXCEPT !.calm = FALSE] ELSE scan[c]]
-------------------------------------------------------------------------------
(***************************************************************************)
(* The admin pages and Portainer.                                          *)
(***************************************************************************)

\* admin_save_docker_monitoring, setup_containers_save
SetDockerMonitoring(h, settings) ==
    /\ May("save")
    /\ monitor' = [monitor EXCEPT ![h] = settings]
    /\ choice' = [choice EXCEPT ![h] = settings]
    /\ Disturb
    /\ UNCHANGED <<connected, listed, world>>

\* update_host: of the settings docker_mode and docker_stacks are carried over.
UpdateHost(h) ==
    /\ May("edit host")
    /\ monitor' = [monitor EXCEPT ![h].containers = {}]
    /\ Disturb
    /\ UNCHANGED <<connected, listed, choice, world>>

ConnectPortainer ==
    /\ May("connect")
    /\ connected' = ~connected
    /\ Disturb
    /\ UNCHANGED <<monitor, listed, choice, world>>

\* A stack is removed from Portainer, or Portainer is set up anew: the containers
\* keep running.
Unlist(s) ==
    /\ May("list") /\ s \in listed
    /\ listed' = listed \ {s}
    /\ Disturb
    /\ UNCHANGED <<monitor, connected, choice, world>>

\* A stack is created, for containers whose path may name an older one.
Enlist(i, p) ==
    /\ May("list")
    /\ \A s \in listed : s[1] # i /\ s[2] # p
    /\ i = PathId[p] \/ May("recreate")
    /\ listed' = listed \cup {<<i, p>>}
    /\ Disturb
    /\ UNCHANGED <<monitor, connected, choice, world>>
-------------------------------------------------------------------------------
(***************************************************************************)
(* scan_containers                                                         *)
(***************************************************************************)
DockerHosts == {h \in Hosts : monitor[h].mode # "off"}

BeginScan(c) ==
    /\ ~Running(c)
    /\ scan' = [scan EXCEPT ![c] =
                  [NotRun EXCEPT !.snap = monitor,
                                 !.left = DockerHosts,
                                 !.pending = connected,
                                 !.known = IF connected /\ DockerHosts # {} THEN "asking" ELSE "unknown"]]
    /\ UNCHANGED <<monitor, connected, listed, choice, world>>

\* _portainer_stacks: the SSH backend asks which stacks Portainer has.
PortainerStacks(c) ==
    /\ scan[c].known = "asking"
    /\ \/ scan' = [scan EXCEPT ![c].known = "known", ![c].stacks = listed]
       \/ /\ May("portainer fails")
          /\ scan' = [scan EXCEPT ![c].known = "unknown", ![c].complete = FALSE]
    /\ UNCHANGED <<monitor, connected, listed, choice, world>>

OwnProject == {ProjectOf[x] : x \in Containers \cap {Self}} \ {NoProject}

\* Keepup's own container, and what shares its project.
Own(x) == x = Self \/ ProjectOf[x] \in OwnProject

\* PortainerClient.get_stacks_with_update_status: its stacks, by project name, but
\* for the one Keepup is in, if the endpoint tells.
PortainerAnswers(c) ==
    /\ scan[c].pending
    /\ \E own \in {OwnProject} \cup (IF May("endpoint fails") THEN {{}} ELSE {}) :
         scan' = [scan EXCEPT ![c].pending = FALSE, ![c].portainer = {s[2] : s \in listed} \ own]
    /\ UNCHANGED <<monitor, connected, listed, choice, world>>

PortainerFails(c) ==
    /\ May("portainer fails") /\ scan[c].pending
    /\ scan' = [scan EXCEPT ![c].pending = FALSE, ![c].complete = FALSE]
    /\ UNCHANGED <<monitor, connected, listed, choice, world>>

\* Mutant: the path alone says that Portainer takes care of a project.
ManagedByPath(c, h) ==
    IF h \in world.agents THEN {p \in ProjectsOn(h) : PathId[p] # NoPath} ELSE {}

\* Mutant: without an answer from Portainer its stacks are taken over.
ManagedWhenKnown(c, h) ==
    IF h \in world.agents THEN {p \in ProjectsOn(h) : <<PathId[p], p>> \in scan[c].stacks} ELSE {}

\* _portainer_managed_projects: without an answer the path alone decides.
Managed(c, h) ==
    IF h \notin world.agents THEN {}
    ELSE {p \in ProjectsOn(h) :
            PathId[p] # NoPath /\ (scan[c].known = "known" => <<PathId[p], p>> \in scan[c].stacks)}

\* The containers the SSH backend answers for.
Qualifying(c, h) ==
    {x \in On(h) : ~Own(x) /\ ~(connected /\ ProjectOf[x] \in Managed(c, h))}

\* The filter of a host in "selected" mode.
Monitored(settings, seen) ==
    CASE settings.mode = "all" -> seen
      [] settings.mode = "selected" /\ settings.by = "stacks" ->
           {x \in seen : ProjectOf[x] \in settings.stacks}
      [] OTHER -> seen \cap settings.containers

\* Mutant: the names of all containers are saved, not of the selected ones.
ContainersForHostUnfiltered(c, h, seen) ==
    LET settings == scan[c].snap[h]
    IN  /\ scan' = [scan EXCEPT ![c].left = @ \ {h}, ![c].ssh = @ \cup Monitored(settings, seen)]
        /\ monitor' = IF settings.by = "stacks" THEN [monitor EXCEPT ![h] = Selected(seen)] ELSE monitor

\* _containers_for_host, for the containers in seen.  Settings by stack names are
\* rewritten on the way, whatever they have become since they were read.
ContainersForHost(c, h, seen) ==
    LET settings == scan[c].snap[h]
    IN  /\ scan' = [scan EXCEPT ![c].left = @ \ {h},
                                ![c].ssh = @ \cup Monitored(settings, seen),
                                ![c].complete = @ /\ seen = Qualifying(c, h)]
        /\ monitor' = IF settings.by = "stacks"
                      THEN [monitor EXCEPT ![h] = Selected(Monitored(settings, seen))]
                      ELSE monitor

HostAnswers(c, h) ==
    /\ h \in scan[c].left /\ scan[c].known # "asking"
    /\ ContainersForHost(c, h, Qualifying(c, h))
    /\ UNCHANGED <<connected, listed, choice, world>>

\* `docker ps` fails: its status is not looked at and there is no output.
PsFails(c, h) ==
    /\ May("ps fails")
    /\ h \in scan[c].left /\ scan[c].known # "asking"
    /\ ContainersForHost(c, h, {})
    /\ UNCHANGED <<connected, listed, choice, world>>

\* The connection fails: the host is skipped.
HostFails(c, h) ==
    /\ May("host fails")
    /\ h \in scan[c].left /\ scan[c].known # "asking"
    /\ scan' = [scan EXCEPT ![c].left = @ \ {h}, ![c].complete = FALSE]
    /\ UNCHANGED <<monitor, connected, listed, choice, world>>

ScanStep(c) ==
    \/ BeginScan(c) \/ PortainerStacks(c) \/ PortainerAnswers(c) \/ PortainerFails(c)
    \/ \E h \in Hosts : HostAnswers(c, h) \/ PsFails(c, h) \/ HostFails(c, h)

InventoryNext ==
    \/ \E c \in world.scans : ScanStep(c)
    \/ ConnectPortainer
    \/ \E s \in listed : Unlist(s)
    \/ \E i \in StackIds, p \in Projects : Enlist(i, p)
    \/ \E h \in Hosts : \/ UpdateHost(h)
                        \/ SetDockerMonitoring(h, Off) \/ SetDockerMonitoring(h, All)
                        \/ \E S \in SUBSET On(h) : SetDockerMonitoring(h, Selected(S))

InventorySpec == InventoryInit /\ [][InventoryNext]_inventoryVars
-------------------------------------------------------------------------------
(***************************************************************************)
(* Properties                                                              *)
(***************************************************************************)

\* The scans that are through, and in which nothing changed.
CalmScans == {c \in Scans : ~Running(c) /\ scan[c].calm}

ByPortainer(c, x) == ProjectOf[x] \in scan[c].portainer

\* "checked by nobody": every container of a fully monitored host is reported by
\* the SSH backend or with a stack of Portainer's, orphans of an older Portainer
\* too, with Portainer connected or not.
NobodyUnchecked ==
    \A c \in CalmScans, x \in Containers :
        scan[c].complete /\ scan[c].snap[HostOf[x]].mode = "all" /\ ~Own(x)
            => x \in scan[c].ssh \/ ByPortainer(c, x)

\* "a second row and a second notification": on a host with a Portainer agent no
\* container is reported by both backends, also when the SSH backend could not ask
\* Portainer for its stacks.
NotTwice ==
    ~May("recreate") =>
        \A c \in CalmScans, x \in Containers :
            HostOf[x] \in world.agents => ~(x \in scan[c].ssh /\ ByPortainer(c, x))

\* Neither backend ever offers Keepup's own container, or its project, for update.
SelfNotOffered ==
    ~May("endpoint fails") =>
        \A c \in Scans : OwnProject \cap scan[c].portainer = {} /\ \A x \in scan[c].ssh : ~Own(x)

SameChoice(h) ==
    LET others == {x \in On(h) : ~Own(x)}
    IN  Monitored(monitor[h], others) = Monitored(choice[h], others)

\* What is monitored on a host without an agent is what the administrator last
\* chose, in the old form or the new one and however many scans, one after the other
\* or at once, rewrite the one to the other.
ChoiceKept ==
    world.may \cap {"save", "edit host", "ps fails"} = {} =>
        \A h \in Hosts \ world.agents : SameChoice(h)

(***************************************************************************)
(* What comments of the code say and some worlds refute.                   *)
(***************************************************************************)

\* "One-shot migration", "Expand selected project names to their current container
\* names", "Preserve docker monitoring settings across renames".
ChoiceAlwaysKept == \A h \in Hosts : SameChoice(h)

\* "Those projects cannot be updated via SSH and should be left to the Portainer
\* backend": also the stacks Portainer lists under a new id.
LeftToPortainer ==
    \A c \in CalmScans, x \in Containers :
        HostOf[x] \in world.agents => ~(x \in scan[c].ssh /\ ByPortainer(c, x))

\* "Skip the stack that contains the running Keepup container", also when the
\* endpoint cannot be reached.
OwnStackSkipped == \A c \in Scans : OwnProject \cap scan[c].portainer = {}
===============================================================================
