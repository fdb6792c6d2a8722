----------------------------- MODULE StackRedeploy -----------------------------
(***************************************************************************)
(* Updating a compose project: the job behind the dashboard's button and   *)
(* the scheduled run (app/main.py), over SSH with the compose CLI          *)
(* (app/backends/ssh_docker_backend.py) or through Portainer               *)
(* (app/backends/portainer_backend.py, app/portainer_client.py).           *)
(*                                                                         *)
(* Nothing keeps two jobs off the same project.  Every command and every   *)
(* request is awaited: between two of them other jobs take their steps,    *)
(* images are published, Portainer is connected or disconnected and stacks *)
(* are removed from it.                                                    *)
(***************************************************************************)
EXTENDS Integers, FiniteSets

CONSTANTS
    Projects,
    Own,          \* the project Keepup runs in
    Folder,       \* the name Compose gives a project by its file's folder
    PathId,       \* the id in the /data/compose/{id}/ path of a project
    StackIds,     \* ids of Portainer stacks
    Redeploys,    \* the jobs
    MaxReleases,  \* bound: how often newer images are published at most
    Worlds        \* the worlds to look at (see World)

\* On the host; in Portainer's volume; at a path that is gone; with no label.
Places == {"host", "volume", "gone", "none"}

Faults == {"command", "ps", "endpoint", "timeout"}

\* What may fail, where the compose file of each project is, and how often newer
\* images are published.
World == [faults : SUBSET Faults, file : [Projects -> Places], releases : 0 .. MaxReleases]

ASSUME ProjectsAssumption ==
    /\ Folder \in [Projects -> Projects]
    /\ PathId \in [Projects -> StackIds] /\ Own \in Projects
ASSUME BoundsAssumption == MaxReleases \in Nat /\ Worlds \subseteq World

Down == -1
NoProject == "none"

VARIABLES
    latest,      \* the registry: the version of the images
    pulled,      \* the version of each project's images on the host
    running,     \* the version each project runs, or Down
    listed,      \* Portainer: its stacks, as pairs of id and project
    connected,   \* Portainer is connected
    late,        \* what Portainer goes on redeploying when nobody waits any more
    job,         \* the jobs
    last,        \* the activity log: how the last run for each project ended
    world        \* the world of this behaviour; never changes

redeployVars == <<latest, pulled, running, listed, connected, late, job, last, world>>

Versions == 0 .. MaxReleases

\* wanted: the version that was out when the job was started.
Job ==
    [step : {"idle", "queued", "check", "find", "ask", "pull", "up", "read", "put"},
     backend : {"ssh", "portainer"}, project : Projects \cup {NoProject}, id : StackIds \cup {0},
     file : BOOLEAN, wanted : Versions]

Idle ==
    [step |-> "idle", backend |-> "ssh", project |-> NoProject, id |-> 0, file |-> FALSE,
     wanted |-> 0]

RedeployTypeOK ==
    /\ latest \in Versions
    /\ pulled \in [Projects -> Versions]
    /\ running \in [Projects -> Versions \cup {Down}]
    /\ listed \subseteq StackIds \X Projects
    /\ connected \in BOOLEAN
    /\ late \subseteq Projects
    /\ job \in [Redeploys -> Job]
    /\ last \in [Projects -> {"none", "done", "error"}]
    /\ world \in World

RedeployInit ==
    /\ world \in Worlds
    /\ latest = 0
    /\ pulled = [p \in Projects |-> 0] /\ running = [p \in Projects |-> 0]
    /\ listed \in SUBSET {<<PathId[p], p>> : p \in {q \in Projects : world.file[q] = "volume"}}
    /\ connected \in BOOLEAN
    /\ late = {}
    /\ job = [j \in Redeploys |-> Idle]
    /\ last = [p \in Projects |-> "none"]

docker == <<pulled, running, late>>
around == <<latest, listed, connected, world>>
-------------------------------------------------------------------------------
(***************************************************************************)
(* Around the jobs.                                                        *)
(***************************************************************************)
Release ==
    /\ latest < world.releases
    /\ latest' = latest + 1
    /\ UNCHANGED <<pulled, running, listed, connected, late, job, last, world>>

Connect ==
    /\ connected' = ~connected
    /\ UNCHANGED <<latest, listed, job, last, docker, world>>

\* Portainer's entry is removed, while the project keeps running.  Portainer does not
\* use an id twice.
Unlist(s) ==
    /\ s \in listed
    /\ listed' = listed \ {s}
    /\ UNCHANGED <<latest, connected, job, last, docker, world>>

-------------------------------------------------------------------------------
(***************************************************************************)
(* The job.                                                                *)
(***************************************************************************)

\* stack_update and the scheduled run: the backend must be there.
Request(j, backend, p, id) ==
    /\ job[j].step = "idle"
    /\ backend = "portainer" => connected
    /\ job' = [job EXCEPT ![j] = [Idle EXCEPT !.step = "queued", !.backend = backend, !.project = p,
                                              !.id = id, !.wanted = latest]]
    /\ UNCHANGED <<last, docker, around>>

\* The stack is gone from Portainer: its name is not known either.
Recorded(p, result) == last' = IF p \in Projects THEN [last EXCEPT ![p] = result] ELSE last

Step(j, step) == job' = [job EXCEPT ![j].step = step] /\ UNCHANGED last

\* The end of _job_run_stack_update: however it ended, the run is recorded.
End(j, p, result) ==
    /\ job' = [job EXCEPT ![j] = Idle]
    /\ Recorded(p, result)

\* The backend may have been taken away since the click.  A failing describe_ref
\* only costs the label.
Begin(j) ==
    /\ job[j].step = "queued"
    /\ IF job[j].backend = "ssh" \/ connected
       THEN Step(j, "check")
       ELSE End(j, job[j].project, "error")
    /\ UNCHANGED <<docker, around>>

Fails(kind) == kind \in world.faults
-------------------------------------------------------------------------------
(***************************************************************************)
(* _update_compose_project                                                 *)
(***************************************************************************)
OverSsh(j, step) == job[j].backend = "ssh" /\ job[j].step = step

\* `docker ps`, whose status is not looked at: without its output nothing is found.
SelfCheckSsh(j) ==
    /\ OverSsh(j, "check")
    /\ \E seen \in {TRUE} \cup (IF Fails("ps") THEN {FALSE} ELSE {}) :
         IF seen /\ job[j].project = Own THEN End(j, Own, "error") ELSE Step(j, "find")
    /\ UNCHANGED <<docker, around>>

\* The compose binary, the file's label and whether the file is there.
FindFile(j) ==
    /\ OverSsh(j, "find")
    /\ \E place \in {world.file[job[j].project]} \cup (IF Fails("ps") THEN {"none"} ELSE {}) :
         /\ job' = [job EXCEPT ![j].step = IF place = "volume" THEN "ask" ELSE "pull",
                               ![j].file = (place = "host")]
         /\ UNCHANGED last
    /\ UNCHANGED <<docker, around>>

\* Portainer, if it is connected, is asked whether it has the stack, which decides
\* what the error says: a project of Portainer's is not updated over SSH.
AskPortainer(j) ==
    /\ OverSsh(j, "ask")
    /\ End(j, job[j].project, "error")
    /\ UNCHANGED <<docker, around>>

\* Mutant: Compose names the project after the folder of its file.
ComposeTargetFolder(p) == Folder[p]

\* -p: the project Compose works on.
ComposeTarget(p) == p

\* Mutant: images that are on the host are not pulled again.
PullMissing(j) ==
    /\ OverSsh(j, "pull")
    /\ IF job[j].file THEN Step(j, "up") ELSE End(j, job[j].project, "error")
    /\ UNCHANGED <<docker, around>>

\* `compose pull`: without a file there is nothing Compose can pull.
Pull(j) ==
    /\ OverSsh(j, "pull")
    /\ LET p == job[j].project
       IN  \/ /\ job[j].file
              /\ pulled' = [pulled EXCEPT ![ComposeTarget(p)] = latest]
              /\ Step(j, "up")
           \/ /\ ~job[j].file \/ Fails("command")
              /\ End(j, p, "error")
              /\ UNCHANGED pulled
    /\ UNCHANGED <<running, late, around>>

\* Mutant: the status of `compose up` is not looked at.
UpUnchecked(j) ==
    /\ OverSsh(j, "up")
    /\ LET p == job[j].project
       IN  /\ \/ running' = [running EXCEPT ![ComposeTarget(p)] = pulled[ComposeTarget(p)]]
              \/ Fails("command") /\ running' \in {running, [running EXCEPT ![ComposeTarget(p)] = Down]}
           /\ End(j, p, "done")
    /\ UNCHANGED <<pulled, late, around>>

\* `compose up -d`: one that fails may have stopped the old containers.
Up(j) ==
    /\ OverSsh(j, "up")
    /\ LET p == job[j].project
       IN  \/ /\ running' = [running EXCEPT ![ComposeTarget(p)] = pulled[ComposeTarget(p)]]
              /\ End(j, p, "done")
           \/ /\ Fails("command")
              /\ running' \in {running, [running EXCEPT ![ComposeTarget(p)] = Down]}
              /\ End(j, p, "error")
    /\ UNCHANGED <<pulled, late, around>>

\* The connection cannot be made, breaks, or there is no compose on the host.
SshFails(j) ==
    /\ Fails("command")
    /\ \E step \in {"check", "find"} : OverSsh(j, step)
    /\ End(j, job[j].project, "error")
    /\ UNCHANGED <<docker, around>>
-------------------------------------------------------------------------------
(***************************************************************************)
(* PortainerClient.update_stack                                            *)
(***************************************************************************)
ByPortainer(j, step) == job[j].backend = "portainer" /\ job[j].step = step

\* The project of a stack, if Portainer has the stack.
StackOf(id) == {s[2] : s \in {t \in listed : t[1] = id}}

NameOf(id) == IF StackOf(id) = {} THEN NoProject ELSE CHOOSE p \in Projects : p \in StackOf(id)

\* The check for Keepup's own container: when it fails the update goes on.
SelfCheckPortainer(j) ==
    /\ ByPortainer(j, "check")
    /\ \E seen \in {TRUE} \cup (IF Fails("endpoint") THEN {FALSE} ELSE {}) :
         IF seen /\ Own \in StackOf(job[j].id) THEN End(j, Own, "error") ELSE Step(j, "read")
    /\ UNCHANGED <<docker, around>>

\* The stack and its file.
ReadStack(j) ==
    /\ ByPortainer(j, "read")
    /\ \/ StackOf(job[j].id) # {} /\ Step(j, "put")
       \/ StackOf(job[j].id) = {} /\ End(j, NoProject, "error")
    /\ UNCHANGED <<docker, around>>

\* The PUT that redeploys the stack: Portainer pulls and starts it, fails, or takes
\* longer than _REDEPLOY_TIMEOUT and goes on alone.
PutStack(j) ==
    /\ ByPortainer(j, "put")
    /\ LET p == NameOf(job[j].id)
       IN  \/ /\ p # NoProject
              /\ pulled' = [pulled EXCEPT ![p] = latest] /\ running' = [running EXCEPT ![p] = latest]
              /\ End(j, p, "done")
              /\ UNCHANGED late
           \/ /\ p # NoProject /\ Fails("command")
              /\ running' \in {running, [running EXCEPT ![p] = Down]}
              /\ End(j, p, "error")
              /\ UNCHANGED <<pulled, late>>
           \/ /\ p # NoProject /\ Fails("timeout")
              /\ late' = late \cup {p}
              /\ End(j, p, "error")
              /\ UNCHANGED <<pulled, running>>
           \/ /\ p = NoProject
              /\ End(j, p, "error")
              /\ UNCHANGED docker
    /\ UNCHANGED around

\* Portainer ends what nobody waits for any more.
LateEnds(p) ==
    /\ p \in late
    /\ late' = late \ {p}
    /\ \/ pulled' = [pulled EXCEPT ![p] = latest] /\ running' = [running EXCEPT ![p] = latest]
       \/ Fails("command") /\ running' = [running EXCEPT ![p] = Down] /\ UNCHANGED pulled
    /\ UNCHANGED <<job, last, around>>

RedeployNext ==
    \/ Release \/ Connect
    \/ \E s \in listed : Unlist(s)
    \/ \E p \in Projects : LateEnds(p)
    \/ \E j \in Redeploys :
         \/ \E p \in Projects : Request(j, "ssh", p, 0)
         \/ \E id \in StackIds : Request(j, "portainer", NameOf(id), id)
         \/ Begin(j)
         \/ SelfCheckSsh(j) \/ FindFile(j) \/ AskPortainer(j) \/ Pull(j) \/ Up(j) \/ SshFails(j)
         \/ SelfCheckPortainer(j) \/ ReadStack(j) \/ PutStack(j)

RedeploySpec == RedeployInit /\ [][RedeployNext]_redeployVars
-------------------------------------------------------------------------------
(***************************************************************************)
(* Properties                                                              *)
(***************************************************************************)

\* Keepup never redeploys the project it runs in, whichever backend is asked for it
\* and whatever other projects are called.
OwnUntouched == world.faults \cap {"ps", "endpoint"} = {} => running[Own] = 0

\* A run that is reported as done has brought the project to what was out when it
\* was asked for, whatever other jobs did to it on the way.
DoneIsFresh ==
    [][\A j \in Redeploys :
         LET p == IF job[j].backend = "ssh" THEN job[j].project ELSE NameOf(job[j].id)
         IN  job[j].step \in {"up", "put"} /\ job'[j].step = "idle" /\ p # NoProject
               => (last'[p] = "done" => running'[p] >= job[j].wanted)]_redeployVars

\* A project that is down has not been reported as updated: the last word of the
\* log on it is never a success, with two jobs on it too.  Only a redeploy Portainer
\* went on with after its timeout, and that fails then, can take a project down
\* without a word.
LastWordTrue ==
    ~({"timeout", "command"} \subseteq world.faults)
        => \A p \in Projects : last[p] = "done" => running[p] # Down

\* "Safety net: refuse to redeploy a stack that contains the self-container", "Safety
\* net: refuse to update a project that contains the self-container": not when
\* `docker ps` or the endpoint fails.
SelfUpdateRefused == running[Own] = 0
===============================================================================
