--------------------------- MODULE StandaloneUpdate ---------------------------
(***************************************************************************)
(* SSHDockerBackend._update_standalone_container                           *)
(* (app/backends/ssh_docker_backend.py): replacing a standalone container  *)
(* by a fresh one made from its own `docker inspect`, over one SSH         *)
(* connection, without ever being left with no container at all.           *)
(*                                                                         *)
(* Every conn.run is an await, so two updates of the same container (a     *)
(* click on the dashboard and the scheduler, or two clicks) interleave     *)
(* command by command: nothing in Keepup serialises them.  The Docker      *)
(* daemon's name table is the shared state.  A lost connection, or Keepup  *)
(* being stopped, raises out of the `async with` and ends the update where *)
(* it stands (Lose).                                                       *)
(***************************************************************************)
EXTENDS Naturals, FiniteSets

CONSTANTS
    Updaters,         \* concurrent invocations of the update
    MaxUpdates,       \* bound: updates started by each invocation slot
    FaultSets         \* what may go wrong: one of these sets, in each behaviour

Commands ==
    {"pull", "rename", "stop", "run", "verify", "rm_new", "restore", "start",
     "rm_backup"}

\* A command returns a non-zero status, a replacement does not stay up, the
\* connection is lost half-way.
Faults == Commands \cup {"replacement", "connection"}

ASSUME UpdatersAssumption == IsFiniteSet(Updaters)
ASSUME BoundsAssumption   == MaxUpdates \in Nat
ASSUME FaultsAssumption   == FaultSets \subseteq SUBSET Faults

VARIABLES
    faults,    \* what may go wrong in this behaviour; never changes
    docker,    \* the daemon: who answers to container_name and to its backup
    pc,        \* the next command of each update
    started,   \* how many updates each slot has started (bound)
    outcome    \* what the last update of each slot reported

vars == <<faults, docker, pc, started, outcome>>

(***************************************************************************)
(* A container is up, restarting in a loop (RestartCount > 0) or down.     *)
(* good: it is the container the user had, or a replacement that passed    *)
(* the settle check.  self: its id is the one get_self_container_id knows. *)
(***************************************************************************)
ContainerName == {"name", "backup"}

Container ==
    [st : {"absent", "up", "looping", "down"}, good : BOOLEAN, self : BOOLEAN]

Absent == [st |-> "absent", good |-> FALSE, self |-> FALSE]

Fresh(st) == [st |-> st, good |-> FALSE, self |-> FALSE]

Exists(n) == docker[n].st # "absent"

Steps ==
    {"inspect", "pull", "rename", "stop", "run", "verify", "rm_new", "restore",
     "start", "rm_backup"}

TypeOK ==
    /\ faults \in FaultSets
    /\ docker \in [ContainerName -> Container]
    /\ pc \in [Updaters -> Steps \cup {"idle"}]
    /\ started \in [Updaters -> 0..MaxUpdates]
    /\ outcome \in [Updaters -> {"none", "error", "refused", "rolled_back", "updated", "lost"}]

Init ==
    /\ faults \in FaultSets
    /\ \E self \in BOOLEAN :
         docker = [n \in ContainerName |->
                     IF n = "name"
                     THEN [st |-> "up", good |-> TRUE, self |-> self]
                     ELSE Absent]
    /\ pc = [u \in Updaters |-> "idle"]
    /\ started = [u \in Updaters |-> 0]
    /\ outcome = [u \in Updaters |-> "none"]

(***************************************************************************)
(* Control: go to the next command, or end the update with a report.       *)
(***************************************************************************)
Goto(u, step) ==
    /\ pc' = [pc EXCEPT ![u] = step]
    /\ UNCHANGED <<faults, started, outcome>>

End(u, report) ==
    /\ pc' = [pc EXCEPT ![u] = "idle"]
    /\ outcome' = [outcome EXCEPT ![u] = report]
    /\ UNCHANGED <<faults, started>>

\* The status a command may come back with.
Status(ok, command) == ok \/ command \in faults

\* docker rename: refused when the source is missing or the target name is taken.
CanRename(from, to) == Exists(from) /\ ~Exists(to)

Renamed(from, to) == [docker EXCEPT ![to] = docker[from], ![from] = Absent]
-------------------------------------------------------------------------------
(***************************************************************************)
(* The update, one action per command.                                     *)
(***************************************************************************)
Begin(u) ==
    /\ pc[u] = "idle"
    /\ started[u] < MaxUpdates
    /\ pc' = [pc EXCEPT ![u] = "inspect"]
    /\ started' = [started EXCEPT ![u] = @ + 1]
    /\ outcome' = [outcome EXCEPT ![u] = "none"]
    /\ UNCHANGED <<faults, docker>>

Inspect(u) ==
    /\ pc[u] = "inspect"
    /\ \/ ~Exists("name") /\ End(u, "error")
       \/ Exists("name") /\ docker["name"].self /\ End(u, "refused")
       \/ Exists("name") /\ ~docker["name"].self /\ Goto(u, "pull")
    /\ UNCHANGED docker

Pull(u) ==
    /\ pc[u] = "pull"
    /\ \E ok \in BOOLEAN :
         /\ Status(ok, "pull")
         /\ IF ok THEN Goto(u, "rename") ELSE End(u, "error")
    /\ UNCHANGED docker

Rename(u) ==
    /\ pc[u] = "rename"
    /\ \E ok \in BOOLEAN :
         /\ Status(ok, "rename")
         /\ IF ok /\ CanRename("name", "backup")
            THEN docker' = Renamed("name", "backup") /\ Goto(u, "stop")
            ELSE UNCHANGED docker /\ End(u, "error")

\* Mutant: the original is removed before its replacement exists.
StopRemoves(u) ==
    /\ pc[u] = "stop"
    /\ docker' = [docker EXCEPT !["backup"] = Absent]
    /\ Goto(u, "run")

\* The status of `docker stop` is not looked at.
Stop(u) ==
    /\ pc[u] = "stop"
    /\ \E ok \in BOOLEAN :
         /\ Status(ok, "stop")
         /\ docker' = IF ok /\ Exists("backup")
                      THEN [docker EXCEPT !["backup"].st = "down"] ELSE docker
    /\ Goto(u, "run")

(***************************************************************************)
(* `docker run --name`: a conflict when the name is taken, and a failure   *)
(* is possible whenever the old container still holds its ports.  A failed *)
(* run may leave a created but stopped container under the name.           *)
(***************************************************************************)
Run(u) ==
    /\ pc[u] = "run"
    /\ \/ /\ ~Exists("name")
          /\ docker' = [docker EXCEPT !["name"] = Fresh("up")]
          /\ Goto(u, "verify")
       \/ /\ "run" \in faults \/ docker["backup"].st # "down" \/ Exists("name")
          /\ \E left \in {docker["name"]} \cup (IF Exists("name") THEN {} ELSE {Fresh("down")}) :
               docker' = [docker EXCEPT !["name"] = left]
          /\ Goto(u, "rm_new")

\* Mutant: the verdict is never looked at, and the backup goes in any case.
VerifyIgnored(u) == pc[u] = "verify" /\ Goto(u, "rm_backup") /\ UNCHANGED docker

\* After the settle time: still running, and never restarted.
Verify(u) ==
    /\ pc[u] = "verify"
    /\ \E ok \in BOOLEAN :
         /\ Status(ok, "verify")
         /\ IF ok /\ docker["name"].st = "up"
            THEN /\ docker' = [docker EXCEPT !["name"].good = TRUE]
                 /\ Goto(u, "rm_backup")
            ELSE UNCHANGED docker /\ Goto(u, "rm_new")

\* Rollback, three commands whose status is not looked at.
RmNew(u) ==
    /\ pc[u] = "rm_new"
    /\ \E ok \in BOOLEAN :
         /\ Status(ok, "rm_new")
         /\ docker' = IF ok THEN [docker EXCEPT !["name"] = Absent] ELSE docker
    /\ Goto(u, "restore")

\* Mutant: the restored container is left stopped.
RestoreNoStart(u) ==
    /\ pc[u] = "restore"
    /\ docker' = IF CanRename("backup", "name") THEN Renamed("backup", "name") ELSE docker
    /\ End(u, "rolled_back")

Restore(u) ==
    /\ pc[u] = "restore"
    /\ \E ok \in BOOLEAN :
         /\ Status(ok, "restore")
         /\ docker' = IF ok /\ CanRename("backup", "name")
                      THEN Renamed("backup", "name") ELSE docker
    /\ Goto(u, "start")

Start(u) ==
    /\ pc[u] = "start"
    /\ \E ok \in BOOLEAN :
         /\ Status(ok, "start")
         /\ docker' = IF ok /\ docker["name"].st = "down"
                      THEN [docker EXCEPT !["name"].st = "up"] ELSE docker
    /\ End(u, "rolled_back")

\* `docker rm` without -f: refused for a container that is running.
RmBackup(u) ==
    /\ pc[u] = "rm_backup"
    /\ \E ok \in BOOLEAN :
         /\ Status(ok, "rm_backup")
         /\ docker' = IF ok /\ docker["backup"].st = "down"
                      THEN [docker EXCEPT !["backup"] = Absent] ELSE docker
    /\ End(u, "updated")

\* The connection drops, or Keepup is stopped: no further command is sent.
Lose(u) ==
    /\ "connection" \in faults
    /\ pc[u] # "idle"
    /\ End(u, "lost")
    /\ UNCHANGED docker

\* A replacement that was never confirmed exits, or starts to restart in a loop.
ReplacementFails ==
    /\ "replacement" \in faults
    /\ docker["name"].st = "up" /\ ~docker["name"].good
    /\ \E st \in {"down", "looping"} : docker' = [docker EXCEPT !["name"].st = st]
    /\ UNCHANGED <<faults, pc, started, outcome>>

Command(u) ==
    \/ Inspect(u) \/ Pull(u) \/ Rename(u) \/ Stop(u) \/ Run(u) \/ Verify(u)
    \/ RmNew(u) \/ Restore(u) \/ Start(u) \/ RmBackup(u)

Next ==
    \/ \E u \in Updaters : Begin(u) \/ Command(u) \/ Lose(u)
    \/ ReplacementFails

Spec == Init /\ [][Next]_vars

\* A connected update keeps sending commands: the event loop resumes every
\* coroutine whose command has answered.
FairSpec == Spec /\ \A u \in Updaters : WF_vars(Command(u))
-------------------------------------------------------------------------------
(***************************************************************************)
(* Properties                                                              *)
(***************************************************************************)

\* However commands fail, connections drop and updates interleave, a container
\* known to be good still exists under one of the two names ("verify before
\* destroy").
NeverLost == docker["name"].good \/ docker["backup"].good

\* An update that has moved the container aside and has not yet given it back.
Holding(u) == pc[u] \in {"stop", "run", "verify", "rm_new", "restore", "rm_backup"}

\* Two updates of one container never both hold it: the backup name is the lock,
\* because `docker rename` refuses a name that is taken.
OneHolder == \A u, v \in Updaters : Holding(u) /\ Holding(v) => u = v

\* The container Keepup itself runs in is never renamed, stopped or replaced.
SelfUntouched ==
    \A n \in ContainerName :
        docker[n].self => n = "name" /\ docker[n].st = "up"

\* Why the above hold (the inductive invariant of ContainerProofs): while
\* an update holds the container, the good one is the backup, and the name is
\* free, or taken by a replacement that only a passed check makes good.
BackupHeld ==
    \A u \in Updaters :
        /\ Holding(u) => docker["backup"].good
        /\ pc[u] \in {"stop", "run"} => ~Exists("name")
        /\ pc[u] \in {"verify", "rm_new", "restore"} => ~docker["name"].good
        /\ pc[u] = "rm_backup" => docker["name"].good

GoodExists == \A n \in ContainerName : docker[n].good => Exists(n)

SelfIdle ==
    \A n \in ContainerName :
        docker[n].self =>
            /\ docker[n].good
            /\ \A u \in Updaters : pc[u] \in {"idle", "inspect"}

IInv == TypeOK /\ NeverLost /\ OneHolder /\ SelfUntouched /\ BackupHeld /\ GoodExists /\ SelfIdle

\* What the update promises (SafeReplacement): the original moves aside, and it
\* goes only once a replacement is confirmed in its place, or else comes back.
SafeReplace ==
    INSTANCE SafeReplacement WITH inPlace <- docker["name"].good, aside <- Exists("backup")
ReplacesSafely == SafeReplace!Spec

\* When connections hold and the rollback commands work, a container that is not
\* running under its name is eventually running there again.
ServiceUp == docker["name"].st = "up" /\ docker["name"].good
Calm == faults \cap {"rm_new", "restore", "start", "connection"} = {}
ServiceRestored == Calm /\ ~ServiceUp ~> ServiceUp

Quiet == \A u \in Updaters : pc[u] = "idle"

\* "on any failure we roll back to the backup": once no update is running, the
\* container is back under its own name.
RolledBackOnAnyFailure == Quiet => Exists("name")

\* "Success - the replacement is healthy, drop the backup": after a reported
\* success with no update running, no backup is left.
BackupDropped ==
    Quiet /\ (\E u \in Updaters : outcome[u] = "updated") => ~Exists("backup")
===============================================================================
