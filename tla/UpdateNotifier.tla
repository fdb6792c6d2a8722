----------------------------- MODULE UpdateNotifier -----------------------------
(***************************************************************************)
(* Container update detection and its notifications: scan_containers       *)
(* (app/update_scan.py), run by the scheduled job and by every dashboard   *)
(* that asks (app/main.py docker_check), and check_and_notify              *)
(* (app/update_notifier.py), which announces each update once and warns    *)
(* once of checks that keep failing.                                       *)
(*                                                                         *)
(* A scan awaits its backends, so scans overlap and what a scan has read   *)
(* may be old when it is applied.  From the last answer on nothing is      *)
(* awaited: applying the results and stamping last_check.json is one step, *)
(* which a crash or a failing disk can cut short.                          *)
(***************************************************************************)
EXTENDS Integers, FiniteSets

CONSTANTS
    Stacks,        \* update_paths
    Images,        \* the images of each stack
    Backends,      \* container backends
    BackendOf,     \* the backend of each stack
    Scans,         \* the scheduled job and the open dashboards
    StaleAfter,    \* UNKNOWN_STALE_SECONDS
    MaxNow,        \* bound: the last tick of the clock
    MaxReleases,   \* bound: updates released for each stack
    FaultSets      \* what may go wrong: one of these sets, in each behaviour

MaxBell == MaxReleases + 1   \* bound: announcements are counted up to one too many

ASSUME ImagesAssumption ==
    \A s \in Stacks : Images[s] # {} /\ BackendOf[s] \in Backends
ASSUME BoundsAssumption == StaleAfter \in Nat /\ MaxNow \in Nat /\ MaxReleases \in Nat

\* The check of an image fails, a whole backend fails, scans overlap, applying the
\* results is cut short.
Faults == {"registry", "backend", "overlap", "cut"}
ASSUME FaultsAssumption == FaultSets \subseteq SUBSET Faults

VARIABLES
    faults,           \* what may go wrong in this behaviour; never changes
    now,
    outdated,         \* the images of each stack whose registry has a newer version
    releases,         \* history: how often an image of each stack became outdated
    seen,             \* what each scan has read so far of each stack
    notified,         \* notified_updates.json: stacks already announced
    unknownSince,     \* notified_updates.json: when a stack was first unknown
    unknownNotified,  \* notified_updates.json: stacks named in the last warning
    lastCheck,        \* last_check.json: when containers were last checked
    bell,             \* history: announcements of each stack
    heard,            \* history: stacks announced since they were last seen current
    failing,          \* history: when the current row of checks without a verdict began
    applied,          \* history: when results were last applied
    warned            \* history: stacks named in a warning since that row began

store == <<notified, unknownSince, unknownNotified>>
world == <<outdated, releases>>
history == <<bell, heard, failing, applied, warned>>
vars == <<faults, now, world, seen, store, lastCheck, history>>

Verdict == {"update_available", "up_to_date", "mixed"}
NoVerdict == {"unknown", "missing"}   \* missing: the backend failed, the stack is not listed
Never == -1

Idle == [s \in Stacks |-> "idle"]

TypeOK ==
    /\ faults \in FaultSets
    /\ now \in 0..MaxNow
    /\ outdated \in [Stacks -> SUBSET UNION {Images[s] : s \in Stacks}]
    /\ releases \in [Stacks -> 0..MaxReleases]
    /\ seen \in [Scans -> [Stacks -> Verdict \cup NoVerdict \cup {"idle", "asked"}]]
    /\ notified \subseteq Stacks
    /\ unknownSince \in [Stacks -> 0..MaxNow \cup {Never}]
    /\ unknownNotified \subseteq Stacks
    /\ lastCheck \in 0..MaxNow \cup {Never}
    /\ bell \in [Stacks -> 0..MaxBell]
    /\ heard \subseteq Stacks
    /\ failing \in [Stacks -> 0..MaxNow \cup {Never}]
    /\ applied \in 0..MaxNow \cup {Never}
    /\ warned \subseteq Stacks

Init ==
    /\ faults \in FaultSets
    /\ now = 0
    /\ outdated = [s \in Stacks |-> {}]
    /\ releases = [s \in Stacks |-> 0]
    /\ seen = [c \in Scans |-> Idle]
    /\ notified = {}
    /\ unknownSince = [s \in Stacks |-> Never]
    /\ unknownNotified = {}
    /\ lastCheck = Never
    /\ bell = [s \in Stacks |-> 0]
    /\ heard = {}
    /\ failing = [s \in Stacks |-> Never]
    /\ applied = Never
    /\ warned = {}
-------------------------------------------------------------------------------
(***************************************************************************)
(* The world: releases, updates, time.                                     *)
(***************************************************************************)
Release(s, i) ==
    /\ i \in Images[s] \ outdated[s]
    /\ releases[s] < MaxReleases
    /\ outdated' = [outdated EXCEPT ![s] = @ \cup {i}]
    /\ releases' = [releases EXCEPT ![s] = @ + 1]
    /\ UNCHANGED <<faults, now, seen, store, lastCheck, history>>

\* The stack is redeployed with its latest images.
Redeployed(s) ==
    /\ outdated[s] # {}
    /\ outdated' = [outdated EXCEPT ![s] = {}]
    /\ UNCHANGED <<faults, now, releases, seen, store, lastCheck, history>>

Tick ==
    /\ now < MaxNow
    /\ now' = now + 1
    /\ UNCHANGED <<faults, world, seen, store, lastCheck, history>>
-------------------------------------------------------------------------------
(***************************************************************************)
(* scan_containers: ask every backend, each answering in its own time.     *)
(***************************************************************************)
Begin(c) ==
    /\ seen[c] = Idle
    /\ "overlap" \in faults \/ \A d \in Scans : seen[d] = Idle
    /\ seen' = [seen EXCEPT ![c] = [s \in Stacks |-> "asked"]]
    /\ UNCHANGED <<faults, now, world, store, lastCheck, history>>

ImageStatus(s, i, failed) ==
    IF i \in failed THEN "unknown" ELSE IF i \in outdated[s] THEN "update_available" ELSE "up_to_date"

\* The roll-up of a stack's images to one status.
Rollup(statuses) ==
    CASE statuses = {"update_available"} -> "update_available"
      [] statuses # {"update_available"} /\ "update_available" \in statuses -> "mixed"
      [] statuses = {"up_to_date"} -> "up_to_date"
      [] OTHER -> "unknown"

\* The backend has looked at the images of one stack.
Check(c, s) ==
    /\ seen[c][s] = "asked"
    /\ \E failed \in (IF "registry" \in faults THEN SUBSET Images[s] ELSE {{}}) :
         seen' = [seen EXCEPT ![c][s] = Rollup({ImageStatus(s, i, failed) : i \in Images[s]})]
    /\ UNCHANGED <<faults, now, world, store, lastCheck, history>>

\* An exception of a backend costs all of its stacks, the checked ones too.
BackendError(c, b) ==
    /\ "backend" \in faults
    /\ \E s \in Stacks : BackendOf[s] = b /\ seen[c][s] = "asked"
    /\ seen' = [seen EXCEPT ![c] =
                  [s \in Stacks |-> IF BackendOf[s] = b THEN "missing" ELSE seen[c][s]]]
    /\ UNCHANGED <<faults, now, world, store, lastCheck, history>>

Collected(c) == \A s \in Stacks : seen[c][s] \notin {"idle", "asked"}

With(res, S) == {s \in Stacks : res[s] \in S}

\* Mutant: every unknown check starts the clock again.
UnknownSinceRestarted(res) == [s \in Stacks |-> IF res[s] # "unknown" THEN Never ELSE now]

\* The first unknown check is kept while the row lasts, and forgotten otherwise.
UnknownSince(res) ==
    [s \in Stacks |->
        IF res[s] # "unknown" THEN Never
        ELSE IF unknownSince[s] = Never THEN now ELSE unknownSince[s]]

Stale(res) ==
    {s \in Stacks : UnknownSince(res)[s] # Never /\ now - UnknownSince(res)[s] >= StaleAfter}

\* Mutant: stacks already announced are announced again.
NewlyAvailableAll(res) == With(res, {"update_available"})

NewlyAvailable(res) == With(res, {"update_available"}) \ notified

Ring(S) == [s \in Stacks |-> IF s \in S /\ bell[s] < MaxBell THEN bell[s] + 1 ELSE bell[s]]

\* The announcements of S are in the notification store.
Announce(S) ==
    /\ bell' = Ring(S)
    /\ heard' = heard \cup S

\* One rollup warning names every stale stack, when one of them is new.
Warned(res) == warned \cup (IF Stale(res) \ unknownNotified # {} THEN Stale(res) ELSE {})

Clean(res) == With(res, {"up_to_date", "mixed"})

\* What check_and_notify writes, if it differs from what it loaded.
NewStore(res) ==
    <<(notified \cup With(res, {"update_available"})) \ Clean(res), UnknownSince(res), Stale(res)>>

EmptyStore == <<{}, [s \in Stacks |-> Never], {}>>

Save(state) ==
    /\ notified' = state[1]
    /\ unknownSince' = state[2]
    /\ unknownNotified' = state[3]

\* check_and_notify, to its end.
CheckAndNotify(res) ==
    /\ bell' = Ring(NewlyAvailable(res))
    /\ heard' = (heard \cup NewlyAvailable(res)) \ Clean(res)
    /\ Save(NewStore(res))
    /\ failing' = [s \in Stacks |->
                     IF res[s] \in Verdict THEN Never
                     ELSE IF failing[s] = Never THEN now ELSE failing[s]]
    /\ warned' = Warned(res) \ With(res, Verdict)
    /\ applied' = now

\* The end of a scan: apply, then record_container_check.
Apply(c) ==
    /\ Collected(c)
    /\ CheckAndNotify(seen[c])
    /\ seen' = [seen EXCEPT ![c] = Idle]
    /\ lastCheck' = now
    /\ UNCHANGED <<faults, now, world>>

\* Mutant: the store is written before the announcements.
InterruptedAfterSave(c) ==
    /\ "cut" \in faults
    /\ Collected(c)
    /\ notified' = notified \cup NewlyAvailable(seen[c])
    /\ seen' = [d \in Scans |-> Idle]
    /\ UNCHANGED <<faults, now, world, unknownSince, unknownNotified, lastCheck, history>>

\* check_and_notify is cut short: between two announcements, or while it rewrites
\* its store, which then reads as empty.  Either the process has died or the disk
\* has failed, which only this scan notices.
Interrupted(c) ==
    /\ "cut" \in faults
    /\ Collected(c)
    /\ \/ /\ \E S \in SUBSET NewlyAvailable(seen[c]) : Announce(S)
          /\ UNCHANGED <<store, warned>>
       \/ /\ NewStore(seen[c]) # store
          /\ Announce(NewlyAvailable(seen[c]))
          /\ warned' = Warned(seen[c])
          /\ Save(EmptyStore)
    /\ \/ seen' = [d \in Scans |-> Idle] /\ UNCHANGED lastCheck
       \/ seen' = [seen EXCEPT ![c] = Idle] /\ lastCheck' = now
    /\ UNCHANGED <<faults, now, world, failing, applied>>

Next ==
    \/ Tick
    \/ \E s \in Stacks : Redeployed(s) \/ (\E i \in Images[s] : Release(s, i))
    \/ \E c \in Scans : \/ Begin(c) \/ Apply(c) \/ Interrupted(c)
                        \/ \E s \in Stacks : Check(c, s)
                        \/ \E b \in Backends : BackendError(c, b)

Spec == Init /\ [][Next]_vars
-------------------------------------------------------------------------------
(***************************************************************************)
(* Properties                                                              *)
(***************************************************************************)

\* A stack is never silently deduplicated: whatever overlapped or crashed, one
\* that the store counts as announced was announced since it was last current.
NoSilentDedup == notified \subseteq heard

\* "so we don't spam on every docker check": when one scan runs at a time, none
\* is cut short and no registry fails (an image without a verdict makes a stack
\* of several "mixed", which clears its entry), no update is announced twice.
AnnouncedOnce ==
    faults \cap {"overlap", "cut", "registry"} = {} => \A s \in Stacks : bell[s] <= releases[s]

\* A stack whose every check came back unknown for UNKNOWN_STALE_SECONDS has been
\* named in a warning, however scans overlap (but the store of the first unknown
\* check survives neither a torn write nor a failing backend).
StaleWarned ==
    faults \cap {"backend", "cut"} = {} => \A s \in Stacks : failing[s] # Never /\ applied - failing[s] >= StaleAfter => s \in warned

\* "fire notifications for newly-available updates": an announced stack is one a
\* release made outdated since the last announcement, however scans overlap.
NewlyAvailableOnly == \A s \in Stacks : bell[s] <= releases[s]

\* "a persistently-failing update check raises one rollup warning", also when it
\* is the backend that keeps failing.
PersistentFailureWarned ==
    \A s \in Stacks : failing[s] # Never /\ applied - failing[s] >= StaleAfter => s \in warned

\* "found %d stack(s) with updates" counts the partly outdated ones: a stack whose
\* last check found an update has been announced.
PartialUpdateHeard ==
    [][\A c \in Scans, s \in Stacks :
          seen[c][s] \in {"update_available", "mixed"} /\ seen'[c][s] = "idle" /\ applied' = now
              => s \in heard']_vars

\* "When Keepup last actually checked [...] the container backends": the time is
\* only recorded by a scan in which some backend answered.
CheckTimeHonest ==
    [][lastCheck' # lastCheck
          => \E c \in Scans : seen'[c] # seen[c] /\ \E s \in Stacks : seen[c][s] # "missing"]_vars
===============================================================================
