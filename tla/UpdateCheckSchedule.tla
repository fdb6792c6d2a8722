-------------------------- MODULE UpdateCheckSchedule --------------------------
(***************************************************************************)
(* The background update check: an interval job that is registered again   *)
(* on every start and on every change of the interval                      *)
(* (apply_update_check_schedule and _first_check_time in                   *)
(* app/auto_update_scheduler.py) and resumes from the last check on record *)
(* (last_scan in app/last_check.py), whoever made that check.              *)
(*                                                                         *)
(* Time is relative, so that the state space is finite without a last day: *)
(* what is kept is how long ago the last check was and how long it takes   *)
(* until the job fires.  One tick is a fraction of an interval.            *)
(***************************************************************************)
EXTENDS Integers

CONSTANTS
    Intervals,     \* the hours an administrator may choose; 0 is off
    Floor,         \* _RESUME_FLOOR
    MinLife,       \* how long a process runs at least, unless lives are short
    MaxSaves,      \* bound: how often the interval is saved
    FaultSets      \* what may go wrong: one of these sets, in each behaviour

ASSUME IntervalsAssumption ==
    /\ Intervals \subseteq Nat /\ Intervals \ {0} # {}
    /\ Floor \in Nat \ {0} /\ MinLife \in Nat
    /\ \A h \in Intervals \ {0} : Floor <= h
    /\ \E h \in Intervals : \A g \in Intervals : g <= h
ASSUME BoundsAssumption == MaxSaves \in Nat

\* A check ends without a time on record; a process is stopped at any time.
Faults == {"unrecorded", "short lives"}
ASSUME FaultsAssumption == FaultSets \subseteq SUBSET Faults

VARIABLES
    faults,     \* what may go wrong in this behaviour; never changes
    up,         \* the process is running
    life,       \* for how long it has been
    hours,      \* config.yml: update_checks.interval_hours
    due,        \* the scheduler: time left until the job fires, or NoJob
    every,      \* the scheduler: the interval of the job's trigger; 0 without a job
    checking,   \* a scheduled check is under way
    age,        \* last_check.json: how long ago anything was checked, or Never
    saves       \* how often the interval was saved

vars == <<faults, up, life, hours, due, every, checking, age, saves>>

NoJob == -1
Never == -1

\* No age beyond the longest interval makes a difference, and no life beyond
\* what a process is guaranteed and the resume floor.
MaxAge == CHOOSE h \in Intervals : \A g \in Intervals : g <= h
MaxLife == IF Floor > MinLife THEN Floor ELSE MinLife

TypeOK ==
    /\ faults \in FaultSets
    /\ up \in BOOLEAN /\ checking \in BOOLEAN
    /\ life \in 0..MaxLife
    /\ hours \in Intervals
    /\ every \in Intervals \cup {0}
    /\ due \in 0..MaxAge \cup {NoJob}
    /\ age \in 0..MaxAge \cup {Never}
    /\ saves \in 0..MaxSaves

\* The process is about to start, for the first time or with the configuration
\* and the last check an earlier one left.
Init ==
    /\ faults \in FaultSets
    /\ up = FALSE /\ checking = FALSE
    /\ life = 0
    /\ hours \in Intervals
    /\ due = NoJob /\ every = 0
    /\ age \in 0..MaxAge \cup {Never}
    /\ saves = 0
-------------------------------------------------------------------------------
\* Mutant: the interval counts from the start of the process.
FirstCheckFromStart(h) == h

\* _first_check_time: the time left until the resumed schedule fires.
FirstCheckTime(h) ==
    IF age = Never THEN h ELSE IF h - age > Floor THEN h - age ELSE Floor

\* apply_update_check_schedule, for the interval h just read or saved.
ApplySchedule(h) ==
    /\ due' = IF h = 0 THEN NoJob ELSE FirstCheckTime(h)
    /\ every' = h

Startup ==
    /\ ~up
    /\ up' = TRUE
    /\ life' = 0
    /\ ApplySchedule(hours)
    /\ UNCHANGED <<faults, hours, checking, age, saves>>

Stop ==
    /\ up /\ (life >= MinLife \/ "short lives" \in faults)
    /\ up' = FALSE
    /\ due' = NoJob /\ every' = 0
    /\ checking' = FALSE
    /\ UNCHANGED <<faults, life, hours, age, saves>>

\* POST /check-interval, while nothing else of the settings is saved.
SaveInterval(h) ==
    /\ up /\ saves < MaxSaves
    /\ hours' = h
    /\ ApplySchedule(h)
    /\ saves' = saves + 1
    /\ UNCHANGED <<faults, up, life, checking, age>>

\* setup_save_schedule: the wizard saves the interval and leaves the scheduler alone.
WizardSave(h) ==
    /\ up /\ saves < MaxSaves
    /\ hours' = h
    /\ saves' = saves + 1
    /\ UNCHANGED <<faults, up, life, due, every, checking, age>>

\* Time passes; a job that is due fires first.
Tick ==
    /\ due # 0
    /\ due' = IF due = NoJob THEN NoJob ELSE due - 1
    /\ age' = IF age = Never \/ age = MaxAge THEN age ELSE age + 1
    /\ life' = IF up /\ life < MaxLife THEN life + 1 ELSE life
    /\ UNCHANGED <<faults, up, hours, every, checking, saves>>

\* The job fires; one that is still running is not started again.
Fire ==
    /\ up /\ due = 0
    /\ checking' = TRUE
    /\ due' = every
    /\ UNCHANGED <<faults, up, life, hours, every, age, saves>>

\* run_scan ends.  The time is on record unless the scan or its write failed.
Finish ==
    /\ checking
    /\ checking' = FALSE
    /\ \/ age' = 0
       \/ "unrecorded" \in faults /\ UNCHANGED age
    /\ UNCHANGED <<faults, up, life, hours, due, every, saves>>

\* host_check, docker_check: somebody opens the dashboard.
OnDemandCheck ==
    /\ up
    /\ age' = 0
    /\ UNCHANGED <<faults, up, life, hours, due, every, checking, saves>>

Next ==
    \/ Startup \/ Stop \/ Tick \/ Fire \/ Finish \/ OnDemandCheck
    \/ \E h \in Intervals : SaveInterval(h) \/ WizardSave(h)

Spec == Init /\ [][Next]_vars

\* Time passes, the scheduler fires what is due, a check ends (HOST_SCAN_TIMEOUT)
\* and a stopped container is started again.
Fairness == WF_vars(Tick) /\ WF_vars(Fire) /\ WF_vars(Finish) /\ WF_vars(Startup)

FairSpec == Spec /\ Fairness
-------------------------------------------------------------------------------
(***************************************************************************)
(* Properties                                                              *)
(***************************************************************************)

\* The scheduler runs by the saved interval.
Applied == every = hours

\* No restart, no change of the interval and no check made by hand puts off the
\* next check: once anything was checked, it comes an interval after the last
\* check or within the resume floor, if every check leaves its time on record.
NeverOverdue ==
    "unrecorded" \notin faults /\ up /\ Applied /\ hours > 0 /\ age # Never /\ ~checking
        => due + age <= hours \/ due <= Floor

\* Checks keep being made however often the process restarts, as long as each
\* process outlives the resume floor and some check was on record at the start,
\* unless checks stay switched off or what the wizard saved is never applied.
KeepsChecking ==
    age # Never /\ "short lives" \notin faults
        => []<>(checking \/ age = 0) \/ <>[](hours = 0 \/ ~Applied)

\* "a Keepup restarting more often than its interval would never check at all -
\* the very failure this job exists to fix", from the very first start on.
ChecksFromFirstStart ==
    "short lives" \notin faults => []<>(checking \/ age = 0) \/ <>[](hours = 0 \/ ~Applied)

\* "Update checks set to manual only": what the wizard says it has set is what the
\* scheduler does.
SavedIsApplied == up => Applied
===============================================================================
