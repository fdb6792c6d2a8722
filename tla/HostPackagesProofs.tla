--------------------------- MODULE HostPackagesProofs ---------------------------
(***************************************************************************)
(* Proofs about the update checks of a host and its packages, for all      *)
(* intervals, resume floors, hosts and numbers of packages: no restart and *)
(* no change of settings puts off the next check; a release is reported in *)
(* time; an upgrade that is reported as done was one, and is followed by   *)
(* the reboot it asks for.                                                 *)
(***************************************************************************)
EXTENDS HostPackages, TLAPS

\* The job exists exactly when the process runs and its trigger has an interval, and
\* is never further away than that.
JobInPlace ==
    /\ up \in BOOLEAN /\ checking \in BOOLEAN
    /\ hours \in Intervals /\ every \in Intervals \cup {0}
    /\ age \in Nat \cup {Never}
    /\ up = TRUE /\ every > 0 => due \in 0..every
    /\ up = FALSE \/ every = 0 => due = NoJob

\* NeverOverdue for the interval the job runs by, whatever the wizard has saved.
TriggerKept ==
    "unrecorded" \notin faults /\ up /\ every > 0 /\ age # Never /\ ~checking
        => due + age <= every \/ due <= Floor

IndInv == JobInPlace /\ TriggerKept

\* The resumed schedule fires within an interval of the last check, or after the
\* resume floor.
LEMMA FirstCheckBound ==
    ASSUME NEW h \in Intervals, h > 0, age \in Nat \cup {Never}
    PROVE  /\ FirstCheckTime(h) \in 0..h
           /\ age # Never => FirstCheckTime(h) + age <= h \/ FirstCheckTime(h) <= Floor
BY IntervalsAssumption DEF FirstCheckTime, Never

\* Scheduling for interval h, with nothing under way or with a check that goes on.
LEMMA Scheduled ==
    ASSUME NEW h \in Intervals, IndInv, ApplySchedule(h), hours' = h, up' = TRUE,
           UNCHANGED <<faults, checking, age>>
    PROVE  IndInv'
<1>1. h \in Nat
  BY IntervalsAssumption
<1>2. CASE h = 0
  BY <1>2 DEF IndInv, JobInPlace, TriggerKept, ApplySchedule
<1>3. CASE h > 0
  <2>1. due' = FirstCheckTime(h) /\ every' = h
    BY <1>3 DEF ApplySchedule
  <2>2. /\ FirstCheckTime(h) \in 0..h
        /\ age # Never => FirstCheckTime(h) + age <= h \/ FirstCheckTime(h) <= Floor
    BY <1>3, FirstCheckBound DEF IndInv, JobInPlace
  <2>. QED
    BY <1>1, <1>3, <2>1, <2>2 DEF IndInv, JobInPlace, TriggerKept
<1>. QED
  BY <1>1, <1>2, <1>3

\* Every step preserves the invariant.
LEMMA NextInv ==
    ASSUME IndInv, [Next]_vars
    PROVE  IndInv'
<1>0. every \in Nat /\ Floor \in Nat
  BY IntervalsAssumption DEF IndInv, JobInPlace
<1>1. CASE Startup
  BY <1>1, Scheduled DEF Startup, IndInv, JobInPlace
<1>2. CASE Stop
  BY <1>2 DEF Stop, IndInv, JobInPlace, TriggerKept
<1>3. ASSUME NEW h \in Intervals, SaveInterval(h) PROVE IndInv'
  BY <1>3, Scheduled DEF SaveInterval, IndInv, JobInPlace
<1>9. ASSUME NEW h \in Intervals, WizardSave(h) PROVE IndInv'
  BY <1>9 DEF WizardSave, IndInv, JobInPlace, TriggerKept
<1>4. CASE Tick
  <2>1. age' \in Nat \cup {Never} /\ (age' # Never => age # Never /\ age' <= age + 1)
    BY <1>4 DEF Tick, IndInv, JobInPlace, Never
  <2>. QED
    BY <1>0, <1>4, <2>1 DEF Tick, IndInv, JobInPlace, TriggerKept, NoJob, Never
<1>5. CASE Fire
  BY <1>0, <1>5 DEF Fire, IndInv, JobInPlace, TriggerKept, NoJob
<1>6. CASE Finish
  <2>1. /\ UNCHANGED <<faults, up, hours, due, every>> /\ checking' = FALSE
        /\ age' = 0 \/ ("unrecorded" \in faults /\ age' = age)
    BY <1>6 DEF Finish
  <2>a. age' \in Nat \cup {Never}
    BY <2>1 DEF IndInv, JobInPlace
  <2>2. JobInPlace'
    BY <2>1, <2>a DEF IndInv, JobInPlace
  <2>3. CASE age' = 0
    <3>1. TriggerKept'
      BY <1>0, <2>1, <2>3 DEF IndInv, JobInPlace, TriggerKept
    <3>. QED
      BY <2>2, <3>1 DEF IndInv
  <2>4. CASE "unrecorded" \in faults
    <3>1. TriggerKept'
      BY <2>1, <2>4 DEF TriggerKept
    <3>. QED
      BY <2>2, <3>1 DEF IndInv
  <2>. QED
    BY <2>1, <2>3, <2>4
<1>7. CASE OnDemandCheck
  BY <1>0, <1>7 DEF OnDemandCheck, IndInv, JobInPlace, TriggerKept, Never
<1>8. CASE UNCHANGED vars
  BY <1>8 DEF vars, IndInv, JobInPlace, TriggerKept
<1>. QED
  BY <1>1, <1>2, <1>3, <1>4, <1>5, <1>6, <1>7, <1>8, <1>9 DEF Next

\* The invariant of the schedule.
THEOREM JobInvariance == Spec => []IndInv
<1>0. MaxAge \in Nat
  BY IntervalsAssumption DEF MaxAge
<1>1. Init => IndInv
  <2> SUFFICES ASSUME Init PROVE IndInv
    OBVIOUS
  <2>1. age \in Nat \cup {Never}
    BY <1>0 DEF Init
  <2>2. TriggerKept
    BY DEF Init, TriggerKept
  <2>3. JobInPlace
    BY <2>1 DEF Init, JobInPlace
  <2>. QED
    BY <2>2, <2>3 DEF IndInv
<1>2. IndInv /\ [Next]_vars => IndInv'
  BY NextInv
<1>. QED
  BY <1>1, <1>2, PTL DEF Spec

\* For every set of intervals and every resume floor below them: the next check is
\* never further away than an interval after the last one, however often the
\* process restarts, the settings are saved and the dashboard checks by itself.
THEOREM NeverOverdueHolds == Spec => []NeverOverdue
<1>1. IndInv => NeverOverdue
  BY DEF IndInv, TriggerKept, NeverOverdue, Applied
<1>. QED
  BY <1>1, JobInvariance, PTL

\* The bounds are numbers, and no interval is longer than the longest.
LEMMA BoundsType ==
    /\ MaxAge \in Nat /\ MaxLife \in Nat
    /\ \A h \in Intervals : h \in 0..MaxAge
<1>1. PICK h \in Intervals : \A g \in Intervals : g <= h
  BY IntervalsAssumption
<1>2. MaxAge \in Intervals /\ \A g \in Intervals : g <= MaxAge
  BY <1>1 DEF MaxAge
<1>3. Intervals \subseteq Nat /\ Floor \in Nat /\ MinLife \in Nat
  BY IntervalsAssumption
<1> QED
  BY <1>2, <1>3 DEF MaxLife

\* Every variable keeps its type: in particular the time left until the job fires is
\* never negative, and never longer than the longest interval.
THEOREM TypeCorrect == Spec => []TypeOK
<1>1. Init => TypeOK
  <2> SUFFICES ASSUME Init PROVE TypeOK
    OBVIOUS
  <2>1. up \in BOOLEAN /\ checking \in BOOLEAN
    BY DEF Init
  <2>2. life \in 0..MaxLife /\ saves \in 0..MaxSaves
    BY BoundsType, BoundsAssumption DEF Init
  <2> QED
    BY <2>1, <2>2 DEF Init, TypeOK
<1>2. TypeOK /\ [Next]_vars => TypeOK'
  <2> SUFFICES ASSUME TypeOK, [Next]_vars PROVE TypeOK'
    OBVIOUS
  <2> USE BoundsType, BoundsAssumption DEF TypeOK
  <2>0. \A h \in Intervals : h > 0 => FirstCheckTime(h) \in 0..MaxAge
    <3> SUFFICES ASSUME NEW h \in Intervals, h > 0 PROVE FirstCheckTime(h) \in 0..MaxAge
      OBVIOUS
    <3>1. FirstCheckTime(h) \in 0..h
      BY FirstCheckBound
    <3> QED BY <3>1
  <2>1. \A h \in Intervals : ApplySchedule(h) => due' \in 0..MaxAge \cup {NoJob} /\ every' = h
    BY <2>0 DEF ApplySchedule
  <2>2. CASE Startup
    BY <2>1, <2>2 DEF Startup
  <2>3. CASE Stop
    BY <2>3 DEF Stop
  <2>4. ASSUME NEW h \in Intervals, SaveInterval(h) PROVE TypeOK'
    BY <2>1, <2>4 DEF SaveInterval
  <2>10. ASSUME NEW h \in Intervals, WizardSave(h) PROVE TypeOK'
    BY <2>10 DEF WizardSave
  <2>5. CASE Tick
    BY <2>5 DEF Tick, NoJob, Never
  <2>6. CASE Fire
    BY <2>6 DEF Fire
  <2>7. CASE Finish
    <3>1. age' \in 0..MaxAge \cup {Never}
      BY <2>7 DEF Finish
    <3>2. /\ UNCHANGED <<faults, up, life, hours, due, every, saves>>
          /\ checking' = FALSE
      BY <2>7 DEF Finish
    <3> QED
      BY <3>1, <3>2
  <2>8. CASE OnDemandCheck
    BY <2>8 DEF OnDemandCheck
  <2>9. CASE UNCHANGED vars
    BY <2>9 DEF vars
  <2> QED
    BY <2>2, <2>3, <2>4, <2>5, <2>6, <2>7, <2>8, <2>9, <2>10 DEF Next
<1> QED
  BY <1>1, <1>2, PTL DEF Spec
-------------------------------------------------------------------------------
(***************************************************************************)
(* The packages of a host, on top of the schedule.                         *)
(***************************************************************************)

\* Every step of the host and its checks is a step of the schedule, or leaves it alone.
LEMMA CycleStep == [CycleNext]_cycleVars => [Next]_vars
<1> SUFFICES ASSUME [CycleNext]_cycleVars, ~UNCHANGED vars PROVE Next
  OBVIOUS
<1>1. ~UNCHANGED cycleVars
  BY DEF cycleVars
<1>2. CASE StartUp \/ ShutDown \/ Pass \/ FireProbe \/ FinishProbe \/ FinishWithout \/ AnswerProbe
  BY <1>2 DEF StartUp, ShutDown, Pass, FireProbe, FinishProbe, FinishWithout, AnswerProbe, Next
<1>3. ASSUME NEW h \in Intervals, Save(h) PROVE Next
  BY <1>3 DEF Save, Next
<1>4. CASE AskProbe \/ AskFails \/ AskReboot \/ AskRebootAnswered \/ AskRebootFails \/ NodeFetches \/ TwinRefreshed
  BY <1>4 DEF AskProbe, AskFails, AskReboot, AskRebootAnswered, AskRebootFails, NodeFetches, TwinRefreshed
<1>5. CASE AutoReboot \/ RebootByHand
  BY <1>5 DEF AutoReboot, RebootByHand, Boot
<1>6. ASSUME NEW c \in Callers, RunList(c) PROVE Next
  BY <1>6 DEF RunList
<1>7. ASSUME NEW b \in Runners, StartUpgrade(b) \/ BeginTransaction(b) \/ UpgradeTimesOut(b) \/ EndRun(b) PROVE Next
  BY <1>7 DEF StartUpgrade, BeginTransaction, UpgradeTimesOut, EndRun
<1>8. ASSUME NEW p \in Pkgs, Install(p) \/ Publish(p) \/ RolledOut(p) PROVE Next
  BY <1>8 DEF Install, Publish, RolledOut
<1>9. ASSUME NEW ok \in BOOLEAN, EndTransaction(ok) PROVE Next
  BY <1>9 DEF EndTransaction
<1> QED BY <1>1, <1>2, <1>3, <1>4, <1>5, <1>6, <1>7, <1>8, <1>9 DEF CycleNext

\* The checks of a host, with their commands, upgrades and reboots, implement the
\* update-check schedule: what holds of the schedule holds of them.
THEOREM CycleImplementsSchedule == CycleSpec => Spec
<1>1. CycleInit => Init
  BY DEF CycleInit
<1> QED BY <1>1, CycleStep, PTL DEF CycleSpec, Spec

\* NeverOverdue, of the whole of it.
THEOREM CycleNeverOverdue == CycleSpec => []NeverOverdue
BY CycleImplementsSchedule, NeverOverdueHolds, PTL
-------------------------------------------------------------------------------
Holds == {"none", "phased", "deps", "both"}
Entry == [ver : Versions, hold : Holds]
Probe == [at : {"off", "asked", "listed"}, refresh : BOOLEAN, listed : [Pkgs -> Versions], took : 0..CheckTime]
Phases == {"idle", "started", "running", "done", "asking", "rebooting", "finished", "failed"}
Run == [phase : Phases, goal : [Pkgs -> Versions]]
Report == [listed : [Pkgs -> Versions], reboot : BOOLEAN, status : [Pkgs -> {"no", "apply", "phased", "full"}]]
Txn == [open : BOOLEAN, todo : [Pkgs -> Versions], by : Runners]

\* What is known of the setting, whichever it is.
LEMMA HostType ==
    ASSUME host \in Settings
    PROVE  /\ host.ttl \in Nat /\ host.out \in [Pkgs -> Versions] /\ host.holds \subseteq Holds
           /\ host.way # "ssh" => host.pm = "apt"
           /\ host.pm # "apt" => host.holds \subseteq {"none"}
           /\ MaxVersion \in Nat /\ 0 \in Versions /\ CheckTime \in Nat \ {0}
           /\ MaxWait \in Nat
<1>1. host \in Setting
  BY SettingsAssumption
<1>2. /\ host.ttl \in Nat /\ host.out \in [Pkgs -> Versions] /\ host.holds \subseteq Holds
  BY <1>1 DEF Setting, Versions, Holds
<1>3. MaxVersion \in Nat /\ 0 \in Versions /\ CheckTime \in Nat \ {0}
  BY PackagesAssumption DEF Versions
<1>4. MaxWait \in Nat
  BY <1>2, <1>3, BoundsType DEF MaxWait, ReportBound
<1> QED BY <1>2, <1>3, <1>4, SettingsAssumption

\* The empty listing, probe, transaction and run have their types.
LEMMA NothingType ==
    ASSUME host \in Settings
    PROVE  /\ Nothing \in [Pkgs -> Versions] /\ NoProbe \in Probe /\ NoTxn \in Txn /\ NoRun \in Run
BY HostType DEF Nothing, NoProbe, NoTxn, NoRun, Probe, Txn, Run, Phases, Runners

\* CycleTypeOK in these terms.
LEMMA CycleTypes ==
    CycleTypeOK <=>
      /\ TypeOK /\ host \in Settings
      /\ repo \in [Pkgs -> Entry] /\ index \in [Pkgs -> Entry]
      /\ inst \in [Pkgs -> Versions] /\ running \in Versions /\ txn \in Txn
      /\ fresh \in 0..host.ttl \cup {Never}
      /\ probe \in [Callers -> Probe] /\ report \in Report
      /\ wait \in [Pkgs -> 0..MaxWait] /\ run \in [Runners -> Run]
BY DEF CycleTypeOK, Entry, Holds, Probe, Run, Phases, Report, Txn

\* The pieces of a check are well-formed.
LEMMA ResultType ==
    ASSUME CycleTypeOK, NEW c \in Callers
    PROVE  Result(c) \in Report
<1>1. probe[c].listed \in [Pkgs -> Versions]
  BY CycleTypes DEF Probe
<1>2. StatusOf(probe[c].listed) \in [Pkgs -> {"no", "apply", "phased", "full"}]
  BY DEF StatusOf
<1>3. ASSUME NEW pm, NEW st PROVE RebootFlag(pm, st) \in BOOLEAN
  <2>1. CASE host.way = "lxc"
    BY <2>1 DEF RebootFlag
  <2>2. CASE host.way = "node"
    <3>1. RebootFlag(pm, st) = NodeNeedsReboot
      BY <2>2 DEF RebootFlag
    <3>2. ASSUME NEW x, NEW y PROVE (x > y) \in BOOLEAN
      OBVIOUS
    <3> QED BY <3>1, <3>2, Zenon DEF NodeNeedsReboot
  <2>3. CASE host.way \notin {"lxc", "node"}
    <3>1. RebootFlag(pm, st) = (KernelAmong(st) \/ (HasMarker(pm) /\ inst[Kernel] > running))
      BY <2>3 DEF RebootFlag
    <3> QED BY <3>1, Zenon
  <2> QED BY <2>1, <2>2, <2>3
<1>4. Result(c).listed = probe[c].listed /\ Result(c).status = StatusOf(probe[c].listed)
      /\ Result(c).reboot = RebootFlag(DetectedPm, StatusOf(probe[c].listed))
      /\ Result(c) = [listed |-> probe[c].listed, status |-> StatusOf(probe[c].listed),
                      reboot |-> RebootFlag(DetectedPm, StatusOf(probe[c].listed))]
  BY DEF Result
<1> QED BY <1>1, <1>2, <1>3, <1>4 DEF Report

\* A check that begins is well-formed,
LEMMA BeginProbeType ==
    ASSUME CycleTypeOK, NEW c \in Callers, BeginProbe(c)
    PROVE  probe' \in [Callers -> Probe]
<1>1. (host.way # "node" /\ ~IsCacheFresh) \in BOOLEAN
  BY Zenon
<1> QED BY <1>1, CycleTypes DEF BeginProbe, Probe

\* one that is dropped leaves the others alone,
LEMMA DropProbeType ==
    ASSUME CycleTypeOK, NEW c \in Callers, probe' = [probe EXCEPT ![c] = NoProbe]
    PROVE  probe' \in [Callers -> Probe]
BY CycleTypes, NothingType

\* and so does a run that goes on to its next phase.
LEMMA PhaseType ==
    ASSUME CycleTypeOK, NEW b \in Runners, NEW ph \in Phases, SetPhase(b, ph)
    PROVE  run' \in [Runners -> Run]
BY CycleTypes DEF SetPhase, Run

\* The types of the host and its checks, one step.
LEMMA CycleTypeStep ==
    ASSUME CycleTypeOK, TypeOK', [CycleNext]_cycleVars
    PROVE  CycleTypeOK'
<1> DEFINE Keeps == /\ host' \in Settings
                    /\ repo' \in [Pkgs -> Entry] /\ index' \in [Pkgs -> Entry]
                    /\ inst' \in [Pkgs -> Versions] /\ running' \in Versions /\ txn' \in Txn
                    /\ fresh' \in 0..host'.ttl \cup {Never}
                    /\ probe' \in [Callers -> Probe] /\ report' \in Report
                    /\ wait' \in [Pkgs -> 0..MaxWait'] /\ run' \in [Runners -> Run]
<1>0. Keeps => CycleTypeOK'
  BY DEF CycleTypeOK, Entry, Holds, Probe, Run, Phases, Report, Txn
<1>t. /\ host \in Settings
      /\ repo \in [Pkgs -> Entry] /\ index \in [Pkgs -> Entry]
      /\ inst \in [Pkgs -> Versions] /\ running \in Versions /\ txn \in Txn
      /\ fresh \in 0..host.ttl \cup {Never}
      /\ probe \in [Callers -> Probe] /\ report \in Report
      /\ wait \in [Pkgs -> 0..MaxWait] /\ run \in [Runners -> Run]
  BY CycleTypes
<1>h. /\ host.ttl \in Nat /\ host.out \in [Pkgs -> Versions] /\ host.holds \subseteq Holds
      /\ MaxVersion \in Nat /\ 0 \in Versions /\ CheckTime \in Nat \ {0} /\ MaxWait \in Nat
  BY <1>t, HostType
<1>n. Nothing \in [Pkgs -> Versions] /\ NoProbe \in Probe /\ NoTxn \in Txn /\ NoRun \in Run
  BY <1>t, NothingType
<1>m. host' = host => MaxWait' = MaxWait
  BY DEF MaxWait, ReportBound
<1>c. Callers = {"job", "user", "auto"} /\ Runners = {"manual", "auto"}
  BY DEF Callers, Runners
<1>f. ASSUME NEW c \in Callers, EndProbe(c) PROVE fresh' \in 0..host.ttl \cup {Never}
  BY <1>f, <1>t, <1>h DEF EndProbe, MarkRefreshed
<1>w. ASSUME NEW r, Told(r) PROVE wait' \in [Pkgs -> 0..MaxWait]
  BY <1>w, <1>t, <1>h DEF Told
<1>1. CASE StartUp
  BY <1>0, <1>1, <1>t, <1>m DEF StartUp, hostVars, appVars
<1>2. CASE ShutDown
  BY <1>0, <1>2, <1>t, <1>n, <1>m, <1>h DEF ShutDown, hostVars
<1>3. CASE Pass
  <2>1. fresh' \in 0..host.ttl \cup {Never}
    BY <1>3, <1>t, <1>h DEF Pass, Never
  <2>2. wait' \in [Pkgs -> 0..MaxWait]
    <3>1. \A p \in Pkgs : wait[p] \in 0..MaxWait
      BY <1>t
    <3> QED BY <1>3, <3>1, <1>h DEF Pass
  <2>3. probe' \in [Callers -> Probe]
    <3>1. ASSUME NEW c \in Callers PROVE probe'[c] \in Probe
      <4>1. CASE probe[c] = NoProbe
        BY <1>3, <1>n, <4>1 DEF Pass
      <4>2. CASE probe[c] # NoProbe
        <5>1. probe[c].took < CheckTime /\ probe'[c] = [probe[c] EXCEPT !.took = @ + 1]
          BY <1>3, <4>2 DEF Pass
        <5>2. probe[c] \in Probe
          BY <1>t
        <5> QED BY <5>1, <5>2, <1>h DEF Probe
      <4> QED BY <4>1, <4>2
    <3> QED BY <1>3, <3>1 DEF Pass
  <2> QED BY <1>0, <1>3, <1>t, <1>m, <2>1, <2>2, <2>3 DEF Pass, hostVars
<1>4. ASSUME NEW h \in Intervals, Save(h) PROVE CycleTypeOK'
  BY <1>0, <1>4, <1>t, <1>m, <1>h DEF Save, hostVars, appVars
<1>5. CASE FireProbe
  <2>1. probe' \in [Callers -> Probe]
    BY <1>5, <1>t, <1>c, BeginProbeType DEF FireProbe
  <2> QED BY <1>0, <1>5, <1>t, <1>m, <2>1 DEF FireProbe, hostVars
<1>6. CASE FinishProbe
  <2>1. probe' \in [Callers -> Probe] /\ report' \in Report
    BY <1>6, <1>c, DropProbeType, ResultType DEF FinishProbe, EndProbe
  <2> QED BY <1>0, <1>6, <1>t, <1>m, <1>f, <1>w, <1>c, <2>1 DEF FinishProbe, hostVars
<1>7. CASE FinishWithout
  <2>1. probe' \in [Callers -> Probe] /\ fresh' = fresh
    BY <1>7, <1>c, DropProbeType DEF FinishWithout, DropProbe
  <2> QED BY <1>0, <1>7, <1>t, <1>m, <2>1 DEF FinishWithout, hostVars
<1>8. CASE AskProbe
  <2>1. probe' \in [Callers -> Probe]
    BY <1>8, <1>c, BeginProbeType DEF AskProbe
  <2> QED BY <1>0, <1>8, <1>t, <1>m, <2>1 DEF AskProbe, hostVars
<1>9. CASE AnswerProbe
  <2>1. probe' \in [Callers -> Probe] /\ report' \in Report
    BY <1>9, <1>c, DropProbeType, ResultType DEF AnswerProbe, EndProbe
  <2> QED BY <1>0, <1>9, <1>t, <1>m, <1>f, <1>w, <1>c, <2>1 DEF AnswerProbe, hostVars
<1>10. CASE AskFails
  <2>1. probe' \in [Callers -> Probe] /\ fresh' = fresh
    BY <1>10, <1>c, DropProbeType DEF AskFails, DropProbe
  <2> QED BY <1>0, <1>10, <1>t, <1>m, <2>1 DEF AskFails, hostVars
<1>11. ASSUME NEW c \in Callers, RunList(c) PROVE CycleTypeOK'
  <2>1. index' \in [Pkgs -> Entry]
    BY <1>11, <1>t DEF RunList
  <2>2. \A p \in Pkgs : index'[p].ver \in Versions
    BY <2>1 DEF Entry
  <2>3. probe' \in [Callers -> Probe]
    <3> DEFINE found == [p \in Pkgs |-> IF DetectedPm # "unknown" /\ p \in Upgradable(index') THEN index'[p].ver ELSE 0]
    <3>1. found \in [Pkgs -> Versions]
      BY <2>2, <1>h
    <3>2. probe' = [probe EXCEPT ![c].at = "listed", ![c].listed = found]
      BY <1>11 DEF RunList
    <3> HIDE DEF found
    <3> QED BY <3>1, <3>2, <1>t DEF Probe
  <2> QED BY <1>0, <1>11, <1>t, <1>m, <2>1, <2>3 DEF RunList
<1>12. ASSUME NEW b \in Runners, StartUpgrade(b) PROVE CycleTypeOK'
  <2>1. Offered \in [Pkgs -> Versions]
    BY <1>t, <1>h DEF Offered, Report
  <2>2. run' \in [Runners -> Run]
    BY <1>12, <1>t, <2>1 DEF StartUpgrade, Run, Phases
  <2> QED BY <1>0, <1>12, <1>t, <1>m, <2>2 DEF StartUpgrade, hostVars
<1>13. ASSUME NEW b \in Runners, BeginTransaction(b) PROVE CycleTypeOK'
  <2>1. run' \in [Runners -> Run]
    BY <1>13, PhaseType DEF BeginTransaction, Phases
  <2>2. index' \in [Pkgs -> Entry]
    BY <1>13, <1>t DEF BeginTransaction
  <2>3. Installs(index') \in [Pkgs -> Versions]
    BY <2>2, <1>h DEF Installs, Entry
  <2>4. txn' = txn \/ txn' = [open |-> TRUE, todo |-> Installs(index'), by |-> b]
    BY <1>13 DEF BeginTransaction
  <2>5. ASSUME NEW f \in [Pkgs -> Versions] PROVE [open |-> TRUE, todo |-> f, by |-> b] \in Txn
    BY DEF Txn
  <2>6. txn' \in Txn
    BY <1>t, <2>3, <2>4, <2>5
  <2> QED BY <1>0, <1>13, <1>t, <1>m, <2>1, <2>2, <2>6 DEF BeginTransaction
<1>14. ASSUME NEW b \in Runners, UpgradeTimesOut(b) \/ EndRun(b) PROVE CycleTypeOK'
  <2>1. run' \in [Runners -> Run]
    BY <1>14, <1>t, <1>n, PhaseType DEF UpgradeTimesOut, EndRun, Phases
  <2> QED BY <1>0, <1>14, <1>t, <1>m, <2>1 DEF UpgradeTimesOut, EndRun, hostVars
<1>15. ASSUME NEW p \in Pkgs, Install(p) PROVE CycleTypeOK'
  <2>1. txn' = [txn EXCEPT !.todo[p] = 0] /\ inst' = [inst EXCEPT ![p] = txn.todo[p]]
    BY <1>15 DEF Install
  <2>2. txn' \in Txn /\ inst' \in [Pkgs -> Versions]
    BY <1>t, <1>h, <2>1 DEF Txn
  <2> QED BY <1>0, <1>15, <1>t, <1>m, <2>2 DEF Install, appVars
<1>16. ASSUME NEW p \in Pkgs, Publish(p) PROVE CycleTypeOK'
  <2>1. PICK h \in host.holds : repo' = [repo EXCEPT ![p] = [ver |-> @.ver + 1, hold |-> h]]
    BY <1>16 DEF Publish
  <2>2. repo[p].ver + 1 \in Versions /\ h \in Holds
    BY <1>16, <1>t, <1>h DEF Publish, Entry, Versions
  <2>3. repo' \in [Pkgs -> Entry]
    BY <1>t, <2>1, <2>2 DEF Entry
  <2>4. wait' \in [Pkgs -> 0..MaxWait]
    BY <1>16, <1>t, <1>h DEF Publish
  <2> QED BY <1>0, <1>16, <1>t, <1>m, <2>3, <2>4 DEF Publish, appVars
<1>17. ASSUME NEW p \in Pkgs, RolledOut(p) PROVE CycleTypeOK'
  <2>1. repo' \in [Pkgs -> Entry]
    BY <1>17, <1>t DEF RolledOut, Entry, Holds
  <2> QED BY <1>0, <1>17, <1>t, <1>m, <2>1 DEF RolledOut, appVars
<1>18. ASSUME NEW ok \in BOOLEAN, EndTransaction(ok) PROVE CycleTypeOK'
  <2>1. ReturnOf(ok) \in Phases /\ txn.by \in Runners
    BY <1>t DEF ReturnOf, Phases, Txn
  <2>2. run' \in [Runners -> Run]
    BY <1>18, <1>t, <2>1, PhaseType DEF EndTransaction
  <2> QED BY <1>0, <1>18, <1>t, <1>n, <1>m, <2>2 DEF EndTransaction
<1>19. CASE AskReboot
  <2>1. run' \in [Runners -> Run]
    BY <1>19, <1>c, PhaseType DEF AskReboot, Phases
  <2>2. probe' \in [Callers -> Probe]
    BY <1>19, <1>t, <1>c, BeginProbeType DEF AskReboot
  <2> QED BY <1>0, <1>19, <1>t, <1>m, <2>1, <2>2 DEF AskReboot, hostVars
<1>20. CASE AskRebootAnswered
  <2>1. run' \in [Runners -> Run]
    BY <1>20, <1>c, PhaseType DEF AskRebootAnswered, Phases
  <2>2. probe' \in [Callers -> Probe]
    BY <1>20, <1>c, DropProbeType DEF AskRebootAnswered, EndProbe
  <2> QED BY <1>0, <1>20, <1>t, <1>f, <1>c, <1>m, <2>1, <2>2 DEF AskRebootAnswered, hostVars
<1>21. CASE AskRebootFails
  <2>1. run' \in [Runners -> Run]
    BY <1>21, <1>c, PhaseType DEF AskRebootFails, Phases
  <2>2. probe' \in [Callers -> Probe] /\ fresh' = fresh
    BY <1>21, <1>c, DropProbeType DEF AskRebootFails, DropProbe
  <2> QED BY <1>0, <1>21, <1>t, <1>m, <2>1, <2>2 DEF AskRebootFails, hostVars
<1>22. ASSUME NEW r \in [Runners -> Run], Boot(r) PROVE CycleTypeOK'
  <2>1. txn.by \in Runners /\ NextBoot \in Versions
    BY <1>t, <1>h, PackagesAssumption DEF Txn, NextBoot
  <2>2. run' \in [Runners -> Run]
    BY <1>22, <2>1 DEF Boot, Run, Phases
  <2> QED BY <1>0, <1>22, <1>t, <1>n, <1>m, <2>1, <2>2 DEF Boot
<1>23. CASE AutoReboot \/ RebootByHand
  <2>1. [run EXCEPT !["auto"].phase = "finished"] \in [Runners -> Run]
    BY <1>t, <1>c DEF Run, Phases
  <2> QED BY <1>22, <1>23, <1>t, <2>1 DEF AutoReboot, RebootByHand
<1>24. CASE NodeFetches \/ TwinRefreshed
  BY <1>0, <1>24, <1>t, <1>m, <1>h DEF NodeFetches, TwinRefreshed, hostVars, appVars
<1>25. CASE UNCHANGED cycleVars
  BY <1>0, <1>25, <1>t, <1>m DEF cycleVars, hostVars, appVars
<1> QED
  BY <1>1, <1>2, <1>3, <1>4, <1>5, <1>6, <1>7, <1>8, <1>9, <1>10, <1>11, <1>12, <1>13, <1>14, <1>15, <1>16,
     <1>17, <1>18, <1>19, <1>20, <1>21, <1>23, <1>24, <1>25 DEF CycleNext

\* Every variable keeps its type: in particular no check takes longer than it may,
\* and no version is above those that were released.
THEOREM CycleTypeCorrect == CycleSpec => []CycleTypeOK
<1>1. CycleInit /\ TypeOK => CycleTypeOK
  <2> SUFFICES ASSUME CycleInit, TypeOK PROVE CycleTypeOK
    OBVIOUS
  <2>1. host \in Settings
    BY DEF CycleInit
  <2>2. Nothing \in [Pkgs -> Versions] /\ NoProbe \in Probe /\ NoTxn \in Txn /\ NoRun \in Run
    BY <2>1, NothingType
  <2>3. 0 \in Versions /\ 0 \in 0..MaxWait
    BY <2>1, HostType
  <2>4. repo \in [Pkgs -> Entry] /\ index \in [Pkgs -> Entry]
    BY <2>3 DEF CycleInit, Entry, Holds
  <2>5. report \in Report
    BY <2>2 DEF CycleInit, Report
  <2> QED BY <2>1, <2>2, <2>3, <2>4, <2>5, CycleTypes DEF CycleInit
<1>2. CycleTypeOK /\ TypeOK' /\ [CycleNext]_cycleVars => CycleTypeOK'
  BY CycleTypeStep
<1>3. CycleSpec => []TypeOK
  BY CycleImplementsSchedule, TypeCorrect, PTL
<1> QED BY <1>1, <1>2, <1>3, PTL DEF CycleSpec
-------------------------------------------------------------------------------
(***************************************************************************)
(* Upgrades and reboots.                                                   *)
(***************************************************************************)
Late == {"done", "asking", "rebooting", "finished"}

\* The mirror is ahead of the index, in releases or in what they are held back for;
\* only apt holds anything back.
Ahead ==
    \A p \in Pkgs :
        /\ index[p].ver <= repo[p].ver
        /\ index[p].ver = repo[p].ver /\ index[p].hold = "none" => repo[p].hold = "none"
        /\ host.pm # "apt" => repo[p].hold = "none" /\ index[p].hold = "none"

\* Version g of p is in the index for an upgrade to install, or was overtaken there.
Within(g, p) == g = 0 \/ index[p].ver > g \/ (index[p].ver = g /\ index[p].hold = "none")

\* Nothing was listed that is not in the index, and what an upgrade was said to
\* install an upgrade would install.
Listings ==
    /\ \A c \in Callers, p \in Pkgs : probe[c].listed[p] <= index[p].ver
    /\ host.way # "node" => \A p \in Pkgs : report.status[p] = "apply" => Within(report.listed[p], p)
    /\ host.way # "node" => \A b \in Runners, p \in Pkgs : Within(run[b].goal[p], p)

\* Without a package manager nothing is listed, promised or begun.
Blind ==
    DetectedPm = "unknown" =>
        /\ ~txn.open
        /\ \A p \in Pkgs : /\ report.listed[p] = 0
                           /\ \A c \in Callers : probe[c].listed[p] = 0
                           /\ \A b \in Runners : run[b].goal[p] = 0

\* An upgrade that is waited for is the open transaction, and a transaction only
\* takes packages forward.
Transactions ==
    /\ \A b \in Runners : run[b].phase = "running" => txn.open /\ txn.by = b
    /\ txn.open => \A p \in Pkgs : txn.todo[p] # 0 => inst[p] <= txn.todo[p]

\* What an upgrade is to install, it has installed or is about to.
Promised ==
    host.way # "node" =>
        \A b \in Runners, p \in Pkgs :
            /\ run[b].phase = "running" =>
                   inst[p] >= run[b].goal[p] \/ index[p].ver > run[b].goal[p] \/ txn.todo[p] >= run[b].goal[p]
            /\ run[b].phase \in Late => inst[p] >= run[b].goal[p] \/ index[p].ver > run[b].goal[p]

UpgradeInv == Ahead /\ Listings /\ Blind /\ Transactions /\ Promised

\* Unless upgrades overlap, there is one at a time, and none behind the back of a
\* scheduled one that is done.
Alone ==
    /\ txn.open => "no ssh" \notin host.may
    /\ "overlap" \notin host.may =>
        /\ \A a, b \in Runners : run[a] # NoRun /\ run[b] # NoRun => a = b
        /\ run["auto"].phase \in Late => ~txn.open /\ "no ssh" \notin host.may

\* What is booted was installed, and what a scheduled upgrade leaves is booted.
Booted ==
    /\ running <= inst[Kernel]
    /\ host.way = "node" /\ "pinned" \in host.may => running = 0
    /\ RebootedForKernel

RebootInv == Alone /\ Booted

\* The values the proofs compare are numbers.
LEMMA Numbers ==
    ASSUME CycleTypeOK
    PROVE  /\ \A p \in Pkgs : /\ repo[p].ver \in Nat /\ index[p].ver \in Nat /\ inst[p] \in Nat
                              /\ txn.todo[p] \in Nat /\ report.listed[p] \in Nat
                              /\ \A c \in Callers : probe[c].listed[p] \in Nat
                              /\ \A b \in Runners : run[b].goal[p] \in Nat
           /\ running \in Nat /\ txn.by \in Runners
<1>1. \A v \in Versions : v \in Nat
  BY PackagesAssumption DEF Versions
<1>2. /\ repo \in [Pkgs -> Entry] /\ index \in [Pkgs -> Entry]
      /\ inst \in [Pkgs -> Versions] /\ running \in Versions /\ txn \in Txn
      /\ probe \in [Callers -> Probe] /\ report \in Report /\ run \in [Runners -> Run]
  BY CycleTypes
<1>3. ASSUME NEW p \in Pkgs
      PROVE  /\ repo[p].ver \in Nat /\ index[p].ver \in Nat /\ inst[p] \in Nat
             /\ txn.todo[p] \in Nat /\ report.listed[p] \in Nat
  BY <1>1, <1>2 DEF Entry, Txn, Report
<1>4. ASSUME NEW p \in Pkgs, NEW c \in Callers PROVE probe[c].listed[p] \in Nat
  BY <1>1, <1>2 DEF Probe
<1>5. ASSUME NEW p \in Pkgs, NEW b \in Runners PROVE run[b].goal[p] \in Nat
  BY <1>1, <1>2 DEF Run
<1>6. txn.by \in Runners
  BY <1>2 DEF Txn
<1> QED BY <1>1, <1>2, <1>3, <1>4, <1>5, <1>6

\* The steps that touch the host; no step touches the setting.
LEMMA HostMoves ==
    ASSUME [CycleNext]_cycleVars
    PROVE  /\ host' = host
           /\ \/ UNCHANGED hostVars
              \/ \E c \in Callers : RunList(c)
              \/ \E b \in Runners : BeginTransaction(b)
              \/ \E p \in Pkgs : Install(p) \/ Publish(p) \/ RolledOut(p)
              \/ \E ok \in BOOLEAN : EndTransaction(ok)
              \/ AutoReboot \/ RebootByHand \/ NodeFetches
<1>1. CASE StartUp \/ ShutDown \/ Pass \/ FireProbe \/ FinishProbe \/ FinishWithout \/ AnswerProbe
  BY <1>1 DEF StartUp, ShutDown, Pass, FireProbe, FinishProbe, FinishWithout, AnswerProbe
<1>2. ASSUME NEW h \in Intervals, Save(h) PROVE host' = host /\ UNCHANGED hostVars
  BY <1>2 DEF Save
<1>3. CASE AskProbe \/ AskFails \/ AskReboot \/ AskRebootAnswered \/ AskRebootFails \/ TwinRefreshed
  BY <1>3 DEF AskProbe, AskFails, AskReboot, AskRebootAnswered, AskRebootFails, TwinRefreshed
<1>4. CASE AutoReboot \/ RebootByHand \/ NodeFetches
  BY <1>4 DEF AutoReboot, RebootByHand, Boot, NodeFetches
<1>5. ASSUME NEW c \in Callers, RunList(c) PROVE host' = host
  BY <1>5 DEF RunList
<1>6. ASSUME NEW b \in Runners, StartUpgrade(b) \/ UpgradeTimesOut(b) \/ EndRun(b)
      PROVE  host' = host /\ UNCHANGED hostVars
  BY <1>6 DEF StartUpgrade, UpgradeTimesOut, EndRun
<1>7. ASSUME NEW b \in Runners, BeginTransaction(b) PROVE host' = host
  BY <1>7 DEF BeginTransaction
<1>8. ASSUME NEW p \in Pkgs, Install(p) \/ Publish(p) \/ RolledOut(p) PROVE host' = host
  BY <1>8 DEF Install, Publish, RolledOut
<1>9. ASSUME NEW ok \in BOOLEAN, EndTransaction(ok) PROVE host' = host
  BY <1>9 DEF EndTransaction
<1>10. CASE UNCHANGED cycleVars
  BY <1>10 DEF cycleVars
<1> QED BY <1>1, <1>2, <1>3, <1>4, <1>5, <1>6, <1>7, <1>8, <1>9, <1>10 DEF CycleNext

\* The index is fetched whole or stays; the mirror only moves forward.
LEMMA IndexMoves ==
    ASSUME CycleTypeOK, [CycleNext]_cycleVars
    PROVE  /\ index' = index \/ (index' = repo /\ repo' = repo)
           /\ \/ repo' = repo
              \/ /\ index' = index
                 /\ \E p \in Pkgs, h \in host.holds : repo' = [repo EXCEPT ![p] = [ver |-> @.ver + 1, hold |-> h]]
              \/ /\ index' = index
                 /\ \E p \in Pkgs : /\ repo[p].hold \in {"phased", "both"}
                                    /\ \E h \in {"deps", "none"} : repo' = [repo EXCEPT ![p].hold = h]
<1>1. CASE UNCHANGED hostVars
  BY <1>1 DEF hostVars
<1>2. CASE \E c \in Callers : RunList(c)
  BY <1>2 DEF RunList
<1>3. CASE \E b \in Runners : BeginTransaction(b)
  BY <1>3 DEF BeginTransaction
<1>4. ASSUME NEW p \in Pkgs, Install(p) PROVE index' = index /\ repo' = repo
  BY <1>4 DEF Install
<1>5. ASSUME NEW p \in Pkgs, Publish(p)
      PROVE  index' = index /\ \E h \in host.holds : repo' = [repo EXCEPT ![p] = [ver |-> @.ver + 1, hold |-> h]]
  BY <1>5 DEF Publish
<1>6. ASSUME NEW p \in Pkgs, RolledOut(p)
      PROVE  index' = index /\ repo[p].hold \in {"phased", "both"}
             /\ \E h \in {"deps", "none"} : repo' = [repo EXCEPT ![p].hold = h]
  BY <1>6 DEF RolledOut
<1>7. CASE \E ok \in BOOLEAN : EndTransaction(ok)
  BY <1>7 DEF EndTransaction
<1>8. CASE AutoReboot \/ RebootByHand
  BY <1>8 DEF AutoReboot, RebootByHand, Boot
<1>9. CASE NodeFetches
  BY <1>9 DEF NodeFetches
<1> QED BY <1>1, <1>2, <1>3, <1>4, <1>5, <1>6, <1>7, <1>8, <1>9, HostMoves

\* The mirror stays ahead of the index.
LEMMA AheadStep ==
    ASSUME CycleTypeOK, Ahead, [CycleNext]_cycleVars
    PROVE  Ahead'
<1>0. host' = host
  BY HostMoves
<1>h. host.holds \subseteq Holds /\ (host.pm # "apt" => host.holds \subseteq {"none"})
  BY HostType DEF CycleTypeOK
<1>t. repo \in [Pkgs -> Entry] /\ \A p \in Pkgs : repo[p].ver \in Nat /\ index[p].ver \in Nat
  BY CycleTypes, Numbers
<1>1. CASE repo' = repo /\ (index' = index \/ index' = repo)
  BY <1>0, <1>1, <1>t DEF Ahead
<1>2. ASSUME NEW p \in Pkgs, NEW h \in host.holds, index' = index,
             repo' = [repo EXCEPT ![p] = [ver |-> @.ver + 1, hold |-> h]]
      PROVE  Ahead'
  <2> SUFFICES ASSUME NEW q \in Pkgs
               PROVE  /\ index[q].ver <= repo'[q].ver
                      /\ index[q].ver = repo'[q].ver /\ index[q].hold = "none" => repo'[q].hold = "none"
                      /\ host.pm # "apt" => repo'[q].hold = "none" /\ index[q].hold = "none"
    BY <1>0, <1>2 DEF Ahead
  <2>1. CASE q = p
    <3>1. repo'[q] = [ver |-> repo[q].ver + 1, hold |-> h]
      BY <1>2, <1>t, <2>1
    <3>2. repo'[q].ver = repo[q].ver + 1 /\ repo'[q].hold = h
      BY <3>1
    <3> QED BY <1>2, <1>h, <1>t, <3>2 DEF Ahead
  <2>2. CASE q # p
    BY <1>2, <1>t, <2>2 DEF Ahead
  <2> QED BY <2>1, <2>2
<1>3. ASSUME NEW p \in Pkgs, NEW h \in {"deps", "none"}, index' = index, repo[p].hold \in {"phased", "both"},
             repo' = [repo EXCEPT ![p].hold = h]
      PROVE  Ahead'
  <2> SUFFICES ASSUME NEW q \in Pkgs
               PROVE  /\ index[q].ver <= repo'[q].ver
                      /\ index[q].ver = repo'[q].ver /\ index[q].hold = "none" => repo'[q].hold = "none"
                      /\ host.pm # "apt" => repo'[q].hold = "none" /\ index[q].hold = "none"
    BY <1>0, <1>3 DEF Ahead
  <2>1. CASE q = p
    <3>1. repo'[q].ver = repo[q].ver /\ repo'[q].hold = h
      BY <1>3, <1>t, <2>1 DEF Entry
    <3> QED BY <1>3, <2>1, <1>t, <3>1 DEF Ahead
  <2>2. CASE q # p
    BY <1>3, <1>t, <2>2 DEF Ahead
  <2> QED BY <2>1, <2>2
<1> QED BY <1>1, <1>2, <1>3, IndexMoves

\* What is there for an upgrade to install stays there, or is overtaken.
LEMMA WithinKept ==
    ASSUME CycleTypeOK, Ahead, [CycleNext]_cycleVars, NEW p \in Pkgs
    PROVE  /\ index'[p].ver \in Nat /\ index[p].ver <= index'[p].ver
           /\ \A g \in Nat : Within(g, p) => Within(g, p)'
BY Numbers, IndexMoves DEF Ahead, Within

\* The steps of checks.
LEMMA ProbeMoves ==
    ASSUME [CycleNext]_cycleVars
    PROVE  \/ probe' = probe
           \/ \E c \in Callers : BeginProbe(c)
           \/ \E c \in Callers : RunList(c)
           \/ \E c \in Callers : probe' = [probe EXCEPT ![c] = NoProbe]
           \/ probe' = [c \in Callers |-> NoProbe]
           \/ Pass
<1>c. "job" \in Callers /\ "user" \in Callers /\ "auto" \in Callers
  BY DEF Callers
<1>1. CASE StartUp \/ TwinRefreshed \/ NodeFetches \/ AutoReboot \/ RebootByHand
  BY <1>1 DEF StartUp, TwinRefreshed, NodeFetches, AutoReboot, RebootByHand, Boot, appVars
<1>2. ASSUME NEW h \in Intervals, Save(h) PROVE probe' = probe
  BY <1>2 DEF Save, appVars
<1>3. CASE ShutDown
  BY <1>3 DEF ShutDown
<1>4. CASE FireProbe \/ AskProbe \/ AskReboot
  BY <1>c, <1>4 DEF FireProbe, AskProbe, AskReboot
<1>5. CASE FinishProbe \/ AnswerProbe \/ AskRebootAnswered
  BY <1>c, <1>5 DEF FinishProbe, AnswerProbe, AskRebootAnswered, EndProbe
<1>6. CASE FinishWithout \/ AskFails \/ AskRebootFails
  BY <1>c, <1>6 DEF FinishWithout, AskFails, AskRebootFails, DropProbe
<1>7. ASSUME NEW b \in Runners, StartUpgrade(b) \/ BeginTransaction(b) \/ UpgradeTimesOut(b) \/ EndRun(b)
      PROVE  probe' = probe
  BY <1>7 DEF StartUpgrade, BeginTransaction, UpgradeTimesOut, EndRun
<1>8. ASSUME NEW p \in Pkgs, Install(p) \/ Publish(p) \/ RolledOut(p) PROVE probe' = probe
  BY <1>8 DEF Install, Publish, RolledOut, appVars
<1>9. ASSUME NEW ok \in BOOLEAN, EndTransaction(ok) PROVE probe' = probe
  BY <1>9 DEF EndTransaction
<1>10. CASE UNCHANGED cycleVars
  BY <1>10 DEF cycleVars, appVars
<1> QED BY <1>1, <1>2, <1>3, <1>4, <1>5, <1>6, <1>7, <1>8, <1>9, <1>10 DEF CycleNext

\* A check lists what the index holds, and keeps it.
LEMMA ListedMoves ==
    ASSUME CycleTypeOK, [CycleNext]_cycleVars, NEW c \in Callers, NEW p \in Pkgs
    PROVE  \/ probe'[c].listed[p] \in {probe[c].listed[p], 0}
           \/ DetectedPm # "unknown" /\ probe'[c].listed[p] = index'[p].ver
<1>t. probe \in [Callers -> Probe]
  BY CycleTypes
<1>n. NoProbe.listed[p] = 0
  BY DEF NoProbe, Nothing
<1>1. CASE probe' = probe \/ probe' = [d \in Callers |-> NoProbe]
  BY <1>1, <1>n
<1>2. ASSUME NEW d \in Callers, BeginProbe(d) PROVE probe'[c].listed = probe[c].listed
  BY <1>2, <1>t DEF BeginProbe, Probe
<1>3. ASSUME NEW d \in Callers, probe' = [probe EXCEPT ![d] = NoProbe]
      PROVE  probe'[c].listed[p] \in {probe[c].listed[p], 0}
  BY <1>3, <1>t, <1>n
<1>4. ASSUME NEW d \in Callers, RunList(d)
      PROVE  \/ probe'[c].listed[p] \in {probe[c].listed[p], 0}
             \/ DetectedPm # "unknown" /\ probe'[c].listed[p] = index'[p].ver
  <2> DEFINE found == [q \in Pkgs |-> IF DetectedPm # "unknown" /\ q \in Upgradable(index') THEN index'[q].ver ELSE 0]
  <2>1. probe' = [probe EXCEPT ![d].at = "listed", ![d].listed = found]
    BY <1>4 DEF RunList
  <2>2. found[p] = 0 \/ (DetectedPm # "unknown" /\ found[p] = index'[p].ver)
    OBVIOUS
  <2> HIDE DEF found
  <2>3. CASE c = d
    BY <1>t, <2>1, <2>2, <2>3 DEF Probe
  <2>4. CASE c # d
    BY <1>t, <2>1, <2>4
  <2> QED BY <2>3, <2>4
<1>5. CASE Pass
  <2>1. probe'[c] = NoProbe \/ probe'[c] = [probe[c] EXCEPT !.took = @ + 1]
    BY <1>5 DEF Pass
  <2>2. probe[c] \in Probe
    BY <1>t
  <2> QED BY <1>n, <2>1, <2>2 DEF Probe
<1> QED BY <1>1, <1>2, <1>3, <1>4, <1>5, ProbeMoves

\* What was reported stays, or is what a check has found just now.
LEMMA ReportMoves ==
    ASSUME [CycleNext]_cycleVars
    PROVE  \/ report' = report
           \/ \E c \in Callers : report' = Result(c) /\ UNCHANGED hostVars /\ EndProbe(c)
<1>c. "job" \in Callers /\ "user" \in Callers /\ "auto" \in Callers
  BY DEF Callers
<1>1. CASE StartUp \/ ShutDown \/ Pass \/ FireProbe \/ FinishWithout
  BY <1>1 DEF StartUp, ShutDown, Pass, FireProbe, FinishWithout, appVars
<1>2. CASE FinishProbe \/ AnswerProbe
  BY <1>2, <1>c DEF FinishProbe, AnswerProbe
<1>3. ASSUME NEW h \in Intervals, Save(h) PROVE report' = report
  BY <1>3 DEF Save, appVars
<1>4. CASE AskProbe \/ AskFails \/ AskReboot \/ AskRebootAnswered \/ AskRebootFails \/ NodeFetches \/ TwinRefreshed
  BY <1>4 DEF AskProbe, AskFails, AskReboot, AskRebootAnswered, AskRebootFails, NodeFetches, TwinRefreshed, appVars
<1>5. CASE AutoReboot \/ RebootByHand
  BY <1>5 DEF AutoReboot, RebootByHand, Boot
<1>6. ASSUME NEW c \in Callers, RunList(c) PROVE report' = report
  BY <1>6 DEF RunList
<1>7. ASSUME NEW b \in Runners, StartUpgrade(b) \/ BeginTransaction(b) \/ UpgradeTimesOut(b) \/ EndRun(b)
      PROVE  report' = report
  BY <1>7 DEF StartUpgrade, BeginTransaction, UpgradeTimesOut, EndRun
<1>8. ASSUME NEW p \in Pkgs, Install(p) \/ Publish(p) \/ RolledOut(p) PROVE report' = report
  BY <1>8 DEF Install, Publish, RolledOut, appVars
<1>9. ASSUME NEW ok \in BOOLEAN, EndTransaction(ok) PROVE report' = report
  BY <1>9 DEF EndTransaction
<1>10. CASE UNCHANGED cycleVars
  BY <1>10 DEF cycleVars, appVars
<1> QED BY <1>1, <1>2, <1>3, <1>4, <1>5, <1>6, <1>7, <1>8, <1>9, <1>10 DEF CycleNext

\* The steps of upgrades, as the one who runs them sees them.
LEMMA RunMoves ==
    ASSUME [CycleNext]_cycleVars
    PROVE  \/ run' = run
           \/ run' = [b \in Runners |-> NoRun] /\ UNCHANGED hostVars
           \/ \E b \in Runners : StartUpgrade(b) \/ BeginTransaction(b) \/ UpgradeTimesOut(b) \/ EndRun(b)
           \/ \E ok \in BOOLEAN : EndTransaction(ok)
           \/ AskReboot \/ AskRebootAnswered \/ AskRebootFails \/ AutoReboot \/ RebootByHand
<1>1. CASE StartUp \/ Pass \/ FireProbe \/ FinishProbe \/ FinishWithout \/ AnswerProbe
  BY <1>1 DEF StartUp, Pass, FireProbe, FinishProbe, FinishWithout, AnswerProbe, appVars
<1>2. CASE ShutDown
  BY <1>2 DEF ShutDown
<1>3. ASSUME NEW h \in Intervals, Save(h) PROVE run' = run
  BY <1>3 DEF Save, appVars
<1>4. CASE AskProbe \/ AskFails \/ NodeFetches \/ TwinRefreshed
  BY <1>4 DEF AskProbe, AskFails, NodeFetches, TwinRefreshed, appVars
<1>5. ASSUME NEW c \in Callers, RunList(c) PROVE run' = run
  BY <1>5 DEF RunList
<1>6. ASSUME NEW p \in Pkgs, Install(p) \/ Publish(p) \/ RolledOut(p) PROVE run' = run
  BY <1>6 DEF Install, Publish, RolledOut, appVars
<1>7. CASE UNCHANGED cycleVars
  BY <1>7 DEF cycleVars, appVars
<1> QED BY <1>1, <1>2, <1>3, <1>4, <1>5, <1>6, <1>7 DEF CycleNext

\* What a run is to install is set from what is offered, or given up.
LEMMA GoalMoves ==
    ASSUME CycleTypeOK, [CycleNext]_cycleVars, NEW b \in Runners, NEW p \in Pkgs
    PROVE  run'[b].goal[p] \in {run[b].goal[p], 0, Offered[p]}
<1>t. run \in [Runners -> Run] /\ txn.by \in Runners /\ "auto" \in Runners
  BY CycleTypes DEF Txn, Runners
<1>n. NoRun.goal[p] = 0
  BY DEF NoRun, Nothing
<1>1. CASE run' = run \/ run' = [d \in Runners |-> NoRun]
  BY <1>1, <1>n
<1>2. ASSUME NEW d \in Runners, StartUpgrade(d) PROVE run'[b].goal[p] \in {run[b].goal[p], Offered[p]}
  <2>1. run' = [run EXCEPT ![d] = [phase |-> "started", goal |-> Offered]]
    BY <1>2 DEF StartUpgrade
  <2> HIDE DEF Offered
  <2> QED BY <1>t, <2>1
<1>3. ASSUME NEW d \in Runners, EndRun(d) PROVE run'[b].goal[p] \in {run[b].goal[p], 0}
  BY <1>3, <1>t, <1>n DEF EndRun
<1>4. ASSUME NEW d \in Runners, NEW r \in [Runners -> Run], NEW ph, run' = [r EXCEPT ![d].phase = ph]
      PROVE  run'[b].goal[p] = r[b].goal[p]
  BY <1>4 DEF Run
<1>5. ASSUME NEW d \in Runners, BeginTransaction(d) \/ UpgradeTimesOut(d) PROVE run'[b].goal[p] = run[b].goal[p]
  BY <1>t, <1>4, <1>5 DEF BeginTransaction, UpgradeTimesOut, SetPhase
<1>6. ASSUME NEW ok \in BOOLEAN, EndTransaction(ok) PROVE run'[b].goal[p] = run[b].goal[p]
  BY <1>t, <1>4, <1>6 DEF EndTransaction, SetPhase
<1>7. CASE AskReboot \/ AskRebootAnswered \/ AskRebootFails
  BY <1>t, <1>4, <1>7 DEF AskReboot, AskRebootAnswered, AskRebootFails, SetPhase
<1>8. ASSUME NEW r \in [Runners -> Run], Boot(r) PROVE run'[b].goal[p] = r[b].goal[p]
  BY <1>t, <1>4, <1>8 DEF Boot
<1>9. CASE RebootByHand
  BY <1>t, <1>8, <1>9 DEF RebootByHand
<1>10. CASE AutoReboot
  <2> DEFINE r == [run EXCEPT !["auto"].phase = "finished"]
  <2>1. r \in [Runners -> Run] /\ r[b].goal[p] = run[b].goal[p]
    BY <1>t DEF Run, Phases
  <2> QED BY <1>8, <1>10, <2>1 DEF AutoReboot
<1> QED BY <1>1, <1>2, <1>3, <1>5, <1>6, <1>7, <1>9, <1>10, RunMoves

\* What is listed stays in the index, and what was said to apply would apply.
LEMMA ListingsStep ==
    ASSUME CycleTypeOK, Ahead, Listings, [CycleNext]_cycleVars
    PROVE  Listings'
<1>0. host' = host
  BY HostMoves
<1>1. ASSUME NEW c \in Callers, NEW p \in Pkgs PROVE probe'[c].listed[p] <= index'[p].ver
  <2>1. /\ index'[p].ver \in Nat /\ index[p].ver <= index'[p].ver /\ index[p].ver \in Nat
        /\ probe[c].listed[p] \in Nat /\ probe[c].listed[p] <= index[p].ver
    BY WithinKept, Numbers DEF Listings
  <2> QED BY <2>1, ListedMoves
<1>2. ASSUME host.way # "node", NEW p \in Pkgs, report'.status[p] = "apply"
      PROVE  Within(report.listed[p], p)'
  <2>1. CASE report' = report
    <3>1. report.listed[p] \in Nat /\ Within(report.listed[p], p)
      BY <1>2, <2>1, Numbers DEF Listings
    <3>2. Within(report.listed[p], p) => (index'[p].ver > report.listed[p] \/ report.listed[p] = 0
             \/ (index'[p].ver = report.listed[p] /\ index'[p].hold = "none"))
      BY <3>1, WithinKept DEF Within
    <3> QED BY <2>1, <3>1, <3>2 DEF Within
  <2>2. ASSUME NEW c \in Callers, report' = Result(c), UNCHANGED hostVars
        PROVE  Within(report.listed[p], p)'
    <3>1. /\ probe[c].listed[p] \in Nat /\ index[p].ver \in Nat /\ probe[c].listed[p] <= index[p].ver
      BY Numbers DEF Listings
    <3>2. StatusOf(probe[c].listed)[p] = "apply" /\ report'.listed = probe[c].listed
      BY <1>2, <2>2 DEF Result
    <3>3. probe[c].listed[p] = 0 \/ index[p].hold = "none"
      BY <1>2, <3>2 DEF StatusOf, HeldBack, Applicable, Upgradable, Ahead
    <3> QED BY <2>2, <3>1, <3>2, <3>3 DEF Within, hostVars
  <2> QED BY <2>1, <2>2, ReportMoves
<1>3. ASSUME host.way # "node", NEW b \in Runners, NEW p \in Pkgs PROVE Within(run[b].goal[p], p)'
  <2>1. ASSUME NEW g \in Nat, Within(g, p), run'[b].goal[p] = g PROVE Within(run[b].goal[p], p)'
    <3>1. index'[p].ver > g \/ g = 0 \/ (index'[p].ver = g /\ index'[p].hold = "none")
      BY <2>1, WithinKept DEF Within
    <3> QED BY <2>1, <3>1 DEF Within
  <2>2. run[b].goal[p] \in Nat /\ Within(run[b].goal[p], p) /\ Within(0, p)
    BY <1>3, Numbers DEF Listings, Within
  <2>3. Offered[p] \in Nat /\ Within(Offered[p], p)
    BY <1>3, Numbers DEF Listings, Within, Offered
  <2> QED BY <2>1, <2>2, <2>3, GoalMoves
<1>4. (host.way # "node" => \A p \in Pkgs : report.status[p] = "apply" => Within(report.listed[p], p))'
  BY <1>0, <1>2 DEF Within
<1>5. (host.way # "node" => \A b \in Runners, p \in Pkgs : Within(run[b].goal[p], p))'
  BY <1>0, <1>3 DEF Within
<1> QED BY <1>1, <1>4, <1>5 DEF Listings

\* Without a package manager nothing comes to be listed, promised or begun.
LEMMA BlindStep ==
    ASSUME CycleTypeOK, Blind, [CycleNext]_cycleVars
    PROVE  Blind'
<1>0. host' = host
  BY HostMoves
<1> SUFFICES ASSUME DetectedPm = "unknown"
             PROVE  /\ ~txn'.open
                    /\ \A p \in Pkgs : /\ report'.listed[p] = 0
                                       /\ \A c \in Callers : probe'[c].listed[p] = 0
                                       /\ \A b \in Runners : run'[b].goal[p] = 0
  BY <1>0 DEF Blind, DetectedPm
<1>n. ~txn.open /\ ~NoTxn.open
  BY DEF Blind, NoTxn
<1>1. ~txn'.open
  <2>1. ASSUME NEW b \in Runners, BeginTransaction(b) PROVE txn' = txn
    BY <2>1 DEF BeginTransaction
  <2>2. ASSUME NEW p \in Pkgs, Install(p) \/ Publish(p) \/ RolledOut(p) PROVE txn' = txn
    BY <2>2, <1>n DEF Install, Publish, RolledOut
  <2>3. CASE \E c \in Callers : RunList(c)
    BY <2>3, <1>n DEF RunList
  <2>4. ASSUME NEW ok \in BOOLEAN, EndTransaction(ok) PROVE txn' = NoTxn
    BY <2>4 DEF EndTransaction
  <2>5. CASE AutoReboot \/ RebootByHand \/ NodeFetches
    BY <2>5, <1>n DEF AutoReboot, RebootByHand, Boot, NodeFetches
  <2> QED BY <1>n, <2>1, <2>2, <2>3, <2>4, <2>5, HostMoves DEF hostVars
<1>2. ASSUME NEW p \in Pkgs PROVE report'.listed[p] = 0
  BY ReportMoves DEF Result, Blind
<1>3. ASSUME NEW p \in Pkgs, NEW c \in Callers PROVE probe'[c].listed[p] = 0
  BY ListedMoves DEF Blind
<1>4. ASSUME NEW p \in Pkgs, NEW b \in Runners PROVE run'[b].goal[p] = 0
  <2>1. Offered[p] = 0
    BY DEF Offered, Blind
  <2> QED BY <2>1, GoalMoves DEF Blind
<1> QED BY <1>1, <1>2, <1>3, <1>4

\* Only a transaction that begins makes an upgrade one that runs, and only one that
\* ends, or has no package manager to run it, makes it one that is done.
LEMMA PhaseMoves ==
    ASSUME CycleTypeOK, Transactions, [CycleNext]_cycleVars, NEW b \in Runners,
           ~\E d \in Runners : BeginTransaction(d), ~\E ok \in BOOLEAN : EndTransaction(ok)
    PROVE  /\ run'[b].phase = "running" =>
                  /\ run[b].phase = "running" /\ run'[b].goal = run[b].goal
                  /\ ~AutoReboot /\ ~RebootByHand
           /\ run'[b].phase \in Late => run[b].phase \in Late /\ run'[b].goal = run[b].goal
<1>t. run \in [Runners -> Run] /\ "auto" \in Runners /\ txn.by \in Runners
  BY CycleTypes DEF Txn, Runners
<1>0. ASSUME AutoReboot \/ RebootByHand, run'[b].phase \in Late \cup {"running"}
      PROVE  run'[b].phase \in Late /\ run[b].phase \in Late /\ run'[b].goal = run[b].goal
  <2> DEFINE s == [run EXCEPT !["auto"].phase = "finished"]
  <2>1. PICK r \in {run, s} : Boot(r) /\ (r = run \/ (r = s /\ run["auto"].phase = "rebooting"))
    BY <1>0 DEF AutoReboot, RebootByHand
  <2>2. s \in [Runners -> Run] /\ s["auto"].phase = "finished"
        /\ (b # "auto" => s[b] = run[b]) /\ s[b].goal = run[b].goal
    BY <1>t DEF Run, Phases
  <2>3. r \in [Runners -> Run] /\ r[b].goal = run[b].goal
        /\ (r[b] = run[b] \/ (run[b].phase = "rebooting" /\ r[b].phase = "finished"))
    BY <1>t, <2>1, <2>2
  <2> HIDE DEF s
  <2>4. CASE txn.open /\ r[txn.by].phase = "running"
    <3>1. run' = [r EXCEPT ![txn.by].phase = "failed"]
      BY <2>1, <2>4 DEF Boot
    <3>2. CASE b = txn.by
      <4>1. run'[b].phase = "failed"
        BY <3>1, <3>2, <2>3 DEF Run
      <4> QED BY <1>0, <4>1 DEF Late
    <3>3. CASE b # txn.by
      <4>1. run'[b] = r[b]
        BY <3>1, <3>3, <2>3
      <4>2. run[b].phase # "running"
        BY <3>3 DEF Transactions
      <4> QED BY <1>0, <2>3, <4>1, <4>2 DEF Late
    <3> QED BY <3>2, <3>3
  <2>5. CASE ~(txn.open /\ r[txn.by].phase = "running")
    <3>1. run' = r
      BY <2>1, <2>5 DEF Boot
    <3>2. r[b].phase # "running"
      BY <2>3, <2>5 DEF Transactions
    <3> QED BY <1>0, <2>3, <3>1, <3>2 DEF Late
  <2> QED BY <2>4, <2>5
<1>1. CASE run' = run /\ ~AutoReboot /\ ~RebootByHand
  BY <1>1
<1>2. CASE run' = [d \in Runners |-> NoRun]
  BY <1>2 DEF NoRun, Late
<1>3. ASSUME NEW d \in Runners, StartUpgrade(d)
      PROVE  run'[b].phase \in Late \cup {"running"} => run'[b] = run[b]
  <2>1. run' = [run EXCEPT ![d] = [phase |-> "started", goal |-> Offered]]
    BY <1>3 DEF StartUpgrade
  <2> HIDE DEF Offered
  <2>2. [phase |-> "started", goal |-> Offered].phase \notin Late \cup {"running"}
    BY DEF Late
  <2> QED BY <1>t, <2>1, <2>2
<1>4. ASSUME NEW d \in Runners, EndRun(d) PROVE run'[b].phase \in Late \cup {"running"} => run'[b] = run[b]
  BY <1>4, <1>t DEF EndRun, Late, NoRun
<1>5. ASSUME NEW d \in Runners, UpgradeTimesOut(d) PROVE run'[b].phase \in Late \cup {"running"} => run'[b] = run[b]
  BY <1>5, <1>t DEF UpgradeTimesOut, SetPhase, Late, Run
<1>6. CASE AskReboot \/ AskRebootAnswered \/ AskRebootFails
  <2>1. PICK ph \in {"finished", "asking", "rebooting", "failed"} : SetPhase("auto", ph)
    BY <1>6 DEF AskReboot, AskRebootAnswered, AskRebootFails
  <2>2. run["auto"].phase \in {"done", "asking"}
    BY <1>6 DEF AskReboot, AskRebootAnswered, AskRebootFails
  <2> QED BY <1>t, <1>0, <2>1, <2>2 DEF SetPhase, Run, Late
<1>7. ASSUME run'[b] = run[b] PROVE run[b].phase = "running" => ~AutoReboot /\ ~RebootByHand
  BY <1>0, <1>7 DEF Late
<1> QED BY <1>0, <1>1, <1>2, <1>3, <1>4, <1>5, <1>6, <1>7, RunMoves DEF Late

\* The upgrade that is waited for stays the open transaction, and goes forward.
LEMMA TransactionsStep ==
    ASSUME CycleTypeOK, Transactions, [CycleNext]_cycleVars
    PROVE  Transactions'
<1>t. run \in [Runners -> Run] /\ txn \in Txn /\ inst \in [Pkgs -> Versions]
      /\ \A p \in Pkgs : inst[p] \in Nat /\ txn.todo[p] \in Nat
  BY CycleTypes, Numbers
<1>n. ~NoTxn.open
  BY DEF NoTxn
<1>1. ASSUME NEW d \in Runners, BeginTransaction(d) PROVE Transactions'
  <2>1. PICK ph \in {"failed", "done", "running"} :
           /\ run' = [run EXCEPT ![d].phase = ph]
           /\ \/ ph # "running" /\ txn' = txn
              \/ ph = "running" /\ ~txn.open /\ txn' = [open |-> TRUE, todo |-> Installs(index'), by |-> d]
    BY <1>1 DEF BeginTransaction, SetPhase
  <2>2. inst' = inst /\ run[d].phase = "started"
    BY <1>1 DEF BeginTransaction
  <2>3. run'[d].phase = ph /\ \A b \in Runners \ {d} : run'[b] = run[b]
    BY <1>t, <2>1 DEF Run
  <2>4. CASE ph # "running" /\ txn' = txn
    BY <2>2, <2>3, <2>4 DEF Transactions
  <2>5. CASE ph = "running" /\ ~txn.open /\ txn' = [open |-> TRUE, todo |-> Installs(index'), by |-> d]
    <3> DEFINE todo == Installs(index')
    <3>1. \A p \in Pkgs : todo[p] # 0 => inst[p] < todo[p]
      BY DEF Installs, Upgradable
    <3>2. \A p \in Pkgs : todo[p] # 0 => inst[p] \in Nat /\ todo[p] \in Nat
      <4>1. index' \in [Pkgs -> Entry]
        BY <1>1, CycleTypes DEF BeginTransaction
      <4>2. \A p \in Pkgs : index'[p].ver \in Nat
        BY <4>1, PackagesAssumption DEF Entry, Versions
      <4> QED BY <1>t, <4>2 DEF Installs
    <3> HIDE DEF todo
    <3>3. txn'.open /\ txn'.by = d /\ txn'.todo = todo
      BY <2>5 DEF todo
    <3>4. \A b \in Runners : run'[b].phase = "running" => b = d
      BY <2>3, <2>5 DEF Transactions
    <3> QED BY <2>2, <3>1, <3>2, <3>3, <3>4 DEF Transactions
  <2> QED BY <2>1, <2>4, <2>5
<1>2. ASSUME NEW ok \in BOOLEAN, EndTransaction(ok) PROVE Transactions'
  <2>1. txn' = NoTxn /\ txn.by \in Runners
    BY <1>2, <1>t DEF EndTransaction, Txn
  <2>2. ASSUME NEW b \in Runners PROVE run'[b].phase # "running"
    <3>1. CASE run[txn.by].phase = "running"
      <4>1. run' = [run EXCEPT ![txn.by].phase = ReturnOf(ok)]
        BY <1>2, <3>1 DEF EndTransaction, SetPhase
      <4>2. CASE b = txn.by
        BY <1>t, <4>1, <4>2 DEF Run, ReturnOf
      <4>3. CASE b # txn.by
        BY <1>t, <2>1, <4>1, <4>3 DEF Transactions
      <4> QED BY <4>2, <4>3
    <3>2. CASE run[txn.by].phase # "running"
      <4>1. run' = run
        BY <1>2, <3>2 DEF EndTransaction
      <4> QED BY <3>2, <4>1 DEF Transactions
    <3> QED BY <3>1, <3>2
  <2> QED BY <1>n, <2>1, <2>2 DEF Transactions
<1>3. CASE ~(\E d \in Runners : BeginTransaction(d)) /\ ~(\E ok \in BOOLEAN : EndTransaction(ok))
  <2>1. ASSUME NEW b \in Runners, run'[b].phase = "running"
        PROVE  run[b].phase = "running" /\ ~AutoReboot /\ ~RebootByHand
    BY <1>3, <2>1, PhaseMoves
  <2>2. CASE txn' = txn /\ inst' = inst
    BY <2>1, <2>2 DEF Transactions
  <2>3. ASSUME NEW p \in Pkgs, Install(p) PROVE Transactions'
    <3>1. /\ txn' = [txn EXCEPT !.todo[p] = 0] /\ inst' = [inst EXCEPT ![p] = txn.todo[p]] /\ txn.open
      BY <2>3 DEF Install
    <3>2. txn'.open /\ txn'.by = txn.by /\ txn'.todo = [txn.todo EXCEPT ![p] = 0]
      BY <1>t, <3>1 DEF Txn
    <3>3. \A q \in Pkgs : txn'.todo[q] # 0 => inst'[q] = inst[q] /\ txn'.todo[q] = txn.todo[q]
      BY <1>t, <3>1, <3>2 DEF Txn
    <3> QED BY <1>t, <2>1, <3>1, <3>2, <3>3 DEF Transactions
  <2>4. CASE AutoReboot \/ RebootByHand
    <3>1. txn' = NoTxn
      BY <2>4 DEF AutoReboot, RebootByHand, Boot
    <3> QED BY <1>n, <2>1, <2>4, <3>1 DEF Transactions
  <2>5. ASSUME NEW p \in Pkgs, Publish(p) \/ RolledOut(p) PROVE txn' = txn /\ inst' = inst
    BY <2>5 DEF Publish, RolledOut
  <2>6. CASE (\E c \in Callers : RunList(c)) \/ NodeFetches
    <3>1. txn' = txn /\ inst' = inst
      BY <2>6 DEF RunList, NodeFetches
    <3> QED BY <2>2, <3>1
  <2> QED BY <1>3, <2>2, <2>3, <2>4, <2>5, <2>6, HostMoves DEF hostVars
<1> QED BY <1>1, <1>2, <1>3

\* What was promised to a run is installed or still to be.
LEMMA PromisedStep ==
    ASSUME CycleTypeOK, UpgradeInv, [CycleNext]_cycleVars
    PROVE  Promised'
<1> USE DEF UpgradeInv
<1>0. host' = host
  BY HostMoves
<1> SUFFICES ASSUME host.way # "node", NEW b \in Runners, NEW p \in Pkgs
             PROVE  /\ run'[b].phase = "running" =>
                           \/ inst'[p] >= run'[b].goal[p] \/ index'[p].ver > run'[b].goal[p]
                           \/ txn'.todo[p] >= run'[b].goal[p]
                    /\ run'[b].phase \in Late => inst'[p] >= run'[b].goal[p] \/ index'[p].ver > run'[b].goal[p]
  BY <1>0 DEF Promised
<1>t. run \in [Runners -> Run] /\ txn \in Txn /\ inst \in [Pkgs -> Versions]
  BY CycleTypes
<1>v. /\ inst[p] \in Nat /\ txn.todo[p] \in Nat /\ index[p].ver \in Nat /\ run[b].goal[p] \in Nat
      /\ index'[p].ver \in Nat /\ index[p].ver <= index'[p].ver
  BY Numbers, WithinKept
<1>w. Within(run[b].goal[p], p) =>
        run[b].goal[p] = 0 \/ index'[p].ver > run[b].goal[p]
        \/ (index'[p].ver = run[b].goal[p] /\ index'[p].hold = "none")
  BY <1>v, WithinKept DEF Within
<1>1. ASSUME NEW d \in Runners, BeginTransaction(d)
      PROVE  /\ run'[b].phase = "running" =>
                    \/ inst'[p] >= run'[b].goal[p] \/ index'[p].ver > run'[b].goal[p]
                    \/ txn'.todo[p] >= run'[b].goal[p]
             /\ run'[b].phase \in Late => inst'[p] >= run'[b].goal[p] \/ index'[p].ver > run'[b].goal[p]
  <2>0. inst' = inst
    BY <1>1 DEF BeginTransaction
  <2>1. PICK ph \in {"failed", "done", "running"} :
           /\ run' = [run EXCEPT ![d].phase = ph]
           /\ \/ ph = "failed" /\ txn' = txn
              \/ ph = "done" /\ txn' = txn /\ DetectedPm = "unknown"
              \/ ph = "running" /\ ~txn.open /\ txn' = [open |-> TRUE, todo |-> Installs(index'), by |-> d]
    BY <1>1 DEF BeginTransaction, SetPhase
  <2>2. run'[b].goal = run[b].goal /\ (b # d => run'[b] = run[b]) /\ (b = d => run'[b].phase = ph)
    BY <1>t, <2>1 DEF Run
  <2>3. CASE b # d
    <3>1. run[b].phase = "running" => txn' = txn
      BY <2>1 DEF Transactions
    <3> QED BY <1>v, <2>0, <2>2, <2>3, <3>1 DEF Promised
  <2>4. CASE b = d /\ ph = "failed"
    BY <2>2, <2>4 DEF Late
  <2>5. CASE b = d /\ ph = "done" /\ DetectedPm = "unknown"
    <3>1. run[b].goal[p] = 0
      BY <2>5 DEF Blind
    <3> QED BY <1>v, <2>0, <2>2, <2>5, <3>1
  <2>6. CASE b = d /\ ph = "running" /\ txn' = [open |-> TRUE, todo |-> Installs(index'), by |-> d]
    <3>1. txn'.todo[p] = IF inst[p] < index'[p].ver /\ index'[p].hold = "none" THEN index'[p].ver ELSE 0
      BY <2>6 DEF Installs, Upgradable
    <3>2. Within(run[b].goal[p], p)
      BY DEF Listings
    <3> QED BY <1>v, <1>w, <2>0, <2>2, <2>6, <3>1, <3>2 DEF Late
  <2> QED BY <2>1, <2>3, <2>4, <2>5, <2>6
<1>2. ASSUME NEW ok \in BOOLEAN, EndTransaction(ok)
      PROVE  /\ run'[b].phase # "running"
             /\ run'[b].phase \in Late => inst'[p] >= run'[b].goal[p] \/ index'[p].ver > run'[b].goal[p]
  <2>0. inst' = inst /\ index' = index /\ txn.by \in Runners
    BY <1>2, <1>t DEF EndTransaction, Txn
  <2>1. CASE run[txn.by].phase = "running" /\ b = txn.by
    <3>1. run' = [run EXCEPT ![b].phase = ReturnOf(ok)]
      BY <1>2, <2>1 DEF EndTransaction, SetPhase
    <3>2. run'[b].phase = ReturnOf(ok) /\ run'[b].goal = run[b].goal
      BY <1>t, <3>1 DEF Run
    <3>3. CASE ok
      <4>1. txn.todo[p] = 0
        BY <1>2, <3>3 DEF EndTransaction, Nothing
      <4> QED BY <1>v, <2>0, <2>1, <3>2, <3>3, <4>1 DEF Promised, ReturnOf
    <3>4. CASE ~ok
      BY <3>2, <3>4 DEF ReturnOf, Late
    <3> QED BY <3>3, <3>4
  <2>2. CASE ~(run[txn.by].phase = "running" /\ b = txn.by)
    <3>1. run'[b] = run[b] /\ run[b].phase # "running"
      BY <1>2, <1>t, <2>0, <2>2 DEF EndTransaction, SetPhase, Transactions
    <3> QED BY <2>0, <3>1 DEF Promised
  <2> QED BY <2>1, <2>2
<1>3. CASE ~(\E d \in Runners : BeginTransaction(d)) /\ ~(\E ok \in BOOLEAN : EndTransaction(ok))
  <2>1. /\ run'[b].phase = "running" =>
                  /\ run[b].phase = "running" /\ run'[b].goal = run[b].goal
                  /\ ~AutoReboot /\ ~RebootByHand
        /\ run'[b].phase \in Late => run[b].phase \in Late /\ run'[b].goal = run[b].goal
    BY <1>3, PhaseMoves
  <2>2. CASE inst' = inst /\ (txn' = txn \/ AutoReboot \/ RebootByHand)
    BY <1>v, <2>1, <2>2 DEF Promised
  <2>3. ASSUME NEW q \in Pkgs, Install(q)
        PROVE  inst'[p] \in Nat /\ inst[p] <= inst'[p] /\ (txn'.todo[p] = txn.todo[p] \/ inst'[p] = txn.todo[p])
    <3>1. /\ txn' = [txn EXCEPT !.todo[q] = 0] /\ inst' = [inst EXCEPT ![q] = txn.todo[q]] /\ txn.open
          /\ txn.todo[q] # 0
      BY <2>3 DEF Install
    <3>2. CASE p = q
      <4>1. inst'[p] = txn.todo[p]
        BY <1>t, <3>1, <3>2
      <4> QED BY <1>v, <3>1, <3>2, <4>1 DEF Transactions
    <3>3. CASE p # q
      BY <1>t, <1>v, <3>1, <3>3 DEF Txn
    <3> QED BY <3>2, <3>3
  <2>4. CASE \E q \in Pkgs : Install(q)
    BY <1>v, <2>1, <2>3, <2>4 DEF Promised
  <2>5. ASSUME NEW q \in Pkgs, Publish(q) \/ RolledOut(q) PROVE txn' = txn /\ inst' = inst
    BY <2>5 DEF Publish, RolledOut
  <2>6. CASE (\E c \in Callers : RunList(c)) \/ NodeFetches \/ AutoReboot \/ RebootByHand
    <3>1. inst' = inst /\ (txn' = txn \/ AutoReboot \/ RebootByHand)
      BY <2>6 DEF RunList, NodeFetches, AutoReboot, RebootByHand, Boot
    <3> QED BY <2>2, <3>1
  <2> QED BY <1>3, <2>2, <2>4, <2>5, <2>6, HostMoves DEF hostVars
<1> QED BY <1>1, <1>2, <1>3

\* A host that is up to date keeps every promise.
LEMMA UpgradeInit == CycleInit => UpgradeInv
<1> SUFFICES ASSUME CycleInit PROVE UpgradeInv
  OBVIOUS
<1>1. /\ \A p \in Pkgs : repo[p].ver = 0 /\ index[p].ver = 0 /\ repo[p].hold = "none" /\ index[p].hold = "none"
      /\ \A p \in Pkgs : report.listed[p] = 0 /\ report.status[p] = "no" /\ inst[p] = 0
      /\ \A c \in Callers, p \in Pkgs : probe[c].listed[p] = 0
      /\ \A b \in Runners, p \in Pkgs : run[b].phase = "idle" /\ run[b].goal[p] = 0
      /\ ~txn.open
  BY DEF CycleInit, Nothing, NoProbe, NoRun, NoTxn
<1>2. \A b \in Runners : run[b].phase = "idle"
  BY DEF CycleInit, NoRun
<1> QED BY <1>1, <1>2 DEF UpgradeInv, Ahead, Listings, Blind, Transactions, Promised, Within, Late

\* The invariant of upgrades, part by part.
LEMMA UpgradeStep ==
    ASSUME CycleTypeOK, UpgradeInv, [CycleNext]_cycleVars
    PROVE  UpgradeInv'
BY AheadStep, ListingsStep, BlindStep, TransactionsStep, PromisedStep DEF UpgradeInv

\* For every host, package manager, number of packages and releases, and whatever
\* is held back, fails, times out, overlaps or is cut off by a reboot: an upgrade that
\* is reported as done has installed what was offered, or what came after it.
THEOREM DoneIsAppliedHolds == CycleSpec => []DoneIsApplied
<1>1. UpgradeInv => DoneIsApplied
  BY DEF UpgradeInv, Promised, DoneIsApplied, Late
<1> QED BY <1>1, UpgradeInit, UpgradeStep, CycleTypeCorrect, PTL DEF CycleSpec

\* Only StartUpgrade makes a runner busy that was not.
LEMMA BusyMoves ==
    ASSUME CycleTypeOK, [CycleNext]_cycleVars, ~\E d \in Runners : StartUpgrade(d),
           NEW b \in Runners, run[b] = NoRun
    PROVE  run'[b] = NoRun
<1>t. run \in [Runners -> Run] /\ "auto" \in Runners /\ txn.by \in Runners
  BY CycleTypes DEF Txn, Runners
<1>n. run[b].phase = "idle"
  BY DEF NoRun
<1>0. ASSUME NEW d \in Runners, NEW ph, run' = [run EXCEPT ![d].phase = ph], run[d].phase # "idle"
      PROVE  run'[b] = NoRun
  BY <1>0, <1>n, <1>t
<1>1. ASSUME NEW d \in Runners, BeginTransaction(d) \/ UpgradeTimesOut(d) PROVE run'[b] = NoRun
  BY <1>0, <1>1 DEF BeginTransaction, UpgradeTimesOut, SetPhase
<1>2. ASSUME NEW d \in Runners, EndRun(d) PROVE run'[b] = NoRun
  BY <1>t, <1>2 DEF EndRun
<1>3. ASSUME NEW ok \in BOOLEAN, EndTransaction(ok) PROVE run'[b] = NoRun
  BY <1>0, <1>3, <1>t DEF EndTransaction, SetPhase
<1>4. CASE AskReboot \/ AskRebootAnswered \/ AskRebootFails
  BY <1>0, <1>4, <1>t DEF AskReboot, AskRebootAnswered, AskRebootFails, SetPhase
<1>5. CASE AutoReboot
  <2> DEFINE s == [run EXCEPT !["auto"].phase = "finished"]
  <2>1. b # "auto" /\ s \in [Runners -> Run] /\ s[b] = NoRun /\ s[b].phase = "idle"
    BY <1>5, <1>n, <1>t DEF AutoReboot, Run, Phases
  <2>2. run' = s \/ (s[txn.by].phase = "running" /\ run' = [s EXCEPT ![txn.by].phase = "failed"])
    BY <1>5 DEF AutoReboot, Boot
  <2> HIDE DEF s
  <2> QED BY <1>t, <2>1, <2>2
<1>6. CASE RebootByHand
  BY <1>0, <1>6, <1>t DEF RebootByHand, Boot
<1>7. CASE run' = run \/ run' = [d \in Runners |-> NoRun]
  BY <1>7
<1> QED BY <1>1, <1>2, <1>3, <1>4, <1>5, <1>6, <1>7, RunMoves

\* Unless upgrades overlap, there stays one at a time.
LEMMA AloneStep ==
    ASSUME CycleTypeOK, UpgradeInv, Alone, [CycleNext]_cycleVars
    PROVE  Alone'
<1> USE DEF UpgradeInv
<1>0. host' = host
  BY HostMoves
<1>t. run \in [Runners -> Run] /\ txn \in Txn /\ Runners = {"manual", "auto"}
  BY CycleTypes DEF Runners
<1>n. ~NoTxn.open /\ NoRun.phase = "idle"
  BY DEF NoTxn, NoRun
<1>1. txn'.open => "no ssh" \notin host.may
  <2>1. ASSUME NEW b \in Runners, BeginTransaction(b) PROVE txn' = txn \/ "no ssh" \notin host.may
    BY <2>1 DEF BeginTransaction
  <2>2. ASSUME NEW p \in Pkgs, Install(p) \/ Publish(p) \/ RolledOut(p) PROVE txn' = txn \/ txn.open
    BY <2>2 DEF Install, Publish, RolledOut
  <2>3. CASE \E c \in Callers : RunList(c)
    BY <2>3 DEF RunList, Alone
  <2>4. CASE \E ok \in BOOLEAN : EndTransaction(ok)
    BY <1>n, <2>4 DEF EndTransaction
  <2>5. CASE AutoReboot \/ RebootByHand \/ NodeFetches
    BY <1>n, <2>5 DEF AutoReboot, RebootByHand, Boot, NodeFetches, Alone
  <2> QED BY <2>1, <2>2, <2>3, <2>4, <2>5, HostMoves DEF hostVars, Alone
<1>2. ASSUME "overlap" \notin host.may, NEW a \in Runners, NEW b \in Runners, run'[a] # NoRun, run'[b] # NoRun
      PROVE  a = b
  <2>1. ASSUME NEW d \in Runners, StartUpgrade(d) PROVE a = b
    <3>1. \A o \in Runners \ {d} : run'[o] = NoRun
      BY <1>2, <1>t, <2>1 DEF StartUpgrade
    <3> QED BY <1>2, <3>1
  <2>2. CASE ~\E d \in Runners : StartUpgrade(d)
    <3>1. run[a] # NoRun /\ run[b] # NoRun
      BY <1>2, <2>2, BusyMoves
    <3> QED BY <1>2, <3>1 DEF Alone
  <2> QED BY <2>1, <2>2
<1>3. ASSUME "overlap" \notin host.may, run'["auto"].phase \in Late
      PROVE  ~txn'.open /\ "no ssh" \notin host.may
  <2>1. ASSUME NEW d \in Runners, BeginTransaction(d) PROVE ~txn'.open /\ "no ssh" \notin host.may
    <3>0. run[d].phase = "started"
      BY <2>1 DEF BeginTransaction
    <3>1. CASE d = "auto"
      <4>1. PICK ph \in {"failed", "done", "running"} :
               /\ run' = [run EXCEPT !["auto"].phase = ph]
               /\ ph = "done" => DetectedPm = "unknown" /\ "no ssh" \notin host.may /\ txn' = txn
        BY <2>1, <3>1 DEF BeginTransaction, SetPhase
      <4>2. ph = "done"
        BY <1>3, <1>t, <4>1 DEF Run, Late
      <4> QED BY <4>1, <4>2 DEF Blind
    <3>2. CASE d # "auto"
      <4>1. run'["auto"] = run["auto"]
        BY <1>t, <2>1, <3>2 DEF BeginTransaction, SetPhase
      <4>2. run["auto"] # NoRun /\ run[d] # NoRun
        BY <1>3, <1>n, <3>0, <4>1 DEF Late
      <4> QED BY <1>3, <1>t, <3>2, <4>2 DEF Alone
    <3> QED BY <3>1, <3>2
  <2>2. ASSUME NEW ok \in BOOLEAN, EndTransaction(ok) PROVE ~txn'.open /\ "no ssh" \notin host.may
    BY <1>n, <2>2 DEF EndTransaction, Alone
  <2>3. CASE ~(\E d \in Runners : BeginTransaction(d)) /\ ~(\E ok \in BOOLEAN : EndTransaction(ok))
    <3>1. run["auto"].phase \in Late
      BY <1>3, <1>t, <2>3, PhaseMoves
    <3>2. ~txn.open /\ "no ssh" \notin host.may
      BY <1>3, <3>1 DEF Alone
    <3>3. ASSUME NEW p \in Pkgs, Install(p) \/ Publish(p) \/ RolledOut(p) PROVE txn' = txn
      BY <3>2, <3>3 DEF Install, Publish, RolledOut
    <3>4. CASE (\E c \in Callers : RunList(c)) \/ NodeFetches \/ AutoReboot \/ RebootByHand
      BY <1>n, <3>2, <3>4 DEF RunList, NodeFetches, AutoReboot, RebootByHand, Boot
    <3> QED BY <2>3, <3>2, <3>3, <3>4, HostMoves DEF hostVars
  <2> QED BY <2>1, <2>2, <2>3
<1> QED BY <1>0, <1>1, <1>2, <1>3 DEF Alone

\* A scheduled upgrade comes to its end with the answer to whether a reboot is
\* needed, or with the reboot.
LEMMA FinishedMoves ==
    ASSUME CycleTypeOK, [CycleNext]_cycleVars, run'["auto"].phase = "finished"
    PROVE  \/ run["auto"].phase = "finished"
           \/ AskReboot \/ AskRebootAnswered \/ AutoReboot
<1>t. run \in [Runners -> Run] /\ "auto" \in Runners /\ txn.by \in Runners
  BY CycleTypes DEF Txn, Runners
<1>0. ASSUME NEW d \in Runners, NEW ph, run' = [run EXCEPT ![d].phase = ph], ph # "finished"
      PROVE  run["auto"].phase = "finished"
  BY <1>0, <1>t DEF Run
<1>1. ASSUME NEW d \in Runners, BeginTransaction(d) \/ UpgradeTimesOut(d) PROVE run["auto"].phase = "finished"
  BY <1>0, <1>1 DEF BeginTransaction, UpgradeTimesOut, SetPhase
<1>2. ASSUME NEW d \in Runners, EndRun(d) PROVE run["auto"].phase = "finished"
  BY <1>t, <1>2 DEF EndRun, NoRun
<1>3. ASSUME NEW d \in Runners, StartUpgrade(d) PROVE run["auto"].phase = "finished"
  <2>1. run' = [run EXCEPT ![d] = [phase |-> "started", goal |-> Offered]]
    BY <1>3 DEF StartUpgrade
  <2> HIDE DEF Offered
  <2>2. [phase |-> "started", goal |-> Offered].phase # "finished"
    OBVIOUS
  <2> QED BY <1>t, <2>1, <2>2
<1>4. ASSUME NEW ok \in BOOLEAN, EndTransaction(ok) PROVE run["auto"].phase = "finished"
  BY <1>0, <1>4, <1>t DEF EndTransaction, SetPhase, ReturnOf
<1>5. CASE AskRebootFails
  BY <1>0, <1>5, <1>t DEF AskRebootFails, SetPhase
<1>6. CASE RebootByHand
  BY <1>0, <1>6, <1>t DEF RebootByHand, Boot
<1>7. CASE run' = run \/ run' = [d \in Runners |-> NoRun]
  BY <1>7, <1>t DEF NoRun
<1> QED BY <1>1, <1>2, <1>3, <1>4, <1>5, <1>6, <1>7, RunMoves

\* What is installed only changes in a transaction, and only forward; what is booted
\* changes when the host reboots.
LEMMA InstMoves ==
    ASSUME CycleTypeOK, Transactions, [CycleNext]_cycleVars
    PROVE  /\ \A q \in Pkgs : inst'[q] \in Nat /\ inst[q] <= inst'[q]
           /\ inst' = inst \/ txn.open
           /\ running' = running \/ ((AutoReboot \/ RebootByHand) /\ running' = NextBoot /\ inst' = inst)
<1>t. inst \in [Pkgs -> Versions] /\ \A p \in Pkgs : inst[p] \in Nat /\ txn.todo[p] \in Nat
  BY CycleTypes, Numbers
<1>1. CASE inst' = inst /\ running' = running
  BY <1>1, <1>t
<1>2. ASSUME NEW p \in Pkgs, Install(p)
      PROVE  (\A q \in Pkgs : inst'[q] \in Nat /\ inst[q] <= inst'[q]) /\ txn.open /\ running' = running
  BY <1>2, <1>t DEF Install, Transactions
<1>3. CASE AutoReboot \/ RebootByHand
  BY <1>3, <1>t DEF AutoReboot, RebootByHand, Boot
<1>4. ASSUME NEW p \in Pkgs, Publish(p) \/ RolledOut(p) PROVE inst' = inst /\ running' = running
  BY <1>4 DEF Publish, RolledOut
<1>5. CASE (\E c \in Callers : RunList(c)) \/ NodeFetches
  BY <1>1, <1>5 DEF RunList, NodeFetches
<1>6. CASE \E b \in Runners : BeginTransaction(b)
  BY <1>1, <1>6 DEF BeginTransaction
<1>7. CASE \E ok \in BOOLEAN : EndTransaction(ok)
  BY <1>1, <1>7 DEF EndTransaction
<1> QED BY <1>1, <1>2, <1>3, <1>4, <1>5, <1>6, <1>7, HostMoves DEF hostVars

\* What is booted was installed, and a scheduled upgrade leaves it booted.
LEMMA BootedStep ==
    ASSUME CycleTypeOK, UpgradeInv, Alone, Alone', Booted, [CycleNext]_cycleVars
    PROVE  Booted'
<1> USE DEF UpgradeInv
<1>0. host' = host
  BY HostMoves
<1>t. running \in Nat /\ inst[Kernel] \in Nat /\ host.way \in {"ssh", "lxc", "node"}
  <2>1. host \in Setting
    BY SettingsAssumption DEF CycleTypeOK
  <2> QED BY <2>1, Numbers, PackagesAssumption DEF Setting
<1>m. /\ inst'[Kernel] \in Nat /\ inst[Kernel] <= inst'[Kernel]
      /\ inst' = inst \/ txn.open
      /\ running' = running \/ ((AutoReboot \/ RebootByHand) /\ running' = NextBoot /\ inst' = inst)
  BY InstMoves, PackagesAssumption
<1>b. NextBoot \in Nat /\ NextBoot <= inst[Kernel] /\ (host.way = "node" /\ "pinned" \in host.may => NextBoot = 0)
  BY <1>t DEF NextBoot
<1>1. running' <= inst'[Kernel] /\ (host.way = "node" /\ "pinned" \in host.may => running' = 0)
  BY <1>t, <1>m, <1>b DEF Booted
<1>2. ASSUME run'["auto"].phase = "finished", HasMarker(host.pm), host.way # "lxc",
             host.may \cap {"overlap", "no sudo"} = {}
      PROVE  running' = NextBoot'
  <2>0. "overlap" \notin host.may /\ "no sudo" \notin host.may
    BY <1>2
  <2>1. inst' = inst => NextBoot' = NextBoot
    BY <1>0 DEF NextBoot
  <2>2. CASE AutoReboot \/ RebootByHand
    <3>1. running' = NextBoot /\ inst' = inst
      BY <2>2 DEF AutoReboot, RebootByHand, Boot
    <3> QED BY <2>1, <3>1
  <2>3. CASE AskReboot
    <3>1. run'["auto"].phase = "asking"
      <4>1. run \in [Runners -> Run] /\ "auto" \in Runners
        BY CycleTypes DEF Runners
      <4> QED BY <1>2, <2>3, <4>1 DEF AskReboot, SetPhase, Run
    <3> QED BY <1>2, <3>1
  <2>4. CASE AskRebootAnswered
    <3>1. inst' = inst /\ running' = running /\ run["auto"].phase = "asking"
      BY <2>4 DEF AskRebootAnswered, hostVars
    <3>2. ~Result("auto").reboot
      <4>1. run \in [Runners -> Run] /\ "auto" \in Runners
        BY CycleTypes DEF Runners
      <4>2. run' = [run EXCEPT !["auto"].phase = IF Result("auto").reboot THEN "rebooting" ELSE "finished"]
        BY <2>4 DEF AskRebootAnswered, SetPhase
      <4> HIDE DEF Result
      <4> QED BY <1>2, <4>1, <4>2 DEF Run
    <3>3. "no ssh" \notin host.may
      BY <2>0, <3>1 DEF Alone, Late
    <3>4. ~RebootFlag(DetectedPm, StatusOf(probe["auto"].listed)) /\ DetectedPm = host.pm
      BY <2>0, <3>2 DEF Result, DetectedPm
    <3>5. CASE host.way = "node"
      <4>1. ~(NextBoot > running)
        BY <3>3, <3>4, <3>5 DEF RebootFlag, NodeNeedsReboot
      <4>2. "pinned" \notin host.may => NextBoot = inst[Kernel]
        BY DEF NextBoot
      <4> QED BY <1>b, <1>t, <2>1, <3>1, <3>5, <4>1, <4>2 DEF Booted
    <3>6. CASE host.way = "ssh"
      <4>1. ~(inst[Kernel] > running)
        BY <1>2, <3>4, <3>6 DEF RebootFlag
      <4>2. NextBoot = inst[Kernel]
        BY <3>6 DEF NextBoot
      <4> QED BY <1>t, <2>1, <3>1, <4>1, <4>2 DEF Booted
    <3> QED BY <1>t, <1>2, <3>5, <3>6
  <2>5. CASE run["auto"].phase = "finished" /\ ~AutoReboot /\ ~RebootByHand
    <3>1. ~txn.open
      BY <2>0, <2>5 DEF Alone, Late
    <3>2. inst' = inst /\ running' = running
      BY <1>m, <2>5, <3>1
    <3>3. running = NextBoot
      BY <1>2, <2>5 DEF Booted, RebootedForKernel
    <3> QED BY <2>1, <3>2, <3>3
  <2> QED BY <1>2, <2>2, <2>3, <2>4, <2>5, FinishedMoves
<1>3. RebootedForKernel'
  BY <1>0, <1>2 DEF RebootedForKernel, HasMarker
<1> QED BY <1>0, <1>1, <1>3 DEF Booted

\* The invariant of upgrades and reboots, for every setting.
THEOREM RebootInvariance == CycleSpec => [](UpgradeInv /\ RebootInv)
<1>1. CycleInit => UpgradeInv
  BY UpgradeInit
<1>2. CycleInit => RebootInv
  <2> SUFFICES ASSUME CycleInit PROVE RebootInv
    OBVIOUS
  <2>1. \A b \in Runners : run[b] = NoRun /\ run[b].phase = "idle"
    BY DEF CycleInit, NoRun
  <2>2. ~txn.open /\ running = 0 /\ inst[Kernel] = 0 /\ "auto" \in Runners
    BY PackagesAssumption DEF CycleInit, NoTxn, Nothing, Runners
  <2>3. run["auto"].phase = "idle"
    BY <2>1, <2>2
  <2>4. Alone
    BY <2>1, <2>2, <2>3 DEF Alone, Late
  <2>5. RebootedForKernel
    BY <2>3 DEF RebootedForKernel
  <2> QED BY <2>2, <2>4, <2>5 DEF RebootInv, Booted
<1>3. CycleTypeOK /\ UpgradeInv /\ RebootInv /\ [CycleNext]_cycleVars => UpgradeInv' /\ RebootInv'
  BY UpgradeStep, AloneStep, BootedStep DEF RebootInv
<1> QED BY <1>1, <1>2, <1>3, CycleTypeCorrect, PTL DEF CycleSpec

\* Whatever reboots, failures and timeouts come in between, on every host whose
\* package manager marks a pending reboot: a scheduled upgrade with auto_reboot that
\* comes to its end leaves no older kernel running than the one the host would boot.
THEOREM RebootedForKernelHolds == CycleSpec => []RebootedForKernel
<1>1. RebootInv => RebootedForKernel
  BY DEF RebootInv, Booted
<1> QED BY <1>1, RebootInvariance, PTL

\* A scheduled reboot hits no transaction, unless upgrades overlap.
THEOREM NoRebootMidTransactionHolds == CycleSpec => NoRebootMidTransaction
<1>1. RebootInv /\ [CycleNext]_cycleVars =>
        [ run["auto"].phase = "rebooting" /\ run'["auto"].phase = "finished"
          => "overlap" \in host.may \/ ~txn.open ]_cycleVars
  BY DEF RebootInv, Alone, Late
<1> QED BY <1>1, RebootInvariance, PTL DEF CycleSpec, NoRebootMidTransaction
-------------------------------------------------------------------------------
(***************************************************************************)
(* When a release is reported.                                             *)
(***************************************************************************)

\* The host and the mirror can be asked, and the stamp of the cache is the host's own.
Reachable ==
    /\ host.way # "node" /\ host.pm # "unknown"
    /\ host.may \cap {"no mirror", "no answer", "no sudo", "twin"} = {}

\* How long a check goes by an index that was fetched before.
Slack == IF host.ttl = 0 THEN 0 ELSE host.ttl - 1

\* The newest release is not in the index, and it is not installed.
Old(p) == index[p].ver < repo[p].ver
Lacking(p) == inst[p] < repo[p].ver

\* The scheduled check under way is going to report the newest release.
WillReport(p) ==
    \/ /\ probe["job"].at = "asked"
       /\ probe["job"].refresh \/ host.pm \in {"dnf", "yum"} \/ ~Old(p)
    \/ probe["job"].at = "listed" /\ probe["job"].listed[p] = repo[p].ver

\* An index that lacks the release is as old as the release, but for the check that
\* fetched it.  A release that is not reported by the check under way is reported by
\* the next one after the cache has expired.
Timely(p) ==
    /\ Old(p) /\ IsCacheFresh => wait[p] <= fresh + CheckTime
    /\ \A c \in Callers : probe[c].at = "listed" /\ probe[c].refresh /\ Old(p) => wait[p] <= probe[c].took
    /\ Lacking(p) /\ due # NoJob =>
         IF WillReport(p) THEN wait[p] <= every + Slack + CheckTime + probe["job"].took
         ELSE wait[p] + due <= every + Slack + CheckTime
    /\ every # hours \/ due = NoJob => wait[p] = 0
    /\ wait[p] <= ReportBound(hours)

\* A scheduled check was begun when the job fired, an interval ago but for the time
\* that is left, unless the interval was saved since.
JobUnderWay ==
    /\ checking <=> probe["job"] # NoProbe
    /\ checking /\ due # NoJob =>
         probe["job"].took + due >= every \/ \A p \in Pkgs : wait[p] <= probe["job"].took

InTime == Reachable => JobUnderWay /\ \A p \in Pkgs : Timely(p)

\* The quantities the bound is made of.
TimeFacts ==
    /\ host.ttl \in Nat /\ Slack \in Nat /\ CheckTime \in Nat /\ hours \in Nat /\ every \in Nat
    /\ fresh = Never \/ fresh \in 0..host.ttl
    /\ \A p \in Pkgs : wait[p] \in Nat
    /\ \A c \in Callers : probe[c].took \in 0..CheckTime
    /\ due # NoJob => due \in 0..every /\ CheckTime < every
    /\ \A h \in Intervals : h \in Nat => ReportBound(h) = h + Slack + 2 * CheckTime

\* The numbers that the argument about time needs.
LEMMA TimeTypes == CycleTypeOK /\ JobInPlace => TimeFacts
<1> SUFFICES ASSUME CycleTypeOK, JobInPlace PROVE TimeFacts
  OBVIOUS
<1>1. host.ttl \in Nat /\ CheckTime \in Nat /\ MaxWait \in Nat
  BY HostType DEF CycleTypeOK
<1>2. Slack \in Nat
  BY <1>1 DEF Slack
<1>3. hours \in Nat /\ every \in Nat
  BY IntervalsAssumption DEF JobInPlace
<1>4. \A p \in Pkgs : wait[p] \in Nat
  BY <1>1, CycleTypes
<1>5. \A c \in Callers : probe[c].took \in 0..CheckTime
  BY CycleTypes DEF Probe
<1>6. due # NoJob => due \in 0..every /\ CheckTime < every
  BY <1>3, PackagesAssumption DEF JobInPlace
<1>7. fresh = Never \/ fresh \in 0..host.ttl
  BY DEF CycleTypeOK
<1>8. \A h \in Intervals : h \in Nat => ReportBound(h) = h + Slack + 2 * CheckTime
  BY DEF ReportBound, Slack
<1> QED BY <1>1, <1>2, <1>3, <1>4, <1>5, <1>6, <1>7, <1>8 DEF TimeFacts

\* What has not waited is on time.
LEMMA NotWaited ==
    ASSUME TimeFacts', NEW p \in Pkgs, wait'[p] = 0, hours' \in Intervals
    PROVE  Timely(p)'
<1>1. (IsCacheFresh => fresh >= 0)'
  BY DEF TimeFacts, IsCacheFresh
<1>2. ReportBound(hours)' >= 0
  BY DEF TimeFacts
<1>3. (due # NoJob => due <= every + Slack + CheckTime)'
  BY DEF TimeFacts
<1>4. \A c \in Callers : probe'[c].took >= 0
  BY DEF TimeFacts
<1>5. (every + Slack + CheckTime + probe["job"].took)' >= 0
  BY DEF TimeFacts, Callers
<1>6. (wait[p] + due)' = due' \/ due' = NoJob
  BY DEF TimeFacts
<1>7. CheckTime \in Nat /\ (fresh' >= 0 /\ IsCacheFresh' => fresh' + CheckTime >= 0)
  BY DEF TimeFacts, IsCacheFresh
<1> QED BY <1>1, <1>2, <1>3, <1>4, <1>5, <1>6, <1>7 DEF Timely

\* A step in which no time passes, the job keeps its place and nothing is published
\* of p keeps p on time.
LEMMA CalmStep ==
    ASSUME TimeFacts, TimeFacts', NEW p \in Pkgs, Timely(p), hours \in Intervals,
           UNCHANGED <<host, hours, every, due>>,
           wait'[p] <= wait[p],
           Lacking(p)' => Lacking(p), Old(p)' => Old(p),
           Lacking(p)' /\ WillReport(p) => WillReport(p)' /\ probe'["job"].took = probe["job"].took,
           Old(p)' /\ IsCacheFresh' => (IsCacheFresh /\ fresh' = fresh) \/ wait'[p] <= fresh' + CheckTime,
           \A c \in Callers : probe'[c].at = "listed" /\ probe'[c].refresh /\ Old(p)'
                => probe[c].at = "listed" /\ probe[c].refresh /\ probe'[c].took = probe[c].took
    PROVE  Timely(p)'
<1>s. Slack' = Slack /\ ReportBound(hours)' = ReportBound(hours)
  BY DEF Slack, ReportBound
<1>w. wait[p] \in Nat /\ wait'[p] \in Nat
  BY DEF TimeFacts
<1>1. (Old(p) /\ IsCacheFresh => wait[p] <= fresh + CheckTime)'
  <2> SUFFICES ASSUME Old(p)', IsCacheFresh', IsCacheFresh, fresh' = fresh PROVE wait'[p] <= fresh' + CheckTime
    OBVIOUS
  <2>1. wait[p] <= fresh + CheckTime /\ fresh \in Nat /\ CheckTime \in Nat
    BY DEF Timely, TimeFacts, IsCacheFresh
  <2> QED BY <2>1, <1>w
<1>2. ASSUME NEW c \in Callers, probe'[c].at = "listed", probe'[c].refresh, Old(p)' PROVE wait'[p] <= probe'[c].took
  <2>1. wait[p] <= probe[c].took /\ probe'[c].took = probe[c].took /\ probe[c].took \in Nat
    BY <1>2 DEF Timely, TimeFacts
  <2> QED BY <2>1, <1>w
<1>3. ASSUME Lacking(p)', due' # NoJob
      PROVE  IF WillReport(p)' THEN wait'[p] <= every + Slack + CheckTime + probe'["job"].took
             ELSE wait'[p] + due <= every + Slack + CheckTime
  <2>0. /\ every \in Nat /\ Slack \in Nat /\ CheckTime \in Nat /\ due \in Nat
        /\ probe["job"].took \in Nat /\ probe'["job"].took \in Nat
    BY <1>3 DEF TimeFacts, Callers
  <2>1. CASE WillReport(p)
    <3>1. wait[p] <= every + Slack + CheckTime + probe["job"].took
      BY <1>3, <2>1 DEF Timely
    <3> QED BY <1>3, <1>w, <2>0, <2>1, <3>1
  <2>2. CASE ~WillReport(p)
    <3>1. wait[p] + due <= every + Slack + CheckTime
      BY <1>3, <2>2 DEF Timely
    <3> QED BY <1>w, <2>0, <3>1
  <2> QED BY <2>1, <2>2
<1>4. every' # hours' \/ due' = NoJob => wait'[p] = 0
  BY <1>w DEF Timely
<1>5. wait'[p] <= ReportBound(hours)'
  <2>1. ReportBound(hours) \in Int /\ wait[p] <= ReportBound(hours)
    BY DEF TimeFacts, Timely
  <2> QED BY <1>s, <1>w, <2>1
<1> QED BY <1>s, <1>1, <1>2, <1>3, <1>4, <1>5 DEF Timely

\* Time passes: a check that will report comes closer to its end, and without one
\* the job comes closer.
LEMMA PassTimely ==
    ASSUME CycleTypeOK, TimeFacts, TimeFacts', NEW p \in Pkgs, Timely(p), hours \in Intervals, Pass
    PROVE  Timely(p)'
<1>0. /\ UNCHANGED <<host, hours, every, repo, index, inst>> /\ due # 0
      /\ due' = IF due = NoJob THEN NoJob ELSE due - 1
      /\ fresh' = IF fresh = Never \/ fresh = host.ttl THEN fresh ELSE fresh + 1
      /\ wait'[p] = wait[p] \/ (wait'[p] = wait[p] + 1 /\ Lacking(p) /\ due # NoJob /\ every = hours)
  BY DEF Pass, Tick, hostVars, Untold, Lacking, Applied
<1>p. ASSUME NEW c \in Callers, probe'[c].at # "off"
      PROVE  /\ probe'[c].at = probe[c].at /\ probe'[c].refresh = probe[c].refresh /\ probe'[c].listed = probe[c].listed
             /\ probe'[c].took = probe[c].took + 1
  <2>1. probe[c] # NoProbe /\ probe'[c] = [probe[c] EXCEPT !.took = @ + 1]
    BY <1>p DEF Pass, NoProbe
  <2>2. probe[c] \in Probe
    BY CycleTypes
  <2> QED BY <2>1, <2>2 DEF Probe
<1>s. Slack' = Slack /\ ReportBound(hours)' = ReportBound(hours) /\ Old(p)' = Old(p) /\ Lacking(p)' = Lacking(p)
  BY <1>0 DEF Slack, ReportBound, Old, Lacking
<1>w. /\ wait[p] \in Nat /\ wait'[p] \in Nat /\ wait'[p] <= wait[p] + 1 /\ CheckTime \in Nat
      /\ every \in Nat /\ Slack \in Nat /\ hours \in Nat /\ "job" \in Callers
  BY <1>0 DEF TimeFacts, Callers
<1>1. (Old(p) /\ IsCacheFresh => wait[p] <= fresh + CheckTime)'
  <2> SUFFICES ASSUME Old(p)', IsCacheFresh' PROVE wait'[p] <= fresh' + CheckTime
    OBVIOUS
  <2>1. IsCacheFresh /\ fresh \in Nat /\ fresh' = fresh + 1
    BY <1>0 DEF IsCacheFresh, TimeFacts, Never
  <2>2. wait[p] <= fresh + CheckTime
    BY <1>s, <2>1 DEF Timely
  <2> QED BY <1>w, <2>1, <2>2
<1>2. ASSUME NEW c \in Callers, probe'[c].at = "listed", probe'[c].refresh, Old(p)' PROVE wait'[p] <= probe'[c].took
  <2>1. wait[p] <= probe[c].took /\ probe'[c].took = probe[c].took + 1 /\ probe[c].took \in Nat
    BY <1>2, <1>p, <1>s DEF Timely, TimeFacts
  <2> QED BY <2>1, <1>w
<1>3. ASSUME Lacking(p)', due' # NoJob
      PROVE  /\ IF WillReport(p)' THEN wait'[p] <= every + Slack + CheckTime + probe'["job"].took
                ELSE wait'[p] + due' <= every + Slack + CheckTime
             /\ wait'[p] <= every + Slack + 2 * CheckTime
  <2>0. due \in Nat /\ due' = due - 1 /\ due' \in Nat /\ probe["job"].took \in Nat /\ probe'["job"].took \in 0..CheckTime
    BY <1>0, <1>3, <1>w DEF TimeFacts, NoJob
  <2>1. CASE WillReport(p)'
    <3>1. probe'["job"].at # "off" /\ WillReport(p)
      BY <1>0, <1>p, <1>s, <1>w, <2>1 DEF WillReport
    <3>2. probe'["job"].took = probe["job"].took + 1
      BY <1>p, <1>w, <3>1
    <3>3. wait[p] <= every + Slack + CheckTime + probe["job"].took
      BY <1>0, <1>3, <1>s, <3>1 DEF Timely
    <3> QED BY <1>w, <2>0, <2>1, <3>2, <3>3
  <2>2. CASE ~WillReport(p)'
    <3>1. ~WillReport(p)
      <4>1. CASE probe["job"] = NoProbe
        BY <4>1 DEF WillReport, NoProbe
      <4>2. CASE probe["job"] # NoProbe
        <5>1. probe'["job"] = [probe["job"] EXCEPT !.took = @ + 1] /\ probe["job"] \in Probe
          BY <1>w, <4>2, CycleTypes DEF Pass
        <5>2. /\ probe'["job"].at = probe["job"].at /\ probe'["job"].refresh = probe["job"].refresh
              /\ probe'["job"].listed = probe["job"].listed
          BY <5>1 DEF Probe
        <5> QED BY <1>0, <1>s, <2>2, <5>2 DEF WillReport
      <4> QED BY <4>1, <4>2
    <3>2. wait[p] + due <= every + Slack + CheckTime
      BY <1>0, <1>3, <1>s, <3>1 DEF Timely
    <3> QED BY <1>w, <2>0, <2>2, <3>2
  <2> QED BY <2>1, <2>2
<1>4. every' # hours' \/ due' = NoJob => wait'[p] = 0
  <2>1. due' = NoJob => due = NoJob
    BY <1>0, <1>w DEF TimeFacts, NoJob
  <2> QED BY <1>0, <2>1 DEF Timely
<1>5. wait'[p] <= ReportBound(hours)'
  <2>1. ReportBound(hours) = hours + Slack + 2 * CheckTime /\ wait[p] <= ReportBound(hours)
    BY DEF TimeFacts, Timely
  <2>2. CASE wait'[p] = wait[p]
    BY <1>s, <2>1, <2>2
  <2>3. CASE wait'[p] # wait[p]
    <3>1. due' # NoJob
      BY <1>0, <1>w, <2>3 DEF TimeFacts, NoJob
    <3> QED BY <1>0, <1>3, <1>s, <2>1, <2>3, <3>1
  <2> QED BY <2>2, <2>3
<1> QED BY <1>0, <1>s, <1>1, <1>2, <1>3, <1>4, <1>5 DEF Timely

\* The job fires.  A check that goes by the cached index leaves a release out only
\* if the next one is in time; and it finds a check under way only if the interval was
\* saved since that one began.
LEMMA FireTimely ==
    ASSUME CycleTypeOK, TimeFacts, TimeFacts', NEW p \in Pkgs, Timely(p), hours \in Intervals, Reachable,
           JobUnderWay, FireProbe
    PROVE  Timely(p)'
<1>0. /\ UNCHANGED <<host, hours, every, repo, index, inst, fresh, wait>> /\ due = 0 /\ due' = every
  BY DEF FireProbe, Fire, hostVars
<1>s. /\ Slack' = Slack /\ ReportBound(hours)' = ReportBound(hours) /\ Old(p)' = Old(p) /\ Lacking(p)' = Lacking(p)
      /\ IsCacheFresh' = IsCacheFresh
  BY <1>0 DEF Slack, ReportBound, Old, Lacking, IsCacheFresh
<1>w. /\ wait[p] \in Nat /\ CheckTime \in Nat /\ every \in Nat /\ CheckTime < every /\ Slack \in Nat /\ "job" \in Callers
      /\ probe["job"].took \in 0..CheckTime /\ probe'["job"].took \in 0..CheckTime
  BY <1>0 DEF TimeFacts, Callers, NoJob
<1>p. probe \in [Callers -> Probe]
  BY CycleTypes
<1>1. CASE checking
  <2>1. probe' = probe
    BY <1>1 DEF FireProbe
  <2>2. ASSUME Lacking(p)', ~WillReport(p)' PROVE wait[p] + every <= every + Slack + CheckTime
    <3>1. wait[p] <= probe["job"].took
      BY <1>0, <1>1, <1>w DEF JobUnderWay, NoJob
    <3> QED BY <1>w, <3>1
  <2>3. WillReport(p)' = WillReport(p)
    BY <1>0, <1>s, <2>1 DEF WillReport
  <2>4. due # NoJob /\ due' # NoJob
    BY <1>0, <1>w DEF NoJob
  <2> QED BY <1>0, <1>s, <2>1, <2>2, <2>3, <2>4 DEF Timely
<1>2. CASE ~checking
  <2>1. BeginProbe("job")
    BY <1>2 DEF FireProbe
  <2>2. /\ probe["job"] = NoProbe /\ probe'["job"].at = "asked"
        /\ probe'["job"].refresh = (host.way # "node" /\ ~IsCacheFresh)
        /\ \A c \in Callers : c # "job" => probe'[c] = probe[c]
    BY <1>p, <1>w, <2>1 DEF BeginProbe, Probe
  <2>3. ~WillReport(p)
    BY <2>2 DEF WillReport, NoProbe
  <2>4. due # NoJob /\ due' # NoJob
    BY <1>0, <1>w DEF NoJob
  <2>5. ASSUME Lacking(p)
        PROVE  IF WillReport(p)' THEN wait'[p] <= every + Slack + CheckTime + probe'["job"].took
               ELSE wait'[p] + due' <= every + Slack + CheckTime
    <3>1. wait[p] <= every + Slack + CheckTime
      BY <1>0, <1>w, <2>3, <2>4, <2>5 DEF Timely
    <3>2. ASSUME ~WillReport(p)' PROVE wait[p] <= Slack + CheckTime
      <4>1. Old(p) /\ IsCacheFresh
        BY <1>0, <1>s, <2>2, <3>2 DEF WillReport, Reachable
      <4>2. wait[p] <= fresh + CheckTime
        BY <4>1 DEF Timely
      <4>3. fresh \in Nat /\ fresh <= Slack
        BY <4>1 DEF IsCacheFresh, TimeFacts, Slack
      <4> QED BY <1>w, <4>2, <4>3
    <3> QED BY <1>0, <1>w, <3>1, <3>2
  <2>6. \A c \in Callers : probe'[c].at = "listed" /\ probe'[c].refresh /\ Old(p)' => wait'[p] <= probe'[c].took
    BY <1>0, <1>s, <2>2 DEF Timely
  <2>7. wait'[p] <= ReportBound(hours)' /\ (every' # hours' \/ due' = NoJob => wait'[p] = 0)
        /\ (Old(p)' /\ IsCacheFresh' => wait'[p] <= fresh' + CheckTime)
    BY <1>0, <1>s, <2>4 DEF Timely
  <2> QED BY <1>0, <1>s, <2>5, <2>6, <2>7 DEF Timely
<1> QED BY <1>1, <1>2

\* What upgrades, reboots and the mirror do to other packages keeps p on time.
LEMMA QuietTimely ==
    ASSUME TimeFacts, TimeFacts', NEW p \in Pkgs, Timely(p), hours \in Intervals,
           UNCHANGED <<vars, host, fresh, probe>>, wait'[p] = wait[p],
           repo[p].ver \in Nat /\ index[p].ver \in Nat /\ inst[p] \in Nat,
           repo'[p].ver = repo[p].ver,
           index'[p].ver \in Nat /\ index[p].ver <= index'[p].ver, inst'[p] \in Nat /\ inst[p] <= inst'[p]
    PROVE  Timely(p)'
<1>1. (Lacking(p)' => Lacking(p)) /\ (Old(p)' => Old(p))
  BY DEF Lacking, Old
<1>2. WillReport(p) => WillReport(p)'
  BY <1>1 DEF WillReport
<1>3. IsCacheFresh' = IsCacheFresh
  BY DEF IsCacheFresh
<1>4. wait'[p] <= wait[p]
  BY DEF TimeFacts
<1>5. UNCHANGED <<host, hours, every, due>>
  BY DEF vars
<1> QED BY <1>1, <1>2, <1>3, <1>4, <1>5, CalmStep

\* The commands of a check: a check that fetches finds the newest release.
LEMMA ListTimely ==
    ASSUME CycleTypeOK, TimeFacts, TimeFacts', NEW p \in Pkgs, Timely(p), hours \in Intervals, Reachable,
           Ahead, NEW c \in Callers, RunList(c)
    PROVE  Timely(p)'
<1>0. /\ UNCHANGED <<host, hours, every, due, repo, inst, fresh, wait>> /\ probe[c].at = "asked"
  BY DEF RunList, vars
<1>d. DetectedPm = host.pm /\ host.pm # "unknown"
  BY DEF Reachable, DetectedPm
<1>p. probe \in [Callers -> Probe] /\ "job" \in Callers
  BY CycleTypes DEF Callers
<1>n. repo[p].ver \in Nat /\ index[p].ver \in Nat /\ inst[p] \in Nat
  BY Numbers
<1>1. /\ index' = repo \/ index' = index
      /\ probe[c].refresh \/ host.pm \in {"dnf", "yum"} => index' = repo
  BY <1>d DEF RunList, ListFetches, Reachable
<1>2. (Lacking(p)' => Lacking(p)) /\ (Old(p)' => Old(p) /\ index' # repo) /\ IsCacheFresh' = IsCacheFresh
  BY <1>0, <1>1, <1>n DEF Lacking, Old, IsCacheFresh
<1> DEFINE found == [q \in Pkgs |-> IF DetectedPm # "unknown" /\ q \in Upgradable(index') THEN index'[q].ver ELSE 0]
<1>3. probe' = [probe EXCEPT ![c].at = "listed", ![c].listed = found]
  BY DEF RunList
<1>4. ASSUME Lacking(p), index'[p].ver = repo[p].ver PROVE found[p] = repo[p].ver
  BY <1>d, <1>4 DEF Upgradable, Lacking
<1> HIDE DEF found
<1>5. /\ probe'[c].at = "listed" /\ probe'[c].listed = found
      /\ \A d \in Callers : /\ probe'[d].took = probe[d].took /\ probe'[d].refresh = probe[d].refresh
                            /\ d # c => probe'[d] = probe[d]
  BY <1>p, <1>3 DEF Probe
<1>6. Lacking(p)' /\ WillReport(p) => WillReport(p)'
  <2>1. CASE c = "job"
    <3> SUFFICES ASSUME Lacking(p), WillReport(p) PROVE index'[p].ver = repo[p].ver
      BY <1>0, <1>2, <1>4, <1>5, <2>1 DEF WillReport
    <3>1. probe[c].refresh \/ host.pm \in {"dnf", "yum"} \/ ~Old(p)
      BY <1>0, <2>1 DEF WillReport
    <3> QED BY <1>1, <1>n, <3>1 DEF Old, Ahead
  <2>2. CASE c # "job"
    BY <1>0, <1>2, <1>5, <1>p, <2>2 DEF WillReport
  <2> QED BY <2>1, <2>2
<1>7. \A d \in Callers : probe'[d].at = "listed" /\ probe'[d].refresh /\ Old(p)'
            => probe[d].at = "listed" /\ probe[d].refresh /\ probe'[d].took = probe[d].took
  BY <1>1, <1>2, <1>5
<1>8. wait'[p] <= wait[p]
  BY <1>0 DEF TimeFacts
<1> QED BY <1>0, <1>2, <1>5, <1>6, <1>7, <1>8, <1>p, CalmStep

\* A check by hand, or after a scheduled upgrade, begins.
LEMMA BeginTimely ==
    ASSUME CycleTypeOK, TimeFacts, TimeFacts', NEW p \in Pkgs, Timely(p), hours \in Intervals,
           NEW c \in {"user", "auto"}, BeginProbe(c),
           UNCHANGED <<vars, host, hostVars, fresh, wait>>
    PROVE  Timely(p)'
<1>p. probe \in [Callers -> Probe] /\ c \in Callers /\ "job" \in Callers
  BY CycleTypes DEF Callers
<1>1. probe'[c].at = "asked" /\ \A d \in Callers : d # c => probe'[d] = probe[d]
  BY <1>p DEF BeginProbe, Probe
<1>2. /\ Lacking(p)' = Lacking(p) /\ Old(p)' = Old(p) /\ IsCacheFresh' = IsCacheFresh
      /\ UNCHANGED <<host, hours, every, due>> /\ wait'[p] = wait[p] /\ fresh' = fresh
  BY DEF Lacking, Old, IsCacheFresh, hostVars, vars
<1>3. probe'["job"] = probe["job"]
  BY <1>1, <1>p
<1>4. WillReport(p)' = WillReport(p)
  BY <1>2, <1>3 DEF WillReport, hostVars
<1>5. wait'[p] <= wait[p]
  BY <1>2 DEF TimeFacts
<1>6. \A d \in Callers : probe'[d].at = "listed" /\ probe'[d].refresh /\ Old(p)'
            => probe[d].at = "listed" /\ probe[d].refresh /\ probe'[d].took = probe[d].took
  BY <1>1
<1> QED BY <1>2, <1>3, <1>4, <1>5, <1>6, CalmStep

\* A check ends.  The scheduled one has reported what it was to report, and an index
\* that was fetched is stamped.
LEMMA EndTimely ==
    ASSUME CycleTypeOK, TimeFacts, TimeFacts', NEW p \in Pkgs, Timely(p), hours \in Intervals,
           NEW c \in Callers, EndProbe(c),
           UNCHANGED <<host, hours, every, due, hostVars>>,
           Told(Result(c)) \/ (c # "job" /\ wait' = wait)
    PROVE  Timely(p)'
<1>p. probe \in [Callers -> Probe] /\ "job" \in Callers
  BY CycleTypes DEF Callers
<1>1. /\ probe'[c] = NoProbe /\ probe[c].at = "listed"
      /\ \A d \in Callers : d # c => probe'[d] = probe[d]
      /\ fresh' = IF probe[c].refresh THEN 0 ELSE fresh
  BY <1>p DEF EndProbe, MarkRefreshed
<1>2. Lacking(p)' = Lacking(p) /\ Old(p)' = Old(p)
  BY DEF Lacking, Old, hostVars
<1>3. wait'[p] \in {wait[p], 0} /\ wait'[p] <= wait[p]
  BY DEF Told, TimeFacts
<1>4. ASSUME c = "job", Lacking(p), WillReport(p) PROVE wait'[p] = 0
  <2>1. probe["job"].listed[p] = repo[p].ver
    BY <1>1, <1>4 DEF WillReport
  <2>2. ~(repo[p].ver < repo[p].ver)
    BY Numbers
  <2>3. p \notin Untold(Result(c))
    BY <1>4, <2>1, <2>2 DEF Untold, Result
  <2> QED BY <1>4, <2>3 DEF Told
<1>5. CASE c = "job" /\ Lacking(p) /\ WillReport(p)
  BY <1>4, <1>5, NotWaited
<1>6. CASE ~(c = "job" /\ Lacking(p) /\ WillReport(p))
  <2>1. Lacking(p)' /\ WillReport(p) => WillReport(p)' /\ probe'["job"].took = probe["job"].took
    BY <1>1, <1>2, <1>6, <1>p DEF WillReport, hostVars
  <2>2. Old(p)' /\ IsCacheFresh' => (IsCacheFresh /\ fresh' = fresh) \/ wait'[p] <= fresh' + CheckTime
    <3>1. CASE probe[c].refresh
      <4> SUFFICES ASSUME Old(p) PROVE wait'[p] <= 0 + CheckTime
        BY <1>1, <1>2, <3>1
      <4>1. wait[p] <= probe[c].took /\ probe[c].took \in 0..CheckTime /\ CheckTime \in Nat
        BY <1>1, <3>1 DEF Timely, TimeFacts
      <4> QED BY <1>3, <4>1 DEF TimeFacts
    <3>2. CASE ~probe[c].refresh
      BY <1>1, <3>2 DEF IsCacheFresh
    <3> QED BY <3>1, <3>2
  <2>3. \A d \in Callers : probe'[d].at = "listed" /\ probe'[d].refresh /\ Old(p)'
            => probe[d].at = "listed" /\ probe[d].refresh /\ probe'[d].took = probe[d].took
    BY <1>1 DEF NoProbe
  <2> QED BY <1>2, <1>3, <2>1, <2>2, <2>3, CalmStep
<1> QED BY <1>5, <1>6

\* A release stays on its way to the report: in the mirror, in the index, in a check.
LEMMA TimelyStep ==
    ASSUME CycleTypeOK, TimeFacts, TimeFacts', JobInPlace, hours \in Intervals, hours' \in Intervals,
           Reachable, Ahead, Transactions, JobUnderWay, [CycleNext]_cycleVars, NEW p \in Pkgs, Timely(p)
    PROVE  Timely(p)'
<1>r. /\ host.way # "node" /\ host.may \cap {"no mirror", "no answer", "no sudo", "twin"} = {}
  BY DEF Reachable
<1>c. "job" \in Callers /\ "user" \in Callers /\ "auto" \in Callers
  BY DEF Callers
<1>n. /\ repo[p].ver \in Nat /\ index[p].ver \in Nat /\ inst[p] \in Nat
      /\ index'[p].ver \in Nat /\ index[p].ver <= index'[p].ver
      /\ inst'[p] \in Nat /\ inst[p] <= inst'[p]
  BY Numbers, WithinKept, InstMoves
<1>q. ASSUME UNCHANGED <<vars, host, fresh, probe>>, wait'[p] = wait[p], repo'[p].ver = repo[p].ver PROVE Timely(p)'
  BY <1>n, <1>q, QuietTimely
<1>1. CASE StartUp
  <2>1. wait'[p] = 0
    <3>1. ~up /\ wait' = wait
      BY <1>1 DEF StartUp, Startup
    <3>2. every # hours \/ due = NoJob => wait[p] = 0
      BY DEF Timely
    <3>3. due = NoJob
      BY <3>1 DEF JobInPlace
    <3> QED BY <3>1, <3>2, <3>3
  <2> QED BY <2>1, NotWaited
<1>2. CASE ShutDown \/ \E h \in Intervals : Save(h)
  <2>1. wait'[p] = 0
    BY <1>2 DEF ShutDown, Save
  <2> QED BY <2>1, NotWaited
<1>3. CASE Pass
  BY <1>3, PassTimely
<1>4. CASE FireProbe
  BY <1>4, FireTimely
<1>5. CASE FinishProbe
  <2>1. EndProbe("job") /\ Told(Result("job")) /\ UNCHANGED <<host, hours, every, due, hostVars>>
    BY <1>5 DEF FinishProbe, Finish
  <2> QED BY <1>c, <2>1, EndTimely
<1>6. CASE AnswerProbe
  <2>1. EndProbe("user") /\ Told(Result("user")) /\ UNCHANGED <<host, hours, every, due, hostVars>>
    BY <1>6 DEF AnswerProbe, OnDemandCheck
  <2> QED BY <1>c, <2>1, EndTimely
<1>7. CASE AskRebootAnswered
  <2>1. EndProbe("auto") /\ wait' = wait /\ UNCHANGED <<host, hours, every, due, hostVars>>
    BY <1>7 DEF AskRebootAnswered, vars
  <2> QED BY <1>c, <2>1, EndTimely
<1>8. CASE FinishWithout \/ AskFails \/ AskRebootFails \/ NodeFetches \/ TwinRefreshed
  BY <1>8, <1>r DEF FinishWithout, AskFails, AskRebootFails, DropProbe, NodeFetches, TwinRefreshed
<1>9. CASE AskProbe
  BY <1>9, BeginTimely DEF AskProbe
<1>10. CASE AskReboot
  <2>1. CASE host.way = "lxc"
    <3>1. UNCHANGED <<vars, host, hostVars, fresh, probe, wait>>
      BY <1>10, <2>1 DEF AskReboot
    <3> QED BY <1>q, <3>1 DEF hostVars
  <2>2. CASE host.way # "lxc"
    BY <1>10, <2>2, BeginTimely DEF AskReboot
  <2> QED BY <2>1, <2>2
<1>11. ASSUME NEW c \in Callers, RunList(c) PROVE Timely(p)'
  BY <1>11, ListTimely
<1>12. ASSUME NEW b \in Runners, StartUpgrade(b) \/ BeginTransaction(b) \/ UpgradeTimesOut(b) \/ EndRun(b)
       PROVE  Timely(p)'
  <2>1. UNCHANGED <<vars, host, fresh, probe, wait, repo>>
    BY <1>12 DEF StartUpgrade, BeginTransaction, UpgradeTimesOut, EndRun, hostVars
  <2> QED BY <1>q, <2>1
<1>13. ASSUME NEW q \in Pkgs, Install(q) PROVE Timely(p)'
  <2>1. UNCHANGED <<vars, host, fresh, probe, wait, repo>>
    BY <1>13 DEF Install, appVars
  <2> QED BY <1>q, <2>1
<1>14. ASSUME NEW q \in Pkgs, Publish(q) PROVE Timely(p)'
  <2>t. repo \in [Pkgs -> Entry] /\ wait \in [Pkgs -> 0..MaxWait]
    BY CycleTypes
  <2>1. CASE p = q
    <3>1. wait'[p] = 0
      BY <1>14, <2>t, <2>1 DEF Publish
    <3> QED BY <3>1, NotWaited
  <2>2. CASE p # q
    <3>1. UNCHANGED <<vars, host, fresh, probe>> /\ wait'[p] = wait[p] /\ repo'[p] = repo[p]
      BY <1>14, <2>t, <2>2 DEF Publish, appVars
    <3> QED BY <1>q, <3>1
  <2> QED BY <2>1, <2>2
<1>15. ASSUME NEW q \in Pkgs, RolledOut(q) PROVE Timely(p)'
  <2>1. UNCHANGED <<vars, host, fresh, probe, wait>>
    BY <1>15 DEF RolledOut, appVars
  <2>2. repo \in [Pkgs -> Entry]
    BY CycleTypes
  <2>3. repo'[p].ver = repo[p].ver
    BY <1>15, <2>2 DEF RolledOut, Entry
  <2> QED BY <1>q, <2>1, <2>3
<1>16. ASSUME NEW ok \in BOOLEAN, EndTransaction(ok) PROVE Timely(p)'
  <2>1. UNCHANGED <<vars, host, fresh, probe, wait, repo>>
    BY <1>16 DEF EndTransaction
  <2> QED BY <1>q, <2>1
<1>17. CASE AutoReboot \/ RebootByHand
  <2>1. UNCHANGED <<vars, host, fresh, probe, wait, repo>>
    BY <1>17 DEF AutoReboot, RebootByHand, Boot
  <2> QED BY <1>q, <2>1
<1>18. CASE UNCHANGED cycleVars
  <2>1. UNCHANGED <<vars, host, fresh, probe, wait, repo>>
    BY <1>18 DEF cycleVars, hostVars, appVars
  <2> QED BY <1>q, <2>1
<1> QED
  BY <1>1, <1>2, <1>3, <1>4, <1>5, <1>6, <1>7, <1>8, <1>9, <1>10, <1>11, <1>12, <1>13, <1>14, <1>15, <1>16,
     <1>17, <1>18 DEF CycleNext

\* While a release waits to be reported a check is due or under way in time.
LEMMA JobUnderWayStep ==
    ASSUME CycleTypeOK, TimeFacts, TimeFacts', JobInPlace, Reachable, JobUnderWay, [CycleNext]_cycleVars,
           \A p \in Pkgs : Timely(p)
    PROVE  JobUnderWay'
<1>r. /\ host.way # "node" /\ host.may \cap {"no mirror", "no answer", "no sudo", "twin"} = {}
  BY DEF Reachable
<1>p. /\ probe \in [Callers -> Probe] /\ Callers = {"job", "user", "auto"} /\ checking \in BOOLEAN
      /\ NoProbe \in Probe
  BY CycleTypes, NothingType DEF Callers, TypeOK
<1>w. /\ \A p \in Pkgs : wait[p] \in Nat /\ wait'[p] \in Nat
      /\ probe["job"].took \in Nat /\ probe'["job"].took \in Nat /\ every \in Nat
  BY DEF TimeFacts, Callers
<1>0. ASSUME probe'["job"] # NoProbe <=> probe["job"] # NoProbe, probe'["job"].took = probe["job"].took,
             UNCHANGED <<checking, due, every>>, \A p \in Pkgs : wait'[p] <= wait[p]
      PROVE  JobUnderWay'
  <2>1. (\A p \in Pkgs : wait[p] <= probe["job"].took) => \A p \in Pkgs : wait'[p] <= probe'["job"].took
    BY <1>0, <1>w
  <2> QED BY <1>0, <2>1 DEF JobUnderWay
<1>q. ASSUME UNCHANGED <<checking, due, every>>, probe'["job"] = probe["job"], wait' = wait PROVE JobUnderWay'
  BY <1>0, <1>q, <1>w
<1>v. ASSUME UNCHANGED vars, probe'["job"] = probe["job"], wait' = wait PROVE JobUnderWay'
  BY <1>q, <1>v DEF vars
<1>1. CASE StartUp
  <2>1. checking' = checking /\ probe' = probe /\ wait' = wait /\ ~up
    BY <1>1 DEF StartUp, Startup, appVars
  <2>2. due = NoJob
    BY <2>1 DEF JobInPlace
  <2>3. \A p \in Pkgs : wait'[p] <= probe'["job"].took
    BY <1>w, <2>1, <2>2 DEF Timely
  <2> QED BY <2>1, <2>3 DEF JobUnderWay
<1>2. CASE ShutDown
  <2>1. checking' = FALSE /\ probe'["job"] = NoProbe
    BY <1>2, <1>p DEF ShutDown, Stop
  <2> QED BY <2>1 DEF JobUnderWay
<1>3. ASSUME NEW h \in Intervals, Save(h) PROVE JobUnderWay'
  <2>1. checking' = checking /\ probe' = probe /\ wait' = [p \in Pkgs |-> 0]
    BY <1>3 DEF Save, SaveInterval, WizardSave, appVars
  <2>2. \A p \in Pkgs : wait'[p] <= probe'["job"].took
    BY <2>1, <1>w
  <2> QED BY <2>1, <2>2 DEF JobUnderWay
<1>4. CASE Pass
  <2>0. /\ UNCHANGED <<checking, every>> /\ due # 0
        /\ due' = IF due = NoJob THEN NoJob ELSE due - 1
        /\ \A p \in Pkgs : wait'[p] = wait[p] \/ wait'[p] = wait[p] + 1
    BY <1>4 DEF Pass, Tick
  <2>1. CASE probe["job"] = NoProbe
    <3>1. probe'["job"] = NoProbe
      BY <1>4, <1>p, <2>1 DEF Pass
    <3> QED BY <2>0, <2>1, <3>1 DEF JobUnderWay
  <2>2. CASE probe["job"] # NoProbe
    <3>1. probe'["job"] = [probe["job"] EXCEPT !.took = @ + 1] /\ probe["job"] \in Probe
      BY <1>4, <1>p, <2>2 DEF Pass
    <3>2. probe'["job"].took = probe["job"].took + 1
      BY <3>1 DEF Probe
    <3>3. NoProbe.took = 0
      BY DEF NoProbe
    <3>4. probe'["job"] # NoProbe
      BY <1>w, <3>2, <3>3
    <3>5. CASE \A p \in Pkgs : wait[p] <= probe["job"].took
      <4>1. \A p \in Pkgs : wait'[p] <= probe'["job"].took
        BY <1>w, <2>0, <3>2, <3>5
      <4> QED BY <2>0, <2>2, <3>4, <4>1 DEF JobUnderWay
    <3>6. CASE due = NoJob
      <4>1. due' = NoJob
        BY <2>0, <3>6
      <4> QED BY <2>0, <2>2, <3>4, <4>1 DEF JobUnderWay
    <3>7. CASE due # NoJob /\ probe["job"].took + due >= every
      <4>1. due \in Nat /\ due' = due - 1
        BY <2>0, <3>7 DEF TimeFacts
      <4>2. probe'["job"].took + due' >= every
        BY <1>w, <3>2, <3>7, <4>1
      <4> QED BY <2>0, <2>2, <3>4, <4>2 DEF JobUnderWay
    <3>8. checking
      BY <2>2 DEF JobUnderWay
    <3> QED BY <3>5, <3>6, <3>7, <3>8 DEF JobUnderWay
  <2> QED BY <2>1, <2>2
<1>5. CASE FireProbe
  <2>1. checking' = TRUE /\ due' = every /\ every' = every
    BY <1>5 DEF FireProbe, Fire
  <2>2. probe'["job"] # NoProbe
    <3>1. CASE checking
      BY <1>5, <3>1 DEF FireProbe, JobUnderWay
    <3>2. CASE ~checking
      <4>1. probe'["job"].at = "asked"
        BY <1>5, <1>p, <3>2 DEF FireProbe, BeginProbe, Probe
      <4> QED BY <4>1 DEF NoProbe
    <3> QED BY <3>1, <3>2
  <2> QED BY <1>w, <2>1, <2>2 DEF JobUnderWay
<1>6. CASE FinishProbe
  <2>1. checking' = FALSE /\ probe'["job"] = NoProbe
    BY <1>6, <1>p DEF FinishProbe, Finish, EndProbe
  <2> QED BY <2>1 DEF JobUnderWay
<1>7. CASE AnswerProbe
  <2>1. UNCHANGED <<checking, due, every>> /\ probe'["job"] = probe["job"] /\ Told(Result("user"))
    BY <1>7, <1>p DEF AnswerProbe, OnDemandCheck, EndProbe
  <2>2. \A p \in Pkgs : wait'[p] <= wait[p]
    BY <1>w, <2>1 DEF Told
  <2> QED BY <1>0, <2>1, <2>2
<1>8. CASE FinishWithout \/ AskFails \/ AskRebootFails \/ NodeFetches \/ TwinRefreshed
  BY <1>8, <1>r DEF FinishWithout, AskFails, AskRebootFails, DropProbe, NodeFetches, TwinRefreshed
<1>9. CASE AskProbe \/ AskReboot \/ AskRebootAnswered
  <2>1. UNCHANGED vars /\ wait' = wait /\ probe'["job"] = probe["job"]
    BY <1>9, <1>p DEF AskProbe, AskReboot, AskRebootAnswered, BeginProbe, EndProbe
  <2> QED BY <1>v, <2>1
<1>10. ASSUME NEW c \in Callers, RunList(c) PROVE JobUnderWay'
  <2>1. UNCHANGED <<checking, due, every>> /\ wait' = wait /\ probe[c].at = "asked"
    BY <1>10 DEF RunList, vars
  <2>2. probe'[c].at = "listed" /\ \A d \in Callers : probe'[d].took = probe[d].took /\ (d # c => probe'[d] = probe[d])
    BY <1>10, <1>p DEF RunList, Probe
  <2>3. probe'["job"] # NoProbe <=> probe["job"] # NoProbe
    <3>1. NoProbe.at = "off"
      BY DEF NoProbe
    <3>2. probe'[c] # NoProbe /\ probe[c] # NoProbe
      BY <2>1, <2>2, <3>1
    <3> QED BY <1>p, <2>2, <3>2
  <2> QED BY <1>0, <1>p, <1>w, <2>1, <2>2, <2>3
<1>11. ASSUME NEW b \in Runners, StartUpgrade(b) \/ BeginTransaction(b) \/ UpgradeTimesOut(b) \/ EndRun(b)
       PROVE  JobUnderWay'
  BY <1>11, <1>v DEF StartUpgrade, BeginTransaction, UpgradeTimesOut, EndRun
<1>12. ASSUME NEW q \in Pkgs, Install(q) \/ RolledOut(q) PROVE JobUnderWay'
  BY <1>12, <1>v DEF Install, RolledOut, appVars
<1>13. ASSUME NEW q \in Pkgs, Publish(q) PROVE JobUnderWay'
  <2>1. UNCHANGED <<checking, due, every>> /\ probe' = probe /\ wait' = [wait EXCEPT ![q] = 0]
    BY <1>13 DEF Publish, appVars, vars
  <2>2. \A p \in Pkgs : wait'[p] <= wait[p]
    <3>1. wait \in [Pkgs -> 0..MaxWait]
      BY CycleTypes
    <3> QED BY <1>w, <2>1, <3>1
  <2> QED BY <1>0, <2>1, <2>2
<1>14. ASSUME NEW ok \in BOOLEAN, EndTransaction(ok) PROVE JobUnderWay'
  BY <1>14, <1>v DEF EndTransaction
<1>15. CASE AutoReboot \/ RebootByHand
  BY <1>15, <1>v DEF AutoReboot, RebootByHand, Boot
<1>16. CASE UNCHANGED cycleVars
  BY <1>16, <1>v DEF cycleVars, appVars
<1> QED
  BY <1>1, <1>2, <1>3, <1>4, <1>5, <1>6, <1>7, <1>8, <1>9, <1>10, <1>11, <1>12, <1>13, <1>14, <1>15, <1>16
  DEF CycleNext

\* For every interval, cache life, duration of a check, package manager and number of
\* packages: however scheduled checks, checks by hand, upgrades and restarts share the
\* cached index, a release is reported within the bound.
THEOREM ToldInTimeHolds == CycleSpec => []ToldInTime
<1>1. CycleInit => InTime
  <2> SUFFICES ASSUME CycleInit PROVE InTime
    OBVIOUS
  <2>1. /\ probe = [c \in Callers |-> NoProbe] /\ ~checking /\ due = NoJob /\ fresh = Never /\ "job" \in Callers
        /\ \A p \in Pkgs : wait[p] = 0
        /\ \A p \in Pkgs : ~Old(p) /\ ~Lacking(p)
    BY DEF CycleInit, Init, Callers, Old, Lacking, Nothing
  <2>2. JobUnderWay
    BY <2>1 DEF JobUnderWay
  <2>3. 0 <= ReportBound(hours)
    <3>1. host.ttl \in Nat /\ CheckTime \in Nat /\ hours \in Nat
      BY HostType, IntervalsAssumption DEF CycleInit, Init
    <3> QED BY <3>1 DEF ReportBound
  <2>4. ASSUME NEW p \in Pkgs PROVE Timely(p)
    BY <2>1, <2>3 DEF Timely
  <2> QED BY <2>2, <2>4 DEF InTime
<1>2. CycleTypeOK /\ CycleTypeOK' /\ IndInv /\ IndInv' /\ UpgradeInv /\ InTime /\ [CycleNext]_cycleVars => InTime'
  <2> SUFFICES ASSUME CycleTypeOK, CycleTypeOK', IndInv, IndInv', UpgradeInv, InTime, [CycleNext]_cycleVars,
                      Reachable'
               PROVE  (JobUnderWay /\ \A p \in Pkgs : Timely(p))'
    BY DEF InTime
  <2>1. Reachable
    BY HostMoves DEF Reachable
  <2>2. TimeFacts /\ JobInPlace /\ hours \in Intervals /\ hours' \in Intervals
    BY TimeTypes DEF IndInv, JobInPlace
  <2>3. TimeFacts'
    <3>1. CycleTypeOK' /\ JobInPlace'
      BY DEF IndInv
    <3>2. CycleTypeOK' /\ JobInPlace' => TimeFacts'
      BY TimeTypes, PTL
    <3> QED BY <3>1, <3>2
  <2>4. JobUnderWay /\ (\A p \in Pkgs : Timely(p)) /\ Ahead /\ Transactions
    BY <2>1 DEF InTime, UpgradeInv
  <2>5. JobUnderWay'
    BY <2>1, <2>2, <2>3, <2>4, JobUnderWayStep
  <2>6. ASSUME NEW p \in Pkgs PROVE Timely(p)'
    BY <2>1, <2>2, <2>3, <2>4, TimelyStep
  <2> QED BY <2>5, <2>6
<1>3. InTime => ToldInTime
  BY DEF InTime, Timely, Reachable, ToldInTime
<1>4. CycleSpec => []IndInv
  BY CycleImplementsSchedule, JobInvariance, PTL
<1> QED BY <1>1, <1>2, <1>3, <1>4, CycleTypeCorrect, RebootInvariance, PTL DEF CycleSpec
===============================================================================
