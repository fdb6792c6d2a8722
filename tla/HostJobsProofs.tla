----------------------------- MODULE HostJobsProofs ------------------------------
(***************************************************************************)
(* Proofs about HostJobs, for any hosts and any number of runs.            *)
(*                                                                         *)
(* The inductive invariant says of every run, alone, what its record r,    *)
(* its entries a in the activity log and what it did to its host, d, owe   *)
(* each other; a step moves one run and leaves the others as they are.     *)
(***************************************************************************)
EXTENDS HostJobs, TLAPS

\* A run that decides about a reboot has recorded its upgrade; one that waits for
\* its node has asked it to reboot.
RunOK(r, a, d) ==
    /\ r \in Job /\ a \in SUBSET Outcomes /\ d \in SUBSET {"upgrade", "reboot"}
    /\ r.phase # "free" => r.host \in Hosts
    /\ a # {} => r.phase \notin {"free", "queued", "running"}
    /\ "upgrade ok" \in a => "upgrade" \in d
    /\ "reboot ok" \in a => "reboot" \in d
    /\ r.phase \in {"done", "deciding", "rebooting"} => a # {}
    /\ r.phase = "waiting" => "reboot" \in d

RunsOK ==
    /\ job \in [JobIds -> Job] /\ activity \in [JobIds -> SUBSET Outcomes]
    /\ did \in [JobIds -> SUBSET {"upgrade", "reboot"}]
    /\ \A j \in JobIds : RunOK(job[j], activity[j], did[j])

HostsOK ==
    /\ entry \in [Hosts -> Entry] /\ server \in BOOLEAN /\ sudo \subseteq Hosts
    /\ boot \in [Hosts -> {"up", "stopping", "down"}] /\ boots \in [Hosts -> Nat]
    /\ rebooted \subseteq Hosts /\ faults \in FaultSets

IndInv == HostsOK /\ RunsOK

\* The invariant implies the two properties.
LEMMA IndInvImplies == IndInv => TypeOK /\ RightlyTold
<1> SUFFICES ASSUME IndInv PROVE TypeOK /\ RightlyTold
  OBVIOUS
<1>1. TypeOK
  BY DEF IndInv, HostsOK, RunsOK, RunOK, TypeOK
<1>2. RightlyTold
  BY DEF IndInv, RunsOK, RunOK, RightlyTold
<1>. QED
  BY <1>1, <1>2

\* The initial states satisfy it.
LEMMA InitInv == Init => IndInv
<1> SUFFICES ASSUME Init PROVE IndInv
  OBVIOUS
<1>1. HostsOK
  BY DEF Init, HostsOK
<1>2. NoJob \in Job
  BY DEF NoJob, Job, Types, Phases, Entry
<1>3. RunsOK
  BY <1>2 DEF Init, RunsOK, RunOK, NoJob
<1>. QED
  BY <1>1, <1>3 DEF IndInv

\* A step that moves run j to r, a, d preserves the invariant of the runs.
LEMMA MoveOne ==
    ASSUME RunsOK, NEW j \in JobIds, NEW r, NEW a, NEW d, RunOK(r, a, d),
           job' = [job EXCEPT ![j] = r], activity' = [activity EXCEPT ![j] = a],
           did' = [did EXCEPT ![j] = d]
    PROVE  RunsOK'
<1>1. r \in Job /\ a \in SUBSET Outcomes /\ d \in SUBSET {"upgrade", "reboot"}
  BY DEF RunOK
<1>2. /\ job' \in [JobIds -> Job] /\ activity' \in [JobIds -> SUBSET Outcomes]
      /\ did' \in [JobIds -> SUBSET {"upgrade", "reboot"}]
  BY <1>1 DEF RunsOK
<1>3. ASSUME NEW i \in JobIds PROVE RunOK(job'[i], activity'[i], did'[i])
  <2>1. CASE i = j
    <3>1. job'[i] = r /\ activity'[i] = a /\ did'[i] = d
      BY <2>1 DEF RunsOK
    <3>. QED
      BY <3>1
  <2>2. CASE i # j
    <3>1. job'[i] = job[i] /\ activity'[i] = activity[i] /\ did'[i] = did[i]
      BY <2>2 DEF RunsOK
    <3>. QED
      BY <3>1 DEF RunsOK
  <2>. QED
    BY <2>1, <2>2
<1>. QED
  BY <1>2, <1>3 DEF RunsOK

\* The record of a run after a change of phase.
LEMMA PhaseChange ==
    ASSUME RunsOK, NEW j \in JobIds, NEW p \in Phases
    PROVE  /\ [job[j] EXCEPT !.phase = p] \in Job
           /\ [job[j] EXCEPT !.phase = p].phase = p
           /\ [job[j] EXCEPT !.phase = p].host = job[j].host
BY DEF RunsOK, Job

\* A run that ends, or goes on, with one more entry o in the log.
LEMMA GotoRecord ==
    ASSUME RunsOK, NEW j \in JobIds, NEW p \in {"deciding", "done"}, NEW o \in Outcomes,
           NEW d \in SUBSET {"upgrade", "reboot"}, did[j] \subseteq d,
           job[j].phase # "free", o = "upgrade ok" => "upgrade" \in d,
           o = "reboot ok" => "reboot" \in d,
           Goto(j, p), Record(j, o), did' = [did EXCEPT ![j] = d]
    PROVE  RunsOK'
<1> DEFINE r == [job[j] EXCEPT !.phase = p]
           a == activity[j] \cup {o}
<1>0. p \in Phases
  BY DEF Phases
<1>1. r \in Job /\ r.phase = p /\ r.host = job[j].host
  BY <1>0, PhaseChange
<1>2. RunOK(job[j], activity[j], did[j])
  BY DEF RunsOK
<1>3. RunOK(r, a, d)
  <2> HIDE DEF r
  <2>. QED
    BY <1>1, <1>2 DEF RunOK
<1>4. job' = [job EXCEPT ![j] = r] /\ activity' = [activity EXCEPT ![j] = a]
  BY DEF Goto, Record
<1>. QED
  BY <1>3, <1>4, MoveOne

\* A run that goes on without a word.
LEMMA GotoOnly ==
    ASSUME RunsOK, NEW j \in JobIds, NEW p \in {"rebooting", "done"},
           job[j].phase = "deciding", Goto(j, p), UNCHANGED <<activity, did>>
    PROVE  RunsOK'
<1> DEFINE r == [job[j] EXCEPT !.phase = p]
           a == activity[j]
           d == did[j]
<1>0. p \in Phases
  BY DEF Phases
<1>1. r \in Job /\ r.phase = p /\ r.host = job[j].host
  BY <1>0, PhaseChange
<1>2. RunOK(job[j], activity[j], did[j])
  BY DEF RunsOK
<1>3. RunOK(r, a, d)
  <2> HIDE DEF r
  <2>. QED
    BY <1>1, <1>2 DEF RunOK
<1>4. /\ job' = [job EXCEPT ![j] = r] /\ activity' = [activity EXCEPT ![j] = a]
      /\ did' = [did EXCEPT ![j] = d]
  BY DEF Goto, RunsOK
<1> HIDE DEF r, a, d
<1>. QED
  BY <1>3, <1>4, MoveOne

\* A new run starts with an empty record.
LEMMA StartRun ==
    ASSUME HostsOK, RunsOK, NEW j \in JobIds, NEW h \in Hosts, NEW type \in Types,
           NEW p \in {"queued", "done"}, NEW a \in SUBSET {"skipped"}, p = "done" <=> a # {},
           job' = [job EXCEPT ![j] = [type |-> type, host |-> h, given |-> entry[h],
                                      phase |-> p, since |-> boots[h]]],
           activity' = [activity EXCEPT ![j] = a], UNCHANGED did
    PROVE  RunsOK'
<1> DEFINE r == [type |-> type, host |-> h, given |-> entry[h], phase |-> p, since |-> boots[h]]
<1>1. r \in Job /\ r.phase = p /\ r.host = h
  BY DEF HostsOK, Job, Phases
<1>2. RunOK(r, a, did[j])
  <2> HIDE DEF r
  <2>. QED
    BY <1>1 DEF RunsOK, RunOK, Outcomes
<1>3. did' = [did EXCEPT ![j] = did[j]]
  BY DEF RunsOK
<1>. QED
  BY <1>2, <1>3, MoveOne

\* Every step preserves the invariant of the hosts.
LEMMA NextHosts == IndInv /\ [Next]_vars => HostsOK'
<1> SUFFICES ASSUME IndInv, [Next]_vars PROVE HostsOK'
  OBVIOUS
<1> USE DEF IndInv, HostsOK, config, machines, history
<1>1. CASE RemoveServer
  BY <1>1 DEF RemoveServer, Entry
<1>2. CASE Stop
  BY <1>2 DEF Stop
<1>3. ASSUME NEW h \in Hosts, AddGuest(h) \/ DeleteHost(h) \/ SaveSudoPassword(h) PROVE HostsOK'
  BY <1>3 DEF AddGuest, DeleteHost, SaveSudoPassword, Entry
<1>4. ASSUME NEW h \in Hosts, GoDown(h) \/ ComeUp(h) PROVE HostsOK'
  BY <1>4 DEF GoDown, ComeUp
<1>5. ASSUME NEW h \in Hosts, NEW user \in {"root", "other"}, UpdateHost(h, user) PROVE HostsOK'
  BY <1>5 DEF UpdateHost, Entry
<1>6. ASSUME NEW j \in JobIds, Step(j) PROVE HostsOK'
  <2>1. ASSUME job[j].phase # "free", AskReboot(j, job[j].host), UNCHANGED <<faults, config, boots>>
        PROVE HostsOK'
    <3>1. job[j].host \in Hosts
      BY <2>1 DEF RunsOK, RunOK
    <3>. QED
      BY <2>1, <3>1 DEF AskReboot
  <2>2. CASE Reboot(j)
    BY <2>1, <2>2 DEF Reboot, AtReboot
  <2>3. CASE RestartNode(j)
    BY <2>1, <2>3 DEF RestartNode
  <2>4. ASSUME UNCHANGED <<faults, config, machines, rebooted>> PROVE HostsOK'
    BY <2>4
  <2>. QED
    BY <1>6, <2>2, <2>3, <2>4
       DEF Step, BeginUpgrade, UpgradeFails, RebootFails, RestartNodeFails, NodeAnswers,
           NodeStaysAway, UpgradeSucceeds, RebootRequired, Finish
<1>7. ASSUME NEW j \in JobIds, NEW h \in Hosts, FireScheduled(j, h) PROVE HostsOK'
  BY <1>7 DEF FireScheduled
<1>8. ASSUME NEW j \in JobIds, NEW h \in Hosts, NEW given \in BOOLEAN, NEW save \in BOOLEAN,
             HostUpdate(j, h, given, save) \/ HostRestart(j, h, given, save)
      PROVE HostsOK'
  BY <1>8 DEF HostUpdate, HostRestart
<1>9. CASE UNCHANGED vars
  BY <1>9 DEF vars
<1> HIDE DEF IndInv, HostsOK, config, machines, history
<1>. QED
  BY <1>1, <1>2, <1>3, <1>4, <1>5, <1>6, <1>7, <1>8, <1>9 DEF Next

\* Every step preserves the invariant of the runs.
LEMMA NextRuns == IndInv /\ [Next]_vars => RunsOK'
<1> SUFFICES ASSUME HostsOK, RunsOK, [Next]_vars PROVE RunsOK'
  BY DEF IndInv
<1>1. ASSUME UNCHANGED <<job, activity, did>> PROVE RunsOK'
  BY <1>1 DEF RunsOK
<1>2. CASE Stop
  <2>1. ASSUME NEW j \in JobIds, job[j].phase \notin {"free", "done"}
        PROVE  RunOK([job[j] EXCEPT !.phase = "lost"], activity[j], did[j])
    <3> DEFINE r == [job[j] EXCEPT !.phase = "lost"]
    <3>1. r \in Job /\ r.phase = "lost" /\ r.host = job[j].host
      BY PhaseChange DEF Phases
    <3>2. RunOK(job[j], activity[j], did[j])
      BY DEF RunsOK
    <3> HIDE DEF r
    <3>3. RunOK(r, activity[j], did[j])
      BY <2>1, <3>1, <3>2 DEF RunOK
    <3>. QED
      BY <3>3 DEF r
  <2>2. ASSUME NEW j \in JobIds PROVE RunOK(job'[j], activity[j], did[j])
    BY <1>2, <2>1 DEF Stop, RunsOK
  <2>3. job' \in [JobIds -> Job]
    <3>1. ASSUME NEW j \in JobIds PROVE job'[j] \in Job
      BY <2>2 DEF RunOK
    <3>. QED
      BY <1>2, <3>1 DEF Stop
  <2>. QED
    BY <1>2, <2>2, <2>3 DEF Stop, RunsOK, history
<1>3. ASSUME NEW j \in JobIds, Step(j) PROVE RunsOK'
  <2>1. RunOK(job[j], activity[j], did[j]) /\ did[j] \in SUBSET {"upgrade", "reboot"}
    BY DEF RunsOK, RunOK
  <2>2. CASE BeginUpgrade(j)
    <3>1. PICK e \in Entry :
            job' = [job EXCEPT ![j] = [job[j] EXCEPT !.phase = "running", !.given = e,
                                                     !.since = boots[job[j].host]]]
      <4>1. job[j].host \in Hosts /\ job[j].given \in Entry
        BY <2>1, <2>2 DEF BeginUpgrade, RunOK, Job
      <4>. QED
        BY <2>2, <4>1 DEF BeginUpgrade, HostsOK
    <3> DEFINE r == [job[j] EXCEPT !.phase = "running", !.given = e, !.since = boots[job[j].host]]
    <3>2. r \in Job /\ r.phase = "running" /\ r.host \in Hosts
      BY <2>1, <2>2 DEF BeginUpgrade, RunOK, HostsOK, Job, Phases
    <3> HIDE DEF r
    <3>3. RunOK(r, activity[j], did[j])
      BY <2>1, <2>2, <3>2 DEF BeginUpgrade, RunOK
    <3>4. /\ job' = [job EXCEPT ![j] = r] /\ activity' = [activity EXCEPT ![j] = activity[j]]
          /\ did' = [did EXCEPT ![j] = did[j]]
      BY <2>2, <3>1 DEF BeginUpgrade, history, RunsOK, r
    <3>. QED
      BY <3>3, <3>4, MoveOne
  <2>3. CASE UpgradeFails(j) \/ RebootFails(j) \/ RestartNodeFails(j) \/ NodeStaysAway(j)
    <3>1. /\ job[j].phase # "free" /\ did' = [did EXCEPT ![j] = did[j]]
          /\ \E o \in {"upgrade failed", "reboot failed"} : Goto(j, "done") /\ Record(j, o)
      BY <2>3 DEF UpgradeFails, RebootFails, RestartNodeFails, NodeStaysAway, AtReboot, Finish,
                  history, RunsOK
    <3>. QED
      BY <2>1, <3>1, GotoRecord DEF Outcomes
  <2>4. CASE NodeAnswers(j)
    <3>1. /\ job[j].phase = "waiting" /\ did' = [did EXCEPT ![j] = did[j]]
          /\ Goto(j, "done") /\ Record(j, "reboot ok")
      BY <2>4 DEF NodeAnswers, Finish, history, RunsOK
    <3>2. "reboot" \in did[j]
      BY <2>1, <3>1 DEF RunOK
    <3>. QED
      BY <2>1, <3>1, <3>2, GotoRecord DEF Outcomes
  <2>5. CASE Reboot(j)
    <3>1. /\ job[j].phase # "free" /\ Goto(j, "done") /\ Record(j, "reboot ok")
          /\ did' = [did EXCEPT ![j] = did[j] \cup {"reboot"}]
      BY <2>5 DEF Reboot, AtReboot, AskReboot
    <3>2. did[j] \cup {"reboot"} \in SUBSET {"upgrade", "reboot"} /\ "reboot ok" \in Outcomes
      BY <2>1 DEF Outcomes
    <3>. QED
      BY <3>1, <3>2, GotoRecord
  <2>6. CASE RestartNode(j)
    <3> DEFINE r == [job[j] EXCEPT !.phase = "waiting", !.since = boots[job[j].host]]
               d == did[j] \cup {"reboot"}
    <3>1. r \in Job /\ r.phase = "waiting" /\ r.host \in Hosts
      BY <2>1, <2>6 DEF RestartNode, RunOK, HostsOK, Job, Phases
    <3>2. /\ job' = [job EXCEPT ![j] = r] /\ activity' = [activity EXCEPT ![j] = activity[j]]
          /\ did' = [did EXCEPT ![j] = d]
      BY <2>6 DEF RestartNode, AskReboot, RunsOK
    <3> HIDE DEF r
    <3>3. RunOK(r, activity[j], d)
      BY <2>1, <2>6, <3>1 DEF RestartNode, RunOK
    <3>. QED
      BY <3>2, <3>3, MoveOne
  <2>7. ASSUME NEW b \in BOOLEAN, UpgradeSucceeds(j, b) PROVE RunsOK'
    <3>1. /\ job[j].phase # "free" /\ Record(j, "upgrade ok")
          /\ did' = [did EXCEPT ![j] = did[j] \cup {"upgrade"}]
          /\ \E p \in {"deciding", "done"} : Goto(j, p)
      BY <2>7 DEF UpgradeSucceeds
    <3>2. did[j] \cup {"upgrade"} \in SUBSET {"upgrade", "reboot"} /\ "upgrade ok" \in Outcomes
      BY <2>1 DEF Outcomes
    <3>. QED
      BY <3>1, <3>2, GotoRecord
  <2>8. ASSUME NEW b \in BOOLEAN, RebootRequired(j, b) PROVE RunsOK'
    <3>1. /\ job[j].phase = "deciding" /\ UNCHANGED <<activity, did>>
          /\ \E p \in {"rebooting", "done"} : Goto(j, p)
      BY <2>8 DEF RebootRequired, history
    <3>. QED
      BY <3>1, GotoOnly
  <2>. QED
    BY <1>3, <2>2, <2>3, <2>4, <2>5, <2>6, <2>7, <2>8 DEF Step
<1>4. ASSUME NEW j \in JobIds, NEW h \in Hosts, FireScheduled(j, h) PROVE RunsOK'
  <2>1. PICK p \in {"queued", "done"}, a \in SUBSET {"skipped"} :
          /\ p = "done" <=> a # {}
          /\ job' = [job EXCEPT ![j] = [type |-> "scheduled", host |-> h, given |-> entry[h],
                                        phase |-> p, since |-> boots[h]]]
          /\ activity' = [activity EXCEPT ![j] = a] /\ UNCHANGED did
    BY <1>4 DEF FireScheduled, history
  <2>. QED
    BY <2>1, StartRun DEF Types
<1>5. ASSUME NEW j \in JobIds, NEW h \in Hosts, NEW type \in Types, NewJob(j, type, h),
             UNCHANGED <<activity, did>>
      PROVE  RunsOK'
  <2>1. activity[j] = {}
    <3>1. job[j].phase = "free"
      BY <1>5 DEF NewJob, NoJob
    <3>2. RunOK(job[j], activity[j], did[j])
      BY DEF RunsOK
    <3>. QED
      BY <3>1, <3>2 DEF RunOK
  <2>2. activity' = [activity EXCEPT ![j] = {}]
    BY <1>5, <2>1 DEF RunsOK
  <2>. QED
    BY <1>5, <2>2, StartRun DEF NewJob
<1>6. ASSUME NEW j \in JobIds, NEW h \in Hosts, NEW given \in BOOLEAN, NEW save \in BOOLEAN,
             HostUpdate(j, h, given, save) \/ HostRestart(j, h, given, save)
      PROVE RunsOK'
  BY <1>5, <1>6 DEF HostUpdate, HostRestart, Types, history
<1>7. CASE UNCHANGED vars
  BY <1>1, <1>7 DEF vars, history
<1>8. ASSUME NEW h \in Hosts,
             \/ AddGuest(h) \/ DeleteHost(h) \/ SaveSudoPassword(h) \/ GoDown(h) \/ ComeUp(h)
             \/ \E user \in {"root", "other"} : UpdateHost(h, user)
      PROVE RunsOK'
  BY <1>1, <1>8 DEF AddGuest, DeleteHost, SaveSudoPassword, GoDown, ComeUp, UpdateHost, history
<1>9. CASE RemoveServer
  BY <1>1, <1>9 DEF RemoveServer, history
<1>. QED
  BY <1>2, <1>3, <1>4, <1>6, <1>7, <1>8, <1>9 DEF Next

\* The invariant holds throughout.
THEOREM Invariance == Spec => []IndInv
<1>1. IndInv /\ [Next]_vars => IndInv'
  BY NextHosts, NextRuns DEF IndInv
<1>. QED
  BY <1>1, InitInv, PTL DEF Spec

\* The state of jobs, log and machines is well-formed, and nothing is on record of a
\* run that has not got that far.
THEOREM TypeCorrect == Spec => []TypeOK
BY IndInvImplies, Invariance, PTL

\* The activity log never claims what was not done, for any number of concurrent
\* dashboard jobs and scheduled runs.
THEOREM RightlyToldHolds == Spec => []RightlyTold
BY IndInvImplies, Invariance, PTL

\* As long as nobody edits its entry, neither the configuration nor any run under
\* way has an SSH user for the node Keepup runs on.
NoUserForSelf ==
    /\ entry[SelfNode] \in {"absent", "typed"}
    /\ \A j \in JobIds : job[j].host = SelfNode => job[j].given \in {"absent", "typed"}
    /\ SelfNode \notin rebooted

\* Every step keeps it so.
LEMMA NextSelf ==
    ASSUME SelfNode \in Hosts, Kind[SelfNode] = "node", "edit" \notin faults,
           IndInv, NoUserForSelf, [Next]_vars
    PROVE  NoUserForSelf'
<1>1. ASSUME UNCHANGED <<entry, job, rebooted>> PROVE NoUserForSelf'
  BY <1>1 DEF NoUserForSelf
<1>2. CASE RemoveServer
  BY <1>2 DEF RemoveServer, NoUserForSelf, IndInv, HostsOK, history
<1>3. CASE Stop
  BY <1>3 DEF Stop, NoUserForSelf, IndInv, RunsOK, Job, config, history
<1>4. ASSUME NEW h \in Hosts,
             \/ AddGuest(h) \/ DeleteHost(h) \/ SaveSudoPassword(h) \/ GoDown(h) \/ ComeUp(h)
             \/ \E user \in {"root", "other"} : UpdateHost(h, user)
      PROVE  NoUserForSelf'
  BY <1>4 DEF AddGuest, DeleteHost, SaveSudoPassword, GoDown, ComeUp, UpdateHost,
              NoUserForSelf, IndInv, HostsOK, config, history
<1>5. ASSUME NEW j \in JobIds, NEW h \in Hosts, NEW type, NEW p, UNCHANGED <<entry, rebooted>>,
             job' = [job EXCEPT ![j] = [type |-> type, host |-> h, given |-> entry[h],
                                        phase |-> p, since |-> boots[h]]]
      PROVE  NoUserForSelf'
  BY <1>5 DEF NoUserForSelf, IndInv, RunsOK
<1>6. ASSUME NEW j \in JobIds, NEW h \in Hosts,
             \/ FireScheduled(j, h)
             \/ \E given, save \in BOOLEAN : HostUpdate(j, h, given, save) \/ HostRestart(j, h, given, save)
      PROVE  NoUserForSelf'
  <2>1. CASE FireScheduled(j, h)
    <3>1. PICK p : job' = [job EXCEPT ![j] = [type |-> "scheduled", host |-> h, given |-> entry[h],
                                              phase |-> p, since |-> boots[h]]]
      BY <2>1 DEF FireScheduled
    <3>2. UNCHANGED <<entry, rebooted>>
      BY <2>1 DEF FireScheduled, config, history
    <3>. QED
      BY <1>5, <3>1, <3>2
  <2>2. ASSUME NEW given \in BOOLEAN, NEW save \in BOOLEAN,
               HostUpdate(j, h, given, save) \/ HostRestart(j, h, given, save)
        PROVE  NoUserForSelf'
    <3>1. PICK type : job' = [job EXCEPT ![j] = [type |-> type, host |-> h, given |-> entry[h],
                                                 phase |-> "queued", since |-> boots[h]]]
      BY <2>2 DEF HostUpdate, HostRestart, NewJob
    <3>2. UNCHANGED <<entry, rebooted>>
      BY <2>2 DEF HostUpdate, HostRestart, history
    <3>. QED
      BY <1>5, <3>1, <3>2
  <2>. QED
    BY <1>6, <2>1, <2>2
<1>7. ASSUME NEW j \in JobIds, Step(j) PROVE NoUserForSelf'
  <2>1. ASSUME NEW p, Goto(j, p), UNCHANGED <<entry, rebooted>> PROVE NoUserForSelf'
    BY <2>1 DEF Goto, NoUserForSelf, IndInv, RunsOK, Job
  <2>2. CASE BeginUpgrade(j)
    <3>1. PICK e : /\ e \in {entry[job[j].host], job[j].given}
                   /\ job' = [job EXCEPT ![j] = [job[j] EXCEPT !.phase = "running", !.given = e,
                                                          !.since = boots[job[j].host]]]
      BY <2>2 DEF BeginUpgrade
    <3>2. UNCHANGED <<entry, rebooted>>
      BY <2>2 DEF BeginUpgrade, config, history
    <3>. QED
      BY <3>1, <3>2 DEF NoUserForSelf, IndInv, RunsOK, Job
  <2>3. CASE Reboot(j)
    <3>1. job[j].host # SelfNode
      <4> SUFFICES ASSUME job[j].host = SelfNode PROVE FALSE
        OBVIOUS
      <4>1. job[j].given \in {"absent", "typed"}
        BY DEF NoUserForSelf
      <4>2. CASE ResolveKind(SelfNode, job[j].given) = "node"
        BY <2>3, <4>2 DEF Reboot
      <4>3. CASE ResolveKind(SelfNode, job[j].given) = "plain"
        BY <2>3, <4>1, <4>3 DEF Reboot, Connects
      <4>. QED
        BY <4>2, <4>3 DEF ResolveKind
    <3>2. SelfNode \notin rebooted'
      BY <2>3, <3>1 DEF Reboot, AskReboot, NoUserForSelf
    <3>. QED
      BY <2>3, <3>2 DEF Reboot, Goto, NoUserForSelf, IndInv, RunsOK, Job, config
  <2>4. CASE RestartNode(j)
    BY <2>4 DEF RestartNode, AskReboot, NoUserForSelf, IndInv, RunsOK, Job, config
  <2>5. CASE UpgradeFails(j) \/ RebootFails(j) \/ RestartNodeFails(j) \/ NodeAnswers(j) \/ NodeStaysAway(j)
    BY <2>1, <2>5 DEF UpgradeFails, RebootFails, RestartNodeFails, NodeAnswers, NodeStaysAway,
                      Finish, config, history
  <2>6. ASSUME NEW b \in BOOLEAN, UpgradeSucceeds(j, b) \/ RebootRequired(j, b) PROVE NoUserForSelf'
    BY <2>1, <2>6 DEF UpgradeSucceeds, RebootRequired, config, history
  <2>. QED
    BY <1>7, <2>2, <2>3, <2>4, <2>5, <2>6 DEF Step
<1>8. CASE UNCHANGED vars
  BY <1>1, <1>8 DEF vars, config, history
<1>. QED
  BY <1>2, <1>3, <1>4, <1>6, <1>7, <1>8 DEF Next

\* What may come between is the same throughout a behaviour.
LEMMA FaultsFixed == [Next]_vars => faults' = faults
<1> SUFFICES ASSUME [Next]_vars PROVE faults' = faults
  OBVIOUS
<1>1. CASE RemoveServer \/ Stop
  BY <1>1 DEF RemoveServer, Stop
<1>2. ASSUME NEW h \in Hosts,
             \/ AddGuest(h) \/ DeleteHost(h) \/ SaveSudoPassword(h) \/ GoDown(h) \/ ComeUp(h)
             \/ \E user \in {"root", "other"} : UpdateHost(h, user)
      PROVE  faults' = faults
  BY <1>2 DEF AddGuest, DeleteHost, SaveSudoPassword, GoDown, ComeUp, UpdateHost
<1>3. ASSUME NEW j \in JobIds, Step(j) PROVE faults' = faults
  BY <1>3 DEF Step, BeginUpgrade, UpgradeFails, UpgradeSucceeds, RebootRequired, Reboot, RebootFails,
              RestartNode, RestartNodeFails, NodeAnswers, NodeStaysAway
<1>4. ASSUME NEW j \in JobIds, NEW h \in Hosts,
             \/ FireScheduled(j, h)
             \/ \E given, save \in BOOLEAN : HostUpdate(j, h, given, save) \/ HostRestart(j, h, given, save)
      PROVE  faults' = faults
  BY <1>4 DEF FireScheduled, HostUpdate, HostRestart
<1>5. CASE UNCHANGED vars
  BY <1>5 DEF vars
<1>. QED
  BY <1>1, <1>2, <1>3, <1>4, <1>5 DEF Next

\* Unless its entry is edited, the node Keepup runs on is never asked to reboot, by
\* any number of jobs and scheduled runs and whenever its server is removed.
THEOREM SelfSparedHolds ==
    ASSUME SelfNode \in Hosts, Kind[SelfNode] = "node"
    PROVE  Spec => []SelfSpared
<1> DEFINE SelfInv == "edit" \notin faults => NoUserForSelf
<1>1. Init => SelfInv
  BY DEF Init, NoUserForSelf, NoJob
<1>2. IndInv /\ SelfInv /\ [Next]_vars => SelfInv'
  BY NextSelf, FaultsFixed
<1>3. SelfInv => SelfSpared
  BY DEF NoUserForSelf, SelfSpared
<1> HIDE DEF SelfInv
<1>. QED
  BY <1>1, <1>2, <1>3, Invariance, PTL DEF Spec
===============================================================================
