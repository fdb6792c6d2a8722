--------------------------- MODULE ContainerProofs ----------------------------
(***************************************************************************)
(* The safety of the container inventory and of the updates started from   *)
(* it: ContainerInventory and StandaloneUpdate, one section each.          *)
(***************************************************************************)
EXTENDS StandaloneUpdate, ContainerInventory, TLAPS

-------------------------------------------------------------------------------
(***************************************************************************)
(* What a scan reports and what is monitored: any hosts, containers and    *)
(* stacks, any number of overlapping scans, any world.                     *)
(***************************************************************************)
ListedProjects == {s[2] : s \in listed}

Told(r) == {s[2] : s \in r.stacks}

Goes(r) == r.left # {} \/ r.pending

\* While nothing changes, a scan's two views of Portainer are the same one, and with
\* Portainer connected it does not go on to the hosts, short of a failure, before it
\* knows the stacks.
Agrees(r) ==
    /\ r.known = "asking" => r.left # {}
    /\ Goes(r) /\ r.calm =>
        /\ r.pending \/ r.known # "unknown" \/ r.portainer # {} => connected
        /\ r.known = "known" => r.stacks = listed
        /\ r.portainer \subseteq ListedProjects
        /\ connected /\ r.complete =>
             /\ r.left # {} => r.known # "unknown"
             /\ ~r.pending => ListedProjects \ OwnProject \subseteq r.portainer

\* A container of a host that has answered is reported, or its stack is one that
\* Portainer has; and Portainer's stacks are reported when Portainer has answered.
Covers(r) ==
    r.calm /\ r.complete =>
        /\ \A x \in Containers :
             r.snap[HostOf[x]].mode = "all" /\ ~Own(x) /\ HostOf[x] \notin r.left
                 => x \in r.ssh \/ (r.known = "known" /\ ProjectOf[x] \in Told(r))
        /\ ~r.pending /\ r.known = "known" => Told(r) \ OwnProject \subseteq r.portainer

\* What the SSH backend has reported is not a stack that Portainer has.
Apart(r) ==
    ~May("recreate") /\ r.calm =>
        \A x \in Containers :
            x \in r.ssh /\ HostOf[x] \in world.agents =>
                /\ ProjectOf[x] \notin r.portainer
                /\ Goes(r) /\ connected => ProjectOf[x] \notin ListedProjects

\* Stacks that were not created anew have the id of their project's path.
PathsTrue == ~May("recreate") => \A s \in listed : s[1] = PathId[s[2]]

Others(h) == {x \in On(h) : ~Own(x)}

NoNewChoice == world.may \cap {"save", "edit host", "ps fails"} = {}

\* Settings a scan has read and not yet used choose what the administrator chose.
Faithful(r) ==
    NoNewChoice =>
        \A h \in r.left \ world.agents :
            Monitored(r.snap[h], Others(h)) = Monitored(choice[h], Others(h))

InventoryInv ==
    /\ InventoryTypeOK /\ PathsTrue /\ ChoiceKept
    /\ \A c \in Scans : Agrees(scan[c]) /\ Covers(scan[c]) /\ Apart(scan[c]) /\ Faithful(scan[c])

-------------------------------------------------------------------------------
\* The settings of a host by form.
LEMMA MonitoredAs ==
    ASSUME NEW settings \in Settings, NEW seen
    PROVE  /\ Monitored(settings, seen) \subseteq seen
           /\ settings.mode = "all" => Monitored(settings, seen) = seen
           /\ settings.mode = "selected" /\ settings.by = "containers"
                => Monitored(settings, seen) = seen \cap settings.containers
<1>1. settings.mode \in {"off", "all", "selected"} /\ settings.by \in {"containers", "stacks"}
  BY DEF Settings
<1>2. CASE settings.mode = "all"
  BY <1>2 DEF Monitored
<1>3. CASE settings.mode = "selected" /\ settings.by = "stacks"
  BY <1>3 DEF Monitored
<1>4. CASE settings.mode # "all" /\ ~(settings.mode = "selected" /\ settings.by = "stacks")
  BY <1>4 DEF Monitored
<1> QED BY <1>1, <1>2, <1>3, <1>4

\* Settings rewritten to names choose the containers of those names.
LEMMA Rewritten ==
    ASSUME NEW S \in SUBSET Containers, NEW seen, S \subseteq seen
    PROVE  Selected(S) \in Settings /\ Monitored(Selected(S), seen) = S
<1>1. /\ Selected(S) \in Settings /\ Selected(S).mode = "selected" /\ Selected(S).by = "containers"
      /\ Selected(S).containers = S
  BY DEF Selected, Off, Settings
<1> QED BY <1>1, MonitoredAs

\* An entry of Portainer's is a pair of id and project.
LEMMA ListedPair ==
    ASSUME NEW s \in StackIds \X Projects PROVE \E i \in StackIds, p \in Projects : s = <<i, p>>
OBVIOUS

\* A host without an agent answers for all its containers but Keepup's own.
LEMMA QualifyingHere ==
    ASSUME NEW c \in Scans, NEW h \in Hosts
    PROVE  /\ Qualifying(c, h) \subseteq Others(h) /\ Qualifying(c, h) \subseteq Containers
           /\ h \notin world.agents => Qualifying(c, h) = Others(h)
BY DEF Qualifying, Managed, Others, On

\* What a host may be set to before the first scan is a setting.
LEMMA FirstSettings ==
    /\ Off \in Settings
    /\ {Off, All} \cup (IF May("old settings") THEN {ByStacks(P) : P \in SUBSET Projects} ELSE {})
         \subseteq Settings
<1>1. Off \in Settings /\ All \in Settings
  BY DEF Off, All, Settings
<1>2. ASSUME NEW P \in SUBSET Projects PROVE ByStacks(P) \in Settings
  BY DEF Off, ByStacks, Settings
<1>3. {ByStacks(P) : P \in SUBSET Projects} \subseteq Settings
  BY <1>2
<1>4. CASE May("old settings")
  BY <1>1, <1>3, <1>4
<1>5. CASE ~May("old settings")
  BY <1>1, <1>5
<1> QED BY <1>1, <1>4, <1>5

\* A fresh start: no scan has run.
LEMMA InventoryInitInv == InventoryInit => InventoryInv
<1> SUFFICES ASSUME InventoryInit PROVE InventoryInv
  OBVIOUS
<1> USE ContainersAssumption, StacksAssumption, WorldsAssumption DEF InventoryInit
<1>1. NotRun \in Scan
  BY FirstSettings DEF NotRun, Scan
<1>2. ASSUME NEW s \in listed PROVE s \in StackIds \X Projects /\ s[1] = PathId[s[2]]
  <2>1. PICK p \in Projects : PathId[p] # NoPath /\ s = <<PathId[p], p>>
    OBVIOUS
  <2>2. PathId[p] \in StackIds
    BY <2>1
  <2> QED BY <2>1, <2>2
<1>3. InventoryTypeOK
  <2>1. monitor \in [Hosts -> Settings]
    BY FirstSettings
  <2>2. listed \subseteq StackIds \X Projects
    BY <1>2
  <2>3. scan \in [Scans -> Scan]
    BY <1>1
  <2> QED BY <2>1, <2>2, <2>3 DEF InventoryTypeOK
<1>4. PathsTrue /\ ChoiceKept
  BY <1>2 DEF PathsTrue, ChoiceKept, SameChoice
<1>5. Agrees(NotRun) /\ Covers(NotRun) /\ Apart(NotRun) /\ Faithful(NotRun)
  BY DEF NotRun, Agrees, Covers, Apart, Faithful, Goes, Off
<1> QED BY <1>3, <1>4, <1>5 DEF InventoryInv

\* A change from outside: a scan that is under way is no longer calm, one that is
\* through stays as it is.
LEMMA DisturbedSound ==
    ASSUME InventoryInv, InventoryTypeOK', Disturb, world' = world, NoNewChoice => choice' = choice
    PROVE  \A c \in Scans :
             /\ Agrees(scan[c])' /\ Covers(scan[c])' /\ Apart(scan[c])' /\ Faithful(scan[c])'
<1> SUFFICES ASSUME NEW c \in Scans
             PROVE  Agrees(scan[c])' /\ Covers(scan[c])' /\ Apart(scan[c])' /\ Faithful(scan[c])'
  OBVIOUS
<1> USE DEF InventoryInv, InventoryTypeOK
<1>1. CASE Goes(scan[c])
  <2>1. scan'[c] = [scan[c] EXCEPT !.calm = FALSE]
    BY <1>1 DEF Disturb, Running, Goes
  <2>2. /\ scan'[c].calm = FALSE /\ scan'[c].known = scan[c].known /\ scan'[c].left = scan[c].left
        /\ scan'[c].snap = scan[c].snap
    BY <2>1 DEF Scan
  <2> QED BY <2>2 DEF Agrees, Covers, Apart, Faithful, NoNewChoice
<1>2. CASE ~Goes(scan[c])
  <2>1. scan'[c] = scan[c]
    BY <1>2 DEF Disturb, Running, Goes
  <2> QED BY <1>2, <2>1 DEF Agrees, Covers, Apart, Faithful, Goes, May, Told, NoNewChoice
<1> QED BY <1>1, <1>2

\* A step of one scan leaves the others alone.
LEMMA OneScanMoves ==
    ASSUME InventoryInv, NEW c \in Scans, NEW r \in Scan, scan' = [scan EXCEPT ![c] = r],
           UNCHANGED <<connected, listed, choice, world>>,
           monitor' \in [Hosts -> Settings], ChoiceKept',
           Agrees(r), Covers(r), Apart(r), Faithful(r)
    PROVE  InventoryInv'
<1> USE DEF InventoryInv
<1>1. InventoryTypeOK' /\ PathsTrue'
  BY DEF InventoryTypeOK, PathsTrue, May
<1>2. ASSUME NEW d \in Scans
      PROVE  Agrees(scan[d])' /\ Covers(scan[d])' /\ Apart(scan[d])' /\ Faithful(scan[d])'
  <2> DEFINE q == IF d = c THEN r ELSE scan[d]
  <2>1. scan'[d] = q
    BY DEF InventoryTypeOK
  <2>2. Agrees(q) /\ Covers(q) /\ Apart(q) /\ Faithful(q)
    OBVIOUS
  <2> HIDE DEF q
  <2> QED BY <2>1, <2>2 DEF Agrees, Covers, Apart, Faithful, Goes, May, Told, NoNewChoice,
  ListedProjects
<1> QED BY <1>1, <1>2

\* A host is listed: in full, or not at all if `docker ps` fails.
LEMMA ListingSound ==
    ASSUME InventoryInv, NEW c \in Scans, NEW h \in scan[c].left, scan[c].known # "asking",
           NEW seen \in {{}, Qualifying(c, h)}, seen # Qualifying(c, h) => May("ps fails"),
           ContainersForHost(c, h, seen), UNCHANGED <<connected, listed, choice, world>>
    PROVE  InventoryInv'
<1> USE ContainersAssumption, StacksAssumption, WorldsAssumption DEF InventoryInv
<1>0. /\ scan[c] \in Scan /\ h \in Hosts /\ scan[c].snap \in [Hosts -> Settings]
      /\ monitor \in [Hosts -> Settings] /\ choice \in [Hosts -> Settings]
      /\ listed \subseteq StackIds \X Projects /\ scan \in [Scans -> Scan]
  BY DEF InventoryTypeOK, Scan
<1> DEFINE settings == scan[c].snap[h]
           M == Monitored(settings, seen)
           r == [scan[c] EXCEPT !.left = @ \ {h}, !.ssh = @ \cup M,
                                !.complete = @ /\ seen = Qualifying(c, h)]
<1>1. M \subseteq seen /\ seen \subseteq Containers /\ (settings.mode = "all" => M = seen)
  BY <1>0, MonitoredAs, QualifyingHere
<1> HIDE DEF M
<1>2. scan' = [scan EXCEPT ![c] = r]
  BY <1>0 DEF ContainersForHost, M
<1>3. r \in Scan
  BY <1>0, <1>1 DEF Scan
<1>4. /\ r.snap = scan[c].snap /\ r.known = scan[c].known /\ r.stacks = scan[c].stacks
      /\ r.left = scan[c].left \ {h} /\ r.pending = scan[c].pending
      /\ r.ssh = scan[c].ssh \cup M /\ r.portainer = scan[c].portainer
      /\ r.calm = scan[c].calm
  BY <1>0 DEF Scan
<1>5. r.complete => scan[c].complete /\ seen = Qualifying(c, h)
  BY <1>0 DEF Scan
<1> HIDE DEF r
<1>6. Goes(r) => Goes(scan[c])
  BY <1>4 DEF Goes
<1>7. Agrees(r)
  BY <1>4, <1>5, <1>6 DEF Agrees
<1>8. Covers(r)
  <2> SUFFICES ASSUME r.calm, r.complete
               PROVE  /\ \A x \in Containers :
                           r.snap[HostOf[x]].mode = "all" /\ ~Own(x) /\ HostOf[x] \notin r.left
                               => x \in r.ssh \/ (r.known = "known" /\ ProjectOf[x] \in Told(r))
                      /\ ~r.pending /\ r.known = "known" => Told(r) \ OwnProject \subseteq r.portainer
    BY DEF Covers
  <2>1. Told(r) = Told(scan[c])
    BY <1>4 DEF Told
  <2>2. ASSUME NEW x \in Containers, r.snap[HostOf[x]].mode = "all", ~Own(x), HostOf[x] \notin r.left
        PROVE  x \in r.ssh \/ (r.known = "known" /\ ProjectOf[x] \in Told(r))
    <3>1. CASE HostOf[x] \notin scan[c].left
      BY <1>4, <1>5, <2>1, <2>2, <3>1 DEF Covers
    <3>2. CASE HostOf[x] = h
      <4>1. CASE x \in Qualifying(c, h)
        BY <1>1, <1>4, <1>5, <2>2, <3>2, <4>1
      <4>2. CASE x \notin Qualifying(c, h)
        <5>1. connected /\ ProjectOf[x] \in Managed(c, h)
          BY <2>2, <3>2, <4>2 DEF Qualifying, On
        <5>2. Goes(scan[c]) /\ scan[c].calm /\ scan[c].complete /\ scan[c].known # "unknown"
          BY <1>4, <1>5, <5>1 DEF Goes, Agrees
        <5>3. scan[c].known = "known"
          BY <1>0, <5>2 DEF Scan
        <5>4. <<PathId[ProjectOf[x]], ProjectOf[x]>> \in scan[c].stacks
          BY <5>1, <5>3 DEF Managed
        <5>5. ProjectOf[x] \in Told(scan[c])
          <6>1. <<PathId[ProjectOf[x]], ProjectOf[x]>>[2] = ProjectOf[x]
            OBVIOUS
          <6> QED BY <5>4, <6>1, Zenon DEF Told
        <5> QED BY <1>4, <2>1, <5>3, <5>5
      <4> QED BY <4>1, <4>2
    <3> QED BY <1>4, <2>2, <3>1, <3>2
  <2>3. ~r.pending /\ r.known = "known" => Told(r) \ OwnProject \subseteq r.portainer
    BY <1>4, <1>5, <2>1 DEF Covers
  <2> QED BY <2>2, <2>3
<1>9. Apart(r)
  <2> SUFFICES ASSUME ~May("recreate"), r.calm, NEW x \in Containers, x \in r.ssh,
                      HostOf[x] \in world.agents
               PROVE  /\ ProjectOf[x] \notin r.portainer
                      /\ Goes(r) /\ connected => ProjectOf[x] \notin ListedProjects
    BY DEF Apart
  <2>1. CASE x \in scan[c].ssh
    BY <1>4, <1>6, <2>1 DEF Apart
  <2>2. CASE x \in seen
    <3>1. Goes(scan[c]) /\ scan[c].calm
      BY <1>4 DEF Goes
    <3>2. x \in Qualifying(c, h) /\ HostOf[x] = h
      <4>1. x \in Qualifying(c, h)
        BY <2>2
      <4> QED BY <4>1 DEF Qualifying, On
    <3>3. connected => ProjectOf[x] \notin ListedProjects
      <4> SUFFICES ASSUME connected, ProjectOf[x] \in ListedProjects PROVE FALSE
        OBVIOUS
      <4>1. PICK s \in listed : ProjectOf[x] = s[2]
        BY DEF ListedProjects
      <4>2. s \in StackIds \X Projects /\ s[1] = PathId[s[2]]
        BY <1>0 DEF PathsTrue
      <4>3. <<PathId[ProjectOf[x]], ProjectOf[x]>> \in listed /\ PathId[ProjectOf[x]] # NoPath
        <5>1. PICK i \in StackIds, p \in Projects : s = <<i, p>>
          BY <4>2, ListedPair
        <5>2. s[1] = i /\ s[2] = p
          BY <5>1
        <5>3. ProjectOf[x] = p /\ PathId[ProjectOf[x]] = i
          BY <4>1, <4>2, <5>2
        <5> QED BY <5>1, <5>3
      <4>4. ProjectOf[x] \in ProjectsOn(h)
        BY <3>2, <4>1, <4>2 DEF ProjectsOn, On
      <4>5. scan[c].known = "known" => scan[c].stacks = listed
        BY <3>1 DEF Agrees
      <4>6. ProjectOf[x] \in Managed(c, h)
        BY <3>2, <4>3, <4>4, <4>5 DEF Managed
      <4> QED BY <3>2, <4>6 DEF Qualifying
    <3>4. ProjectOf[x] \in scan[c].portainer => connected /\ ProjectOf[x] \in ListedProjects
      BY <3>1 DEF Agrees
    <3> QED BY <1>4, <3>3, <3>4
  <2> QED BY <1>1, <1>4, <2>1, <2>2
<1>10. Faithful(r)
  BY <1>4 DEF Faithful
<1>11. monitor' \in [Hosts -> Settings]
  <2>1. Selected(M) \in Settings
    BY <1>1, Rewritten
  <2> QED BY <1>0, <2>1 DEF ContainersForHost, M
<1>12. ChoiceKept'
  <2> SUFFICES ASSUME NoNewChoice, NEW g \in Hosts \ world.agents
               PROVE  Monitored(monitor'[g], Others(g)) = Monitored(choice[g], Others(g))
    BY DEF ChoiceKept, SameChoice, NoNewChoice, Others
  <2>1. Monitored(monitor[g], Others(g)) = Monitored(choice[g], Others(g))
    BY DEF ChoiceKept, SameChoice, NoNewChoice, Others
  <2>2. CASE monitor'[g] = monitor[g]
    BY <2>1, <2>2
  <2>3. CASE monitor'[g] # monitor[g]
    <3>1. g = h /\ monitor'[g] = Selected(M)
      BY <1>0, <2>3 DEF ContainersForHost, M
    <3>2. seen = Others(h)
      BY <1>0, <3>1, QualifyingHere DEF NoNewChoice, May
    <3>3. Monitored(Selected(M), Others(h)) = M
      BY <1>1, <3>2, Rewritten
    <3>4. M = Monitored(choice[h], Others(h))
      BY <3>1, <3>2 DEF Faithful, M
    <3> QED BY <3>1, <3>3, <3>4
  <2> QED BY <2>2, <2>3
<1> QED BY <1>2, <1>3, <1>7, <1>8, <1>9, <1>10, <1>11, <1>12, OneScanMoves

\* Every change of settings, stacks and connection and every step of every scan
\* keeps the invariant.
LEMMA InventoryStepInv == InventoryInv /\ [InventoryNext]_inventoryVars => InventoryInv'
<1> SUFFICES ASSUME InventoryInv, [InventoryNext]_inventoryVars PROVE InventoryInv'
  OBVIOUS
<1> USE ContainersAssumption, StacksAssumption, WorldsAssumption
<1>0. /\ scan \in [Scans -> Scan] /\ monitor \in [Hosts -> Settings] /\ choice \in [Hosts -> Settings]
      /\ connected \in BOOLEAN /\ listed \subseteq StackIds \X Projects /\ world \in World
      /\ world.scans \subseteq Scans
  BY DEF InventoryInv, InventoryTypeOK, World
<1>a. ASSUME Disturb PROVE scan' \in [Scans -> Scan]
  <2>1. ASSUME NEW c \in Scans PROVE [scan[c] EXCEPT !.calm = FALSE] \in Scan
    <3>1. scan[c] \in Scan
      BY <1>0
    <3> QED BY <3>1 DEF Scan
  <2> QED BY <1>0, <1>a, <2>1 DEF Disturb
<1>1. ASSUME NEW h \in Hosts, NEW settings \in Settings, SetDockerMonitoring(h, settings)
      PROVE  InventoryInv'
  <2>1. InventoryTypeOK' /\ world' = world /\ ~NoNewChoice
    BY <1>0, <1>1, <1>a DEF SetDockerMonitoring, InventoryTypeOK, NoNewChoice, May
  <2>2. PathsTrue' /\ ChoiceKept'
    BY <1>1, <2>1 DEF SetDockerMonitoring, InventoryInv, PathsTrue, ChoiceKept, NoNewChoice, May
  <2> QED BY <1>1, <2>1, <2>2, DisturbedSound DEF SetDockerMonitoring, InventoryInv
<1>2. ASSUME NEW h \in Hosts, UpdateHost(h) PROVE InventoryInv'
  <2>0. monitor' \in [Hosts -> Settings]
    <3>1. monitor[h] \in Settings
      BY <1>0
    <3>2. [monitor[h] EXCEPT !.containers = {}] \in Settings
      BY <3>1 DEF Settings
    <3> QED BY <1>0, <1>2, <3>2 DEF UpdateHost
  <2>1. InventoryTypeOK' /\ world' = world /\ ~NoNewChoice
    BY <1>0, <1>2, <1>a, <2>0 DEF UpdateHost, InventoryTypeOK, NoNewChoice, May
  <2>2. PathsTrue' /\ ChoiceKept'
    BY <1>2, <2>1 DEF UpdateHost, InventoryInv, PathsTrue, ChoiceKept, NoNewChoice, May
  <2> QED BY <1>2, <2>1, <2>2, DisturbedSound DEF UpdateHost, InventoryInv
<1>3. ASSUME ConnectPortainer PROVE InventoryInv'
  <2>1. InventoryTypeOK' /\ world' = world /\ choice' = choice
    BY <1>0, <1>3, <1>a DEF ConnectPortainer, InventoryTypeOK
  <2>2. PathsTrue' /\ ChoiceKept'
    BY <1>3 DEF ConnectPortainer, InventoryInv, PathsTrue, ChoiceKept, SameChoice, May
  <2> QED BY <1>3, <2>1, <2>2, DisturbedSound DEF ConnectPortainer, InventoryInv
<1>4. ASSUME NEW s \in listed, Unlist(s) PROVE InventoryInv'
  <2>1. InventoryTypeOK' /\ world' = world /\ choice' = choice
    BY <1>0, <1>4, <1>a DEF Unlist, InventoryTypeOK
  <2>2. PathsTrue' /\ ChoiceKept'
    BY <1>4 DEF Unlist, InventoryInv, PathsTrue, ChoiceKept, SameChoice, May
  <2> QED BY <1>4, <2>1, <2>2, DisturbedSound DEF Unlist, InventoryInv
<1>5. ASSUME NEW i \in StackIds, NEW p \in Projects, Enlist(i, p) PROVE InventoryInv'
  <2>1. InventoryTypeOK' /\ world' = world /\ choice' = choice
    BY <1>0, <1>5, <1>a DEF Enlist, InventoryTypeOK
  <2>2. PathsTrue' /\ ChoiceKept'
    <3>1. ASSUME ~May("recreate"), NEW s \in listed' PROVE s[1] = PathId[s[2]]
      <4>1. CASE s \in listed
        BY <3>1, <4>1 DEF InventoryInv, PathsTrue
      <4>2. CASE s = <<i, p>>
        <5>1. i = PathId[p]
          BY <1>5, <3>1 DEF Enlist
        <5> QED BY <4>2, <5>1
      <4> QED BY <1>5, <4>1, <4>2 DEF Enlist
    <3>2. PathsTrue'
      BY <2>1, <3>1 DEF PathsTrue, May
    <3> QED BY <1>5, <3>2 DEF Enlist, InventoryInv, ChoiceKept, SameChoice, May
  <2> QED BY <1>5, <2>1, <2>2, DisturbedSound DEF Enlist, InventoryInv
<1>6. ASSUME NEW c \in Scans, BeginScan(c) PROVE InventoryInv'
  <2> DEFINE r == [NotRun EXCEPT !.snap = monitor, !.left = DockerHosts, !.pending = connected,
                                 !.known = IF connected /\ DockerHosts # {} THEN "asking" ELSE "unknown"]
  <2>1. scan' = [scan EXCEPT ![c] = r]
    BY <1>6 DEF BeginScan
  <2>2. r \in Scan
    BY <1>0 DEF NotRun, Scan, DockerHosts
  <2>3. /\ r.snap = monitor /\ r.left = DockerHosts /\ r.pending = connected /\ r.ssh = {}
        /\ r.known = IF connected /\ DockerHosts # {} THEN "asking" ELSE "unknown"
        /\ r.portainer = {}
    BY <1>0 DEF NotRun
  <2> HIDE DEF r
  <2>4. Agrees(r)
    BY <2>3 DEF Agrees, Goes
  <2>5. Covers(r) /\ Apart(r)
    BY <2>3 DEF Covers, Apart, DockerHosts
  <2>6. Faithful(r)
    BY <2>3 DEF Faithful, NoNewChoice, InventoryInv, ChoiceKept, SameChoice, Others, DockerHosts
  <2>7. UNCHANGED <<monitor, connected, listed, choice, world>>
    BY <1>6 DEF BeginScan
  <2>8. ChoiceKept'
    BY <2>7 DEF InventoryInv, ChoiceKept, SameChoice
  <2> QED BY <1>0, <2>1, <2>2, <2>4, <2>5, <2>6, <2>7, <2>8, OneScanMoves
<1>7. ASSUME NEW c \in Scans, PortainerStacks(c) PROVE InventoryInv'
  <2>0. scan[c] \in Scan /\ Agrees(scan[c]) /\ Covers(scan[c]) /\ Apart(scan[c]) /\ Faithful(scan[c])
    BY <1>0 DEF InventoryInv
  <2>1. UNCHANGED <<monitor, connected, listed, choice, world>> /\ scan[c].known = "asking"
    BY <1>7 DEF PortainerStacks
  <2>2. ChoiceKept'
    BY <2>1 DEF InventoryInv, ChoiceKept, SameChoice
  <2>3. CASE scan' = [scan EXCEPT ![c].known = "known", ![c].stacks = listed]
    <3> DEFINE r == [scan[c] EXCEPT !.known = "known", !.stacks = listed]
    <3>1. scan' = [scan EXCEPT ![c] = r] /\ r \in Scan
      BY <1>0, <2>0, <2>3 DEF Scan
    <3>2. /\ r.snap = scan[c].snap /\ r.known = "known" /\ r.stacks = listed
          /\ r.left = scan[c].left /\ r.pending = scan[c].pending
          /\ r.ssh = scan[c].ssh /\ r.portainer = scan[c].portainer
          /\ r.calm = scan[c].calm /\ r.complete = scan[c].complete
      BY <2>0 DEF Scan
    <3> HIDE DEF r
    <3>3. Agrees(r) /\ Apart(r) /\ Faithful(r)
      BY <2>0, <2>1, <3>2 DEF Agrees, Apart, Faithful, Goes
    <3>4. Covers(r)
      BY <2>0, <2>1, <3>2 DEF Agrees, Covers, Goes, Told, ListedProjects
    <3> QED BY <1>0, <2>1, <2>2, <3>1, <3>3, <3>4, OneScanMoves
  <2>4. CASE scan' = [scan EXCEPT ![c].known = "unknown", ![c].complete = FALSE]
    <3> DEFINE r == [scan[c] EXCEPT !.known = "unknown", !.complete = FALSE]
    <3>1. scan' = [scan EXCEPT ![c] = r] /\ r \in Scan
      BY <1>0, <2>0, <2>4 DEF Scan
    <3>2. /\ r.snap = scan[c].snap /\ r.known = "unknown" /\ r.stacks = scan[c].stacks
          /\ r.left = scan[c].left /\ r.pending = scan[c].pending
          /\ r.ssh = scan[c].ssh /\ r.portainer = scan[c].portainer
          /\ r.calm = scan[c].calm /\ r.complete = FALSE
      BY <2>0 DEF Scan
    <3> HIDE DEF r
    <3>3. Agrees(r) /\ Apart(r) /\ Faithful(r) /\ Covers(r)
      BY <2>0, <2>1, <3>2 DEF Agrees, Apart, Faithful, Covers, Goes
    <3> QED BY <1>0, <2>1, <2>2, <3>1, <3>3, OneScanMoves
  <2> QED BY <1>7, <2>3, <2>4 DEF PortainerStacks
<1>8. ASSUME NEW c \in Scans, PortainerAnswers(c) PROVE InventoryInv'
  <2>0. scan[c] \in Scan /\ Agrees(scan[c]) /\ Covers(scan[c]) /\ Apart(scan[c]) /\ Faithful(scan[c])
    BY <1>0 DEF InventoryInv
  <2>1. UNCHANGED <<monitor, connected, listed, choice, world>> /\ scan[c].pending
    BY <1>8 DEF PortainerAnswers
  <2>2. ChoiceKept'
    BY <2>1 DEF InventoryInv, ChoiceKept, SameChoice
  <2>3. PICK own \in {OwnProject, {}} :
          scan' = [scan EXCEPT ![c].pending = FALSE, ![c].portainer = ListedProjects \ own]
    BY <1>8 DEF PortainerAnswers, ListedProjects
  <2> DEFINE r == [scan[c] EXCEPT !.pending = FALSE, !.portainer = ListedProjects \ own]
  <2>a. ListedProjects \subseteq Projects
    BY <1>0 DEF ListedProjects
  <2>4. scan' = [scan EXCEPT ![c] = r] /\ r \in Scan
    BY <1>0, <2>0, <2>3, <2>a DEF Scan
  <2>5. /\ r.snap = scan[c].snap /\ r.known = scan[c].known /\ r.stacks = scan[c].stacks
        /\ r.left = scan[c].left /\ r.pending = FALSE
        /\ r.ssh = scan[c].ssh /\ r.portainer = ListedProjects \ own
        /\ r.calm = scan[c].calm /\ r.complete = scan[c].complete
    BY <2>0 DEF Scan
  <2> HIDE DEF r
  <2>6. Goes(scan[c])
    BY <2>1 DEF Goes
  <2>7. Agrees(r) /\ Faithful(r)
    BY <2>0, <2>1, <2>5, <2>6 DEF Agrees, Faithful, Goes
  <2>8. Apart(r)
    BY <2>0, <2>1, <2>5, <2>6 DEF Apart, Agrees, Goes
  <2>9. Covers(r)
    BY <2>0, <2>1, <2>5, <2>6 DEF Agrees, Covers, Told, ListedProjects
  <2> QED BY <1>0, <2>1, <2>2, <2>4, <2>7, <2>8, <2>9, OneScanMoves
<1>9. ASSUME NEW c \in Scans, PortainerFails(c) PROVE InventoryInv'
  <2>0. scan[c] \in Scan /\ Agrees(scan[c]) /\ Covers(scan[c]) /\ Apart(scan[c]) /\ Faithful(scan[c])
    BY <1>0 DEF InventoryInv
  <2>1. UNCHANGED <<monitor, connected, listed, choice, world>> /\ scan[c].pending
    BY <1>9 DEF PortainerFails
  <2>2. ChoiceKept'
    BY <2>1 DEF InventoryInv, ChoiceKept, SameChoice
  <2> DEFINE r == [scan[c] EXCEPT !.pending = FALSE, !.complete = FALSE]
  <2>3. scan' = [scan EXCEPT ![c] = r] /\ r \in Scan
    BY <1>0, <1>9, <2>0 DEF PortainerFails, Scan
  <2>4. /\ r.snap = scan[c].snap /\ r.known = scan[c].known /\ r.stacks = scan[c].stacks
        /\ r.left = scan[c].left /\ r.pending = FALSE
        /\ r.ssh = scan[c].ssh /\ r.portainer = scan[c].portainer
        /\ r.calm = scan[c].calm /\ r.complete = FALSE
    BY <2>0 DEF Scan
  <2> HIDE DEF r
  <2>5. Agrees(r) /\ Faithful(r) /\ Apart(r) /\ Covers(r)
    BY <2>0, <2>1, <2>4 DEF Agrees, Apart, Covers, Faithful, Goes
  <2> QED BY <1>0, <2>1, <2>2, <2>3, <2>5, OneScanMoves
<1>10. ASSUME NEW c \in Scans, NEW h \in Hosts, HostAnswers(c, h) PROVE InventoryInv'
  BY <1>10, ListingSound DEF HostAnswers
<1>11. ASSUME NEW c \in Scans, NEW h \in Hosts, PsFails(c, h) PROVE InventoryInv'
  BY <1>11, ListingSound DEF PsFails
<1>12. ASSUME NEW c \in Scans, NEW h \in Hosts, HostFails(c, h) PROVE InventoryInv'
  <2>0. scan[c] \in Scan /\ Agrees(scan[c]) /\ Covers(scan[c]) /\ Apart(scan[c]) /\ Faithful(scan[c])
    BY <1>0 DEF InventoryInv
  <2>1. UNCHANGED <<monitor, connected, listed, choice, world>> /\ h \in scan[c].left
        /\ scan[c].known # "asking"
    BY <1>12 DEF HostFails
  <2>2. ChoiceKept'
    BY <2>1 DEF InventoryInv, ChoiceKept, SameChoice
  <2> DEFINE r == [scan[c] EXCEPT !.left = @ \ {h}, !.complete = FALSE]
  <2>3. scan' = [scan EXCEPT ![c] = r] /\ r \in Scan
    BY <1>0, <1>12, <2>0 DEF HostFails, Scan
  <2>4. /\ r.snap = scan[c].snap /\ r.known = scan[c].known /\ r.stacks = scan[c].stacks
        /\ r.left = scan[c].left \ {h} /\ r.pending = scan[c].pending
        /\ r.ssh = scan[c].ssh /\ r.portainer = scan[c].portainer
        /\ r.calm = scan[c].calm /\ r.complete = FALSE
    BY <2>0 DEF Scan
  <2> HIDE DEF r
  <2>5. Agrees(r) /\ Faithful(r) /\ Apart(r) /\ Covers(r)
    BY <2>0, <2>1, <2>4 DEF Agrees, Apart, Covers, Faithful, Goes
  <2> QED BY <1>0, <2>1, <2>2, <2>3, <2>5, OneScanMoves
<1>13. ASSUME UNCHANGED inventoryVars PROVE InventoryInv'
  BY <1>13 DEF inventoryVars, InventoryInv, InventoryTypeOK, PathsTrue, ChoiceKept,
       SameChoice, Agrees,
     Covers, Apart, Faithful, Goes, May, Told, NoNewChoice, ListedProjects
<1>14. ASSUME NEW h \in Hosts,
              \/ SetDockerMonitoring(h, Off) \/ SetDockerMonitoring(h, All)
              \/ \E S \in SUBSET On(h) : SetDockerMonitoring(h, Selected(S))
       PROVE  InventoryInv'
  <2>1. Off \in Settings /\ All \in Settings /\ \A S \in SUBSET Containers : Selected(S) \in Settings
    BY DEF Off, All, Selected, Settings
  <2>2. On(h) \subseteq Containers
    BY DEF On
  <2> QED BY <1>1, <1>14, <2>1, <2>2
<1> QED
  BY <1>0, <1>2, <1>3, <1>4, <1>5, <1>6, <1>7, <1>8, <1>9, <1>10, <1>11, <1>12, <1>13, <1>14
     DEF InventoryNext, ScanStep

\* The inductive invariant holds in every reachable state.
THEOREM InventoryInvariance == InventorySpec => []InventoryInv
<1> QED BY InventoryInitInv, InventoryStepInv, PTL DEF InventorySpec

\* The type of the settings and of what the scans have read and reported.
THEOREM InventoryTypeCorrect == InventorySpec => []InventoryTypeOK
<1>1. InventoryInv => InventoryTypeOK
  BY DEF InventoryInv
<1> QED BY <1>1, InventoryInvariance, PTL

\* No container of a fully monitored host is checked by nobody.
THEOREM NobodyUncheckedHolds == InventorySpec => []NobodyUnchecked
<1>1. InventoryInv => NobodyUnchecked
  <2> SUFFICES ASSUME InventoryInv, NEW c \in CalmScans, NEW x \in Containers, scan[c].complete,
                      scan[c].snap[HostOf[x]].mode = "all", ~Own(x)
               PROVE  x \in scan[c].ssh \/ ByPortainer(c, x)
    BY DEF NobodyUnchecked
  <2>1. c \in Scans /\ scan[c].left = {} /\ ~scan[c].pending /\ scan[c].calm
    BY DEF CalmScans, Running
  <2>2. Covers(scan[c])
    BY <2>1 DEF InventoryInv
  <2>3. ProjectOf[x] \notin OwnProject
    BY DEF Own
  <2> QED BY <2>1, <2>2, <2>3 DEF Covers, ByPortainer
<1> QED BY <1>1, InventoryInvariance, PTL

\* No container on a host with an agent is reported by both backends.
THEOREM NotTwiceHolds == InventorySpec => []NotTwice
<1>1. InventoryInv => NotTwice
  BY DEF InventoryInv, NotTwice, Apart, CalmScans, ByPortainer
<1> QED BY <1>1, InventoryInvariance, PTL

\* Scans that rewrite settings leave monitored what was chosen.
THEOREM ChoiceKeptHolds == InventorySpec => []ChoiceKept
<1>1. InventoryInv => ChoiceKept
  BY DEF InventoryInv
<1> QED BY <1>1, InventoryInvariance, PTL

-------------------------------------------------------------------------------
(***************************************************************************)
(* Replacing a container: any number of concurrent updates, any bound on   *)
(* them and any set of faults: commands that fail, a replacement that does *)
(* not stay up, dropped connections.                                       *)
(***************************************************************************)
USE UpdatersAssumption, BoundsAssumption, FaultsAssumption

\* The initial state: one good container under its name, no update running.
LEMMA InitIInv == Init => IInv
<1> SUFFICES ASSUME Init PROVE IInv
  OBVIOUS
<1> USE DEF Init
<1>1. TypeOK
  BY DEF TypeOK, ContainerName, Container, Absent, Steps
<1>2. NeverLost /\ GoodExists /\ SelfUntouched
  BY DEF NeverLost, GoodExists, SelfUntouched, ContainerName, Absent, Exists
<1>3. OneHolder /\ BackupHeld /\ SelfIdle
  BY DEF OneHolder, BackupHeld, SelfIdle, Holding, ContainerName, Absent
<1> QED
  BY <1>1, <1>2, <1>3 DEF IInv

\* Every step of every update keeps the invariant, whatever its command returns.
LEMMA StepIInv == IInv /\ [Next]_vars => IInv'
<1> SUFFICES ASSUME IInv, [Next]_vars PROVE IInv'
  OBVIOUS
<1> USE DEF IInv
<1> DEFINE Parts == NeverLost /\ OneHolder /\ SelfUntouched /\ BackupHeld /\ GoodExists /\ SelfIdle
<1>1. ASSUME NEW u \in Updaters, Begin(u) PROVE IInv'
  <2>1. TypeOK'
    BY <1>1 DEF Begin, TypeOK, Steps
  <2>2. Parts'
    BY <1>1 DEF Begin, TypeOK, Steps, NeverLost, OneHolder, SelfUntouched, BackupHeld,
                GoodExists, SelfIdle, Holding, Exists, ContainerName
  <2> QED BY <2>1, <2>2
<1>2. ASSUME NEW u \in Updaters, Lose(u) PROVE IInv'
  <2>1. TypeOK'
    BY <1>2 DEF Lose, End, TypeOK, Steps
  <2>2. Parts'
    BY <1>2 DEF Lose, End, TypeOK, Steps, NeverLost, OneHolder, SelfUntouched, BackupHeld,
                GoodExists, SelfIdle, Holding, Exists, ContainerName
  <2> QED BY <2>1, <2>2
<1>3. ASSUME NEW u \in Updaters, Inspect(u) PROVE IInv'
  <2>1. TypeOK'
    BY <1>3 DEF Inspect, Goto, End, TypeOK, Steps
  <2>2. Parts'
    BY <1>3 DEF Inspect, Goto, End, TypeOK, Steps, NeverLost, OneHolder, SelfUntouched,
                BackupHeld, GoodExists, SelfIdle, Holding, Exists, ContainerName
  <2> QED BY <2>1, <2>2
<1>4. ASSUME NEW u \in Updaters, Pull(u) PROVE IInv'
  <2>1. TypeOK'
    BY <1>4 DEF Pull, Goto, End, TypeOK, Steps
  <2>2. Parts'
    BY <1>4 DEF Pull, Goto, End, TypeOK, Steps, NeverLost, OneHolder, SelfUntouched,
                BackupHeld, GoodExists, SelfIdle, Holding, Exists, ContainerName
  <2> QED BY <2>1, <2>2
<1>5. ASSUME NEW u \in Updaters, Rename(u) PROVE IInv'
  <2>1. TypeOK'
    <3>1. docker' \in [ContainerName -> Container]
      <4>1. docker["name"] \in Container /\ Absent \in Container
        BY DEF TypeOK, ContainerName, Container, Absent
      <4>2. Renamed("name", "backup") \in [ContainerName -> Container]
        BY <4>1 DEF Renamed, TypeOK
      <4> QED BY <1>5, <4>2 DEF Rename, TypeOK
    <3>2. /\ faults' \in FaultSets
          /\ pc' \in [Updaters -> Steps \cup {"idle"}]
          /\ started' \in [Updaters -> 0..MaxUpdates]
          /\ outcome' \in [Updaters -> {"none", "error", "refused", "rolled_back", "updated", "lost"}]
      BY <1>5 DEF Rename, Goto, End, TypeOK, Steps
    <3> QED BY <3>1, <3>2 DEF TypeOK
  <2>2. CASE UNCHANGED docker /\ End(u, "error")
    BY <2>2, <1>5 DEF Rename, End, TypeOK, Steps, NeverLost, OneHolder, SelfUntouched,
                      BackupHeld, GoodExists, SelfIdle, Holding, Exists, ContainerName
  <2>3. CASE CanRename("name", "backup") /\ docker' = Renamed("name", "backup") /\ Goto(u, "stop")
    <3>1. docker'["name"] = Absent /\ docker'["backup"] = docker["name"]
      BY <2>3 DEF Renamed, TypeOK, ContainerName
    <3>2. docker["name"].good /\ ~docker["name"].self
      BY <2>3, <1>5 DEF CanRename, Exists, Rename, NeverLost, GoodExists, SelfIdle, TypeOK,
                        ContainerName, Container
    <3>3. \A v \in Updaters : ~Holding(v)
      BY <2>3 DEF CanRename, Exists, BackupHeld, GoodExists, TypeOK, ContainerName
    <3>4. NeverLost' /\ GoodExists' /\ SelfUntouched' /\ SelfIdle'
      BY <3>1, <3>2, <2>3 DEF NeverLost, GoodExists, SelfUntouched, SelfIdle, Absent, Exists,
                              CanRename, ContainerName, Container, TypeOK
    <3>5. OneHolder' /\ BackupHeld'
      BY <3>1, <3>2, <3>3, <2>3 DEF OneHolder, BackupHeld, Holding, Goto, Absent, Exists, TypeOK
    <3> QED BY <2>1, <3>4, <3>5
  <2> QED BY <2>2, <2>3, <1>5 DEF Rename
<1>6. ASSUME NEW u \in Updaters, Stop(u) PROVE IInv'
  <2>1. TypeOK'
    BY <1>6 DEF Stop, Goto, TypeOK, Steps, ContainerName, Container
  <2>2. Parts'
    BY <1>6 DEF Stop, Goto, TypeOK, Steps, NeverLost, OneHolder, SelfUntouched, BackupHeld,
                GoodExists, SelfIdle, Holding, Exists, ContainerName, Container
  <2> QED BY <2>1, <2>2
<1>7. ASSUME NEW u \in Updaters, Run(u) PROVE IInv'
  <2>1. TypeOK'
    <3>1. docker' \in [ContainerName -> Container]
      <4>1. docker["name"] \in Container /\ Fresh("up") \in Container /\ Fresh("down") \in Container
        BY DEF TypeOK, ContainerName, Container, Fresh
      <4>2. \E left \in Container : docker' = [docker EXCEPT !["name"] = left]
        BY <1>7, <4>1 DEF Run
      <4> QED BY <4>2 DEF TypeOK
    <3>2. /\ faults' \in FaultSets
          /\ pc' \in [Updaters -> Steps \cup {"idle"}]
          /\ started' \in [Updaters -> 0..MaxUpdates]
          /\ outcome' \in [Updaters -> {"none", "error", "refused", "rolled_back", "updated", "lost"}]
      BY <1>7 DEF Run, Goto, TypeOK, Steps
    <3> QED BY <3>1, <3>2 DEF TypeOK
  <2>2. docker' \in [ContainerName -> Container] /\ docker'["backup"] = docker["backup"]
    BY <2>1, <1>7 DEF Run, Fresh, TypeOK, ContainerName, Container
  <2>3. ~docker'["name"].good /\ ~docker'["name"].self
    BY <1>7 DEF Run, Fresh, BackupHeld, SelfIdle, TypeOK, GoodExists, ContainerName, Container
  <2>4. NeverLost' /\ GoodExists' /\ SelfUntouched'
    BY <2>2, <2>3, <1>7 DEF Run, NeverLost, GoodExists, SelfUntouched, BackupHeld, Holding,
                            Exists, ContainerName
  <2>5. OneHolder' /\ BackupHeld' /\ SelfIdle'
    BY <2>2, <2>3, <1>7 DEF Run, Goto, OneHolder, BackupHeld, SelfIdle, Holding, Exists,
                            TypeOK, ContainerName, SelfUntouched
  <2> QED BY <2>1, <2>4, <2>5
<1>8. ASSUME NEW u \in Updaters, Verify(u) PROVE IInv'
  <2>1. TypeOK'
    <3>1. docker' \in [ContainerName -> Container]
      BY <1>8 DEF Verify, TypeOK, ContainerName, Container
    <3>2. /\ faults' \in FaultSets
          /\ pc' \in [Updaters -> Steps \cup {"idle"}]
          /\ started' \in [Updaters -> 0..MaxUpdates]
          /\ outcome' \in [Updaters -> {"none", "error", "refused", "rolled_back", "updated", "lost"}]
      BY <1>8 DEF Verify, Goto, TypeOK, Steps
    <3> QED BY <3>1, <3>2 DEF TypeOK
  <2>2. docker' \in [ContainerName -> Container] /\ docker'["backup"] = docker["backup"]
    BY <2>1, <1>8 DEF Verify, TypeOK, ContainerName, Container
  <2>3. docker'["name"].st = docker["name"].st /\ docker'["name"].self = docker["name"].self
    BY <1>8 DEF Verify, TypeOK, ContainerName, Container
  <2>4. pc'[u] = "rm_backup" => docker'["name"].good /\ docker["name"].st = "up"
    BY <1>8 DEF Verify, Goto, TypeOK, ContainerName, Container
  <2>5. pc'[u] # "rm_backup" => docker' = docker
    BY <1>8 DEF Verify, Goto, TypeOK
  <2>6. pc' = [pc EXCEPT ![u] = "rm_backup"] \/ pc' = [pc EXCEPT ![u] = "rm_new"]
    BY <1>8 DEF Verify, Goto
  <2>7. pc[u] = "verify"
    BY <1>8 DEF Verify
  <2>8. NeverLost' /\ GoodExists'
    BY <2>2, <2>3, <2>4, <2>5, <2>6, <2>7 DEF NeverLost, GoodExists, BackupHeld, Holding,
         Exists,
                                   ContainerName, TypeOK
  <2>9. SelfUntouched' /\ SelfIdle'
    BY <2>2, <2>3, <2>6, <2>7 DEF SelfUntouched, SelfIdle, ContainerName, TypeOK
  <2>10. OneHolder' /\ BackupHeld'
    BY <2>2, <2>3, <2>4, <2>5, <2>6, <2>7 DEF OneHolder, BackupHeld, Holding, Exists, TypeOK
  <2> QED BY <2>1, <2>8, <2>9, <2>10
<1>9. ASSUME NEW u \in Updaters, RmNew(u) PROVE IInv'
  <2>1. TypeOK'
    BY <1>9 DEF RmNew, Absent, Goto, TypeOK, Steps, ContainerName, Container
  <2>2. Parts'
    BY <1>9 DEF RmNew, Absent, Goto, TypeOK, Steps, NeverLost, OneHolder, SelfUntouched,
                BackupHeld, GoodExists, SelfIdle, Holding, Exists, ContainerName, Container
  <2> QED BY <2>1, <2>2
<1>10. ASSUME NEW u \in Updaters, Restore(u) PROVE IInv'
  <2>1. TypeOK'
    BY <1>10 DEF Restore, Renamed, Absent, Goto, TypeOK, Steps, ContainerName, Container
  <2>2. Parts'
    BY <1>10 DEF Restore, Renamed, CanRename, Absent, Goto, TypeOK, Steps, NeverLost,
                 OneHolder, SelfUntouched, BackupHeld, GoodExists, SelfIdle, Holding, Exists,
                 ContainerName, Container
  <2> QED BY <2>1, <2>2
<1>11. ASSUME NEW u \in Updaters, Start(u) PROVE IInv'
  <2>1. TypeOK'
    BY <1>11 DEF Start, End, TypeOK, Steps, ContainerName, Container
  <2>2. Parts'
    BY <1>11 DEF Start, End, TypeOK, Steps, NeverLost, OneHolder, SelfUntouched, BackupHeld,
                 GoodExists, SelfIdle, Holding, Exists, ContainerName, Container
  <2> QED BY <2>1, <2>2
<1>12. ASSUME NEW u \in Updaters, RmBackup(u) PROVE IInv'
  <2>1. TypeOK'
    BY <1>12 DEF RmBackup, Absent, End, TypeOK, Steps, ContainerName, Container
  <2>2. Parts'
    BY <1>12 DEF RmBackup, Absent, End, TypeOK, Steps, NeverLost, OneHolder, SelfUntouched,
                 BackupHeld, GoodExists, SelfIdle, Holding, Exists, ContainerName, Container
  <2> QED BY <2>1, <2>2
<1>13. ASSUME ReplacementFails PROVE IInv'
  <2>1. TypeOK'
    BY <1>13 DEF ReplacementFails, TypeOK, ContainerName, Container
  <2>2. docker' \in [ContainerName -> Container] /\ docker'["backup"] = docker["backup"]
    BY <2>1, <1>13 DEF ReplacementFails, TypeOK, ContainerName, Container
  <2>3. /\ docker'["name"].good = docker["name"].good
        /\ docker'["name"].self = docker["name"].self
        /\ docker'["name"].st # "absent" /\ docker["name"].st # "absent"
        /\ ~docker["name"].good
    BY <1>13 DEF ReplacementFails, TypeOK, ContainerName, Container
  <2>4. pc' = pc
    BY <1>13 DEF ReplacementFails
  <2>5. ~docker["name"].self
    BY <2>3 DEF SelfIdle, ContainerName
  <2>6. NeverLost' /\ GoodExists' /\ SelfUntouched' /\ SelfIdle'
    BY <2>2, <2>3, <2>4, <2>5 DEF NeverLost, GoodExists, SelfUntouched, SelfIdle, Exists,
                                  ContainerName
  <2>7. OneHolder' /\ BackupHeld'
    BY <2>2, <2>3, <2>4 DEF OneHolder, BackupHeld, Holding, Exists
  <2> QED BY <2>1, <2>6, <2>7
<1>14. ASSUME UNCHANGED vars PROVE IInv'
  BY <1>14 DEF vars, TypeOK, NeverLost, OneHolder, SelfUntouched, BackupHeld, GoodExists,
               SelfIdle, Holding, Exists
<1> QED
  BY <1>1, <1>2, <1>3, <1>4, <1>5, <1>6, <1>7, <1>8, <1>9, <1>10, <1>11, <1>12, <1>13, <1>14
     DEF Next, Command

\* The inductive invariant holds in every reachable state.
THEOREM Invariance == Spec => []IInv
<1> QED BY InitIInv, StepIInv, PTL DEF Spec

\* Type correctness of the daemon's name table and of every update's control state.
THEOREM TypeCorrect == Spec => []TypeOK
<1>1. IInv => TypeOK
  BY DEF IInv
<1> QED BY <1>1, Invariance, PTL

\* Verify before destroy: whatever fails or interleaves, a good container exists
\* under the name or under the backup name.
THEOREM NeverLostHolds == Spec => []NeverLost
<1>1. IInv => NeverLost
  BY DEF IInv
<1> QED BY <1>1, Invariance, PTL

\* The backup name is a lock: two updates never both hold the container.
THEOREM OneHolderHolds == Spec => []OneHolder
<1>1. IInv => OneHolder
  BY DEF IInv
<1> QED BY <1>1, Invariance, PTL

\* Keepup never renames, stops or replaces the container it runs in.
THEOREM SelfUntouchedHolds == Spec => []SelfUntouched
<1>1. IInv => SelfUntouched
  BY DEF IInv
<1> QED BY <1>1, Invariance, PTL

\* The update implements SafeReplacement: every command, failure and interleaving
\* is one of its four steps or leaves both of its variables alone.
THEOREM Refinement == Spec => ReplacesSafely
<1> USE DEF Exists
<1> DEFINE inPlace == docker["name"].good
           aside == Exists("backup")
<1>1. Init => SafeReplace!Init
  BY DEF Init, SafeReplace!Init, ContainerName, Absent
<1>2. IInv /\ IInv' /\ [Next]_vars => [SafeReplace!Next]_(SafeReplace!vars)
  <2> SUFFICES ASSUME IInv, IInv', [Next]_vars
               PROVE [SafeReplace!Next]_(SafeReplace!vars)
    OBVIOUS
  <2> USE DEF SafeReplace!Next, SafeReplace!vars
  <2>1. ASSUME NEW u \in Updaters, Rename(u) PROVE SafeReplace!MoveAside \/ UNCHANGED <<inPlace, aside>>
    BY <2>1 DEF Rename, Renamed, CanRename, Absent, End, IInv, TypeOK, ContainerName, Container,
                NeverLost, GoodExists, SafeReplace!MoveAside
  <2>2. ASSUME NEW u \in Updaters, Verify(u) PROVE SafeReplace!Confirm \/ UNCHANGED <<inPlace, aside>>
    BY <2>2 DEF Verify, IInv, TypeOK, ContainerName, Container, BackupHeld, GoodExists, Holding,
                SafeReplace!Confirm
  <2>3. ASSUME NEW u \in Updaters, Restore(u) PROVE SafeReplace!PutBack \/ UNCHANGED <<inPlace, aside>>
    BY <2>3 DEF Restore, Renamed, CanRename, Absent, IInv, TypeOK, ContainerName, Container,
                BackupHeld, GoodExists, Holding, SafeReplace!PutBack
  <2>4. ASSUME NEW u \in Updaters, RmBackup(u) PROVE SafeReplace!Drop \/ UNCHANGED <<inPlace, aside>>
    BY <2>4 DEF RmBackup, Absent, IInv, TypeOK, ContainerName, Container, BackupHeld,
         GoodExists,
                Holding, SafeReplace!Drop
  <2>5. ASSUME NEW u \in Updaters, Stop(u) \/ Start(u) PROVE UNCHANGED <<inPlace, aside>>
    BY <2>5 DEF Stop, Start, IInv, TypeOK, ContainerName, Container
  <2>6. ASSUME NEW u \in Updaters, Run(u) \/ RmNew(u) PROVE UNCHANGED <<inPlace, aside>>
    BY <2>6 DEF Run, RmNew, Absent, Fresh, IInv, TypeOK, ContainerName, Container, BackupHeld,
                GoodExists
  <2>7. ASSUME ReplacementFails PROVE UNCHANGED <<inPlace, aside>>
    BY <2>7 DEF ReplacementFails, IInv, TypeOK, ContainerName, Container
  <2>8. ASSUME NEW u \in Updaters, Begin(u) \/ Inspect(u) \/ Pull(u) \/ Lose(u)
        PROVE UNCHANGED <<inPlace, aside>>
    BY <2>8 DEF Begin, Inspect, Pull, Lose
  <2>9. ASSUME UNCHANGED vars PROVE UNCHANGED <<inPlace, aside>>
    BY <2>9 DEF vars
  <2> QED
    BY <2>1, <2>2, <2>3, <2>4, <2>5, <2>6, <2>7, <2>8, <2>9 DEF Next, Command
<1> QED
  BY <1>1, <1>2, Invariance, PTL DEF Spec, ReplacesSafely, SafeReplace!Spec
===============================================================================
