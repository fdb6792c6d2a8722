-------------------------- MODULE UpdateNotifierProofs --------------------------
(***************************************************************************)
(* Theorems about UpdateNotifier, for any stacks, images, backends and     *)
(* overlapping scans.                                                      *)
(***************************************************************************)
EXTENDS UpdateNotifier, TLAPS

Seen == [Stacks -> Verdict \cup NoVerdict \cup {"idle", "asked"}]
Times == 0..MaxNow \cup {Never}

\* Whatever the images of a stack are found to be, the stack has a status.
LEMMA RollupType == ASSUME NEW statuses PROVE Rollup(statuses) \in Verdict \cup NoVerdict
BY DEF Rollup, Verdict, NoVerdict

\* The store that check_and_notify computes is well-formed.
LEMMA NewStoreType ==
    ASSUME TypeOK, NEW res \in Seen
    PROVE  /\ NewStore(res)[1] \subseteq Stacks
           /\ NewStore(res)[2] \in [Stacks -> Times]
           /\ NewStore(res)[3] \subseteq Stacks
<1>1. UnknownSince(res) \in [Stacks -> Times]
  BY DEF TypeOK, UnknownSince, Times
<1>2. Stale(res) \subseteq Stacks
  BY DEF Stale
<1>3. (notified \cup With(res, {"update_available"})) \ Clean(res) \subseteq Stacks
  BY DEF TypeOK, With
<1> QED BY <1>1, <1>2, <1>3 DEF NewStore

\* The announcements leave the counters within their bound.
LEMMA RingType == ASSUME TypeOK, NEW S PROVE Ring(S) \in [Stacks -> 0..MaxBell]
BY BoundsAssumption DEF TypeOK, Ring, MaxBell

\* Stores, scans under way and counters stay well-formed.
THEOREM TypeCorrect == Spec => []TypeOK
<1>1. Init => TypeOK
  BY BoundsAssumption DEF Init, TypeOK, Idle, MaxBell
<1>2. TypeOK /\ [Next]_vars => TypeOK'
  <2> SUFFICES ASSUME TypeOK, [Next]_vars PROVE TypeOK'
    OBVIOUS
  <2>1. CASE Tick
    BY <2>1, BoundsAssumption DEF Tick, TypeOK, world, store, history
  <2>2. ASSUME NEW s \in Stacks, Redeployed(s) PROVE TypeOK'
    BY <2>2 DEF Redeployed, TypeOK, store, history
  <2>3. ASSUME NEW s \in Stacks, NEW i \in Images[s], Release(s, i) PROVE TypeOK'
    <3>1. outdated' \in [Stacks -> SUBSET UNION {Images[t] : t \in Stacks}]
      BY <2>3 DEF Release, TypeOK
    <3>2. releases' \in [Stacks -> 0..MaxReleases]
      BY <2>3, BoundsAssumption DEF Release, TypeOK
    <3> QED BY <2>3, <3>1, <3>2 DEF Release, TypeOK, store, history
  <2>4. ASSUME NEW c \in Scans, Begin(c) PROVE TypeOK'
    BY <2>4 DEF Begin, TypeOK, world, store, history
  <2>5. ASSUME NEW c \in Scans, NEW s \in Stacks, Check(c, s) PROVE TypeOK'
    <3>1. seen' \in [Scans -> Seen]
      BY <2>5, RollupType DEF Check, TypeOK, Seen
    <3> QED BY <2>5, <3>1 DEF Check, TypeOK, Seen, world, store, history
  <2>6. ASSUME NEW c \in Scans, NEW b \in Backends, BackendError(c, b) PROVE TypeOK'
    <3>1. seen' \in [Scans -> Seen]
      BY <2>6 DEF BackendError, TypeOK, Seen, NoVerdict
    <3> QED BY <2>6, <3>1 DEF BackendError, TypeOK, Seen, world, store, history
  <2>7. ASSUME NEW c \in Scans, Apply(c) PROVE TypeOK'
    <3>1. seen[c] \in Seen /\ seen' \in [Scans -> Seen]
      BY <2>7 DEF Apply, TypeOK, Seen, Idle
    <3>2. notified' \subseteq Stacks /\ unknownSince' \in [Stacks -> Times] /\ unknownNotified' \subseteq Stacks
      BY <2>7, <3>1, NewStoreType DEF Apply, CheckAndNotify, Save
    <3>3. bell' \in [Stacks -> 0..MaxBell]
      BY <2>7, RingType DEF Apply, CheckAndNotify
    <3>4. failing' \in [Stacks -> Times]
      BY <2>7 DEF Apply, CheckAndNotify, TypeOK, Times
    <3>5. heard' \subseteq Stacks /\ warned' \subseteq Stacks
      BY <2>7 DEF Apply, CheckAndNotify, TypeOK, NewlyAvailable, With, Warned, Stale
    <3>6. applied' \in Times /\ lastCheck' \in Times /\ UNCHANGED <<faults, now, outdated, releases>>
      BY <2>7 DEF Apply, CheckAndNotify, TypeOK, Times, world
    <3> QED BY <3>1, <3>2, <3>3, <3>4, <3>5, <3>6 DEF TypeOK, Seen, Times
  <2>8. ASSUME NEW c \in Scans, Interrupted(c) PROVE TypeOK'
    <3>1. seen' \in [Scans -> Seen] /\ lastCheck' \in Times
      BY <2>8 DEF Interrupted, TypeOK, Seen, Idle, Times
    <3>2. notified' \subseteq Stacks /\ unknownSince' \in [Stacks -> Times] /\ unknownNotified' \subseteq Stacks
      BY <2>8 DEF Interrupted, TypeOK, Save, EmptyStore, store, Times
    <3>3. bell' \in [Stacks -> 0..MaxBell]
      BY <2>8, RingType DEF Interrupted, Announce
    <3>4. heard' \subseteq Stacks /\ warned' \subseteq Stacks
      BY <2>8 DEF Interrupted, Announce, TypeOK, NewlyAvailable, With, Warned, Stale
    <3>5. UNCHANGED <<faults, now, outdated, releases, failing, applied>>
      BY <2>8 DEF Interrupted, world
    <3> QED BY <3>1, <3>2, <3>3, <3>4, <3>5 DEF TypeOK, Seen, Times
  <2>9. CASE UNCHANGED vars
    BY <2>9 DEF vars, world, store, history, TypeOK
  <2> QED BY <2>1, <2>2, <2>3, <2>4, <2>5, <2>6, <2>7, <2>8, <2>9 DEF Next
<1> QED BY <1>1, <1>2, PTL DEF Spec

\* However many scans overlap, in whatever order their results are applied and
\* wherever one is cut short: a stack that the store counts as announced was
\* announced since it was last seen current.
THEOREM NoSilentDedupHolds == Spec => []NoSilentDedup
<1>1. Init => NoSilentDedup
  BY DEF Init, NoSilentDedup
<1>2. NoSilentDedup /\ [Next]_vars => NoSilentDedup'
  <2> SUFFICES ASSUME notified \subseteq heard, [Next]_vars PROVE notified' \subseteq heard'
    BY DEF NoSilentDedup
  <2>1. ASSUME NEW c \in Scans, Apply(c) PROVE notified' \subseteq heard'
    <3>1. notified' = (notified \cup With(seen[c], {"update_available"})) \ Clean(seen[c])
      BY <2>1 DEF Apply, CheckAndNotify, Save, NewStore
    <3>2. heard' = (heard \cup NewlyAvailable(seen[c])) \ Clean(seen[c])
      BY <2>1 DEF Apply, CheckAndNotify
    <3> QED BY <3>1, <3>2 DEF NewlyAvailable
  <2>2. ASSUME NEW c \in Scans, Interrupted(c) PROVE notified' \subseteq heard'
    <3>1. heard \subseteq heard'
      BY <2>2 DEF Interrupted, Announce
    <3>2. notified' = notified \/ notified' = {}
      BY <2>2 DEF Interrupted, Save, EmptyStore, store
    <3> QED BY <3>1, <3>2
  <2>3. CASE Tick \/ \E s \in Stacks : Redeployed(s) \/ (\E i \in Images[s] : Release(s, i))
    BY <2>3 DEF Tick, Redeployed, Release, store, history
  <2>4. CASE \E c \in Scans : \/ Begin(c) \/ \E s \in Stacks : Check(c, s)
                              \/ \E b \in Backends : BackendError(c, b)
    BY <2>4 DEF Begin, Check, BackendError, store, history
  <2>5. CASE UNCHANGED vars
    BY <2>5 DEF vars, store, history
  <2> QED BY <2>1, <2>2, <2>3, <2>4, <2>5 DEF Next
<1> QED BY <1>1, <1>2, PTL DEF Spec
-------------------------------------------------------------------------------
\* Every image of the stack has an update: a scan will call it update_available.
FullyOutdated(s) == Images[s] \subseteq outdated[s]

\* Without failing registries a scan that sees the whole stack outdated says so,
\* and only then.
LEMMA CheckIsExact ==
    ASSUME NEW s \in Stacks,
           NEW res, res = Rollup({ImageStatus(s, i, {}) : i \in Images[s]})
    PROVE  /\ res = "update_available" => FullyOutdated(s)
           /\ res \in {"up_to_date", "mixed"} => ~FullyOutdated(s)
           /\ res \in Verdict
<1> DEFINE found == {ImageStatus(s, i, {}) : i \in Images[s]}
<1>1. \A i \in Images[s] : ImageStatus(s, i, {}) = IF i \in outdated[s] THEN "update_available" ELSE "up_to_date"
  BY DEF ImageStatus
<1>2. PICK i \in Images[s] : TRUE
  BY ImagesAssumption
<1>3. ImageStatus(s, i, {}) \in found
  BY <1>2
<1>4. found \subseteq {"update_available", "up_to_date"}
  BY <1>1
<1>5. CASE FullyOutdated(s)
  <2>1. found = {"update_available"}
    BY <1>1, <1>3, <1>5 DEF FullyOutdated
  <2> QED BY <2>1, <1>5 DEF Rollup, Verdict
<1>6. CASE ~FullyOutdated(s)
  <2>1. PICK j \in Images[s] : j \notin outdated[s]
    BY <1>6 DEF FullyOutdated
  <2>2. "up_to_date" \in found
    BY <1>1, <2>1
  <2>3. CASE "update_available" \in found
    <3>1. found # {"update_available"}
      BY <2>2
    <3> QED BY <2>3, <3>1, <1>6 DEF Rollup, Verdict
  <2>4. CASE "update_available" \notin found
    <3>1. found = {"up_to_date"}
      BY <2>2, <2>4, <1>4
    <3>2. "up_to_date" # "update_available" /\ {"up_to_date"} # {"update_available"}
      OBVIOUS
    <3>3. Rollup(found) = "up_to_date"
      BY <3>1, <3>2, <2>4 DEF Rollup
    <3> QED BY <3>3, <1>6 DEF Verdict
  <2> QED BY <2>3, <2>4
<1> QED BY <1>5, <1>6

Quiet == faults \cap {"overlap", "cut", "registry"} = {}

OneScan == \A c, d \in Scans : seen[c] # Idle /\ seen[d] # Idle => c = d

\* What keeps announcements behind releases: a stack that the next scan, or the
\* one under way, may announce has had a release that was not announced yet.
Paid(s) == bell[s] < releases[s]
AnnouncedInv ==
    Quiet =>
      /\ OneScan
      /\ \A s \in Stacks :
           /\ bell[s] <= releases[s]
           /\ FullyOutdated(s) /\ s \notin notified => Paid(s)
           /\ \A c \in Scans :
                /\ seen[c][s] = "update_available" /\ s \notin notified => Paid(s)
                /\ seen[c][s] \in {"up_to_date", "mixed"} /\ FullyOutdated(s) => Paid(s)

\* What check_and_notify does to one stack.
LEMMA NotifyOne ==
    ASSUME TypeOK, NEW s \in Stacks, NEW res \in Seen, CheckAndNotify(res)
    PROVE  /\ res[s] = "update_available" /\ s \notin notified
                => s \in notified' /\ bell'[s] = (IF bell[s] < MaxBell THEN bell[s] + 1 ELSE bell[s])
           /\ ~(res[s] = "update_available" /\ s \notin notified) => bell'[s] = bell[s]
           /\ s \notin notified' => s \notin notified \/ res[s] \in {"up_to_date", "mixed"}
<1>1. notified' = (notified \cup With(res, {"update_available"})) \ Clean(res)
  BY DEF CheckAndNotify, Save, NewStore
<1>2. bell' = Ring(NewlyAvailable(res))
  BY DEF CheckAndNotify
<1>3. s \in NewlyAvailable(res) <=> res[s] = "update_available" /\ s \notin notified
  BY DEF NewlyAvailable, With
<1>4. s \in Clean(res) <=> res[s] \in {"up_to_date", "mixed"}
  BY DEF Clean, With
<1>5. s \in With(res, {"update_available"}) <=> res[s] = "update_available"
  BY DEF With
<1>6. bell'[s] = IF s \in NewlyAvailable(res) /\ bell[s] < MaxBell THEN bell[s] + 1 ELSE bell[s]
  BY <1>2 DEF Ring
<1> QED BY <1>1, <1>3, <1>4, <1>5, <1>6

\* Every step of the notifier keeps the count of announcements.
LEMMA AnnouncedStep == TypeOK /\ AnnouncedInv /\ [Next]_vars => AnnouncedInv'
<1> SUFFICES ASSUME TypeOK, AnnouncedInv, [Next]_vars, Quiet' PROVE AnnouncedInv'
  BY DEF AnnouncedInv
<1>0. Quiet /\ faults' = faults
  <2>1. faults' = faults
    BY DEF Next, Tick, Redeployed, Release, Begin, Apply, Interrupted, Check, BackendError, vars
  <2> QED BY <2>1 DEF Quiet
<1>i. /\ OneScan
      /\ \A s \in Stacks :
           /\ bell[s] <= releases[s]
           /\ FullyOutdated(s) /\ s \notin notified => Paid(s)
           /\ \A c \in Scans :
                /\ seen[c][s] = "update_available" /\ s \notin notified => Paid(s)
                /\ seen[c][s] \in {"up_to_date", "mixed"} /\ FullyOutdated(s) => Paid(s)
  BY <1>0 DEF AnnouncedInv
<1>1. CASE Tick \/ UNCHANGED vars
  BY <1>1, <1>i DEF Tick, vars, world, store, history, AnnouncedInv, OneScan, FullyOutdated, Paid
<1>2. ASSUME NEW t \in Stacks, Redeployed(t) PROVE AnnouncedInv'
  <2>1. \A s \in Stacks : FullyOutdated(s)' => FullyOutdated(s)
    BY <1>2, ImagesAssumption DEF Redeployed, FullyOutdated, TypeOK
  <2> QED BY <1>2, <1>i, <2>1 DEF Redeployed, AnnouncedInv, OneScan, Paid, store, history
<1>3. ASSUME NEW t \in Stacks, NEW i \in Images[t], Release(t, i) PROVE AnnouncedInv'
  <2>1. UNCHANGED <<seen, notified, bell>>
    BY <1>3 DEF Release, store, history
  <2>2. releases' = [releases EXCEPT ![t] = @ + 1] /\ outdated' = [outdated EXCEPT ![t] = @ \cup {i}]
    BY <1>3 DEF Release
  <2>3. bell[t] \in Nat /\ releases[t] \in Nat /\ releases'[t] = releases[t] + 1
    BY <2>2, BoundsAssumption DEF TypeOK, MaxBell
  <2>4. bell'[t] <= releases'[t] /\ Paid(t)'
    BY <2>1, <2>3, <1>i DEF Paid
  <2>5. \A s \in Stacks \ {t} : (FullyOutdated(s)' <=> FullyOutdated(s)) /\ releases'[s] = releases[s]
    BY <2>2 DEF FullyOutdated, TypeOK
  <2>6. \A s \in Stacks \ {t} : (Paid(s)' <=> Paid(s))
    BY <2>1, <2>5 DEF Paid
  <2>7. OneScan'
    BY <2>1, <1>i DEF OneScan
  <2> QED BY <2>1, <2>4, <2>5, <2>6, <2>7, <1>i DEF AnnouncedInv
<1>4. ASSUME NEW c \in Scans, Begin(c) PROVE AnnouncedInv'
  <2>1. \A d \in Scans : seen[d] = Idle
    BY <1>4, <1>0 DEF Begin, Quiet
  <2>2. seen' = [seen EXCEPT ![c] = [s \in Stacks |-> "asked"]] /\ UNCHANGED <<notified, bell, releases, outdated>>
    BY <1>4 DEF Begin, store, history, world
  <2>3. OneScan'
    BY <2>1, <2>2 DEF OneScan, TypeOK, Idle
  <2>4. \A d \in Scans, s \in Stacks : seen'[d][s] \in {"idle", "asked"}
    BY <2>1, <2>2 DEF TypeOK, Idle
  <2>5. \A s \in Stacks : (FullyOutdated(s)' <=> FullyOutdated(s)) /\ (Paid(s)' <=> Paid(s))
    BY <2>2 DEF FullyOutdated, Paid
  <2> QED BY <2>2, <2>3, <2>4, <2>5, <1>i DEF AnnouncedInv
<1>5. ASSUME NEW c \in Scans, NEW t \in Stacks, Check(c, t) PROVE AnnouncedInv'
  <2>0. seen[c][t] = "asked" /\ seen[c] # Idle
    BY <1>5 DEF Check, Idle
  <2>1. PICK res : /\ res = Rollup({ImageStatus(t, i, {}) : i \in Images[t]})
                   /\ seen' = [seen EXCEPT ![c][t] = res]
    <3>1. "registry" \notin faults
      BY <1>0 DEF Quiet
    <3>2. PICK failed \in {{}} : seen' = [seen EXCEPT ![c][t] = Rollup({ImageStatus(t, i, failed) : i \in Images[t]})]
      BY <1>5, <3>1 DEF Check
    <3>3. failed = {}
      OBVIOUS
    <3>4. Rollup({ImageStatus(t, i, failed) : i \in Images[t]}) = Rollup({ImageStatus(t, i, {}) : i \in Images[t]})
      BY <3>3
    <3> QED BY <3>2, <3>4
  <2>2. UNCHANGED <<notified, bell, releases, outdated>>
    BY <1>5 DEF Check, store, history, world
  <2>3. \A s \in Stacks : (FullyOutdated(s)' <=> FullyOutdated(s)) /\ (Paid(s)' <=> Paid(s))
    BY <2>2 DEF FullyOutdated, Paid
  <2>4. OneScan'
    BY <2>0, <2>1, <1>i DEF OneScan, TypeOK
  <2>5. \A d \in Scans, s \in Stacks : seen'[d][s] = IF d = c /\ s = t THEN res ELSE seen[d][s]
    BY <2>1 DEF TypeOK
  <2>6. /\ res = "update_available" => FullyOutdated(t)
        /\ res \in {"up_to_date", "mixed"} => ~FullyOutdated(t)
    BY <2>1, CheckIsExact
  <2>7. ASSUME NEW s \in Stacks, NEW d \in Scans
        PROVE  /\ seen'[d][s] = "update_available" /\ s \notin notified' => Paid(s)'
               /\ seen'[d][s] \in {"up_to_date", "mixed"} /\ FullyOutdated(s)' => Paid(s)'
    <3>1. CASE d = c /\ s = t
      BY <3>1, <2>2, <2>3, <2>5, <2>6, <1>i
    <3>2. CASE ~(d = c /\ s = t)
      BY <3>2, <2>2, <2>3, <2>5, <1>i
    <3> QED BY <3>1, <3>2
  <2> QED BY <2>2, <2>3, <2>4, <2>7, <1>i DEF AnnouncedInv
<1>6. ASSUME NEW c \in Scans, NEW b \in Backends, BackendError(c, b) PROVE AnnouncedInv'
  <2>0. seen[c] # Idle
    BY <1>6 DEF BackendError, Idle
  <2>1. /\ seen' = [seen EXCEPT ![c] = [s \in Stacks |-> IF BackendOf[s] = b THEN "missing" ELSE seen[c][s]]]
        /\ UNCHANGED <<notified, bell, releases, outdated>>
    BY <1>6 DEF BackendError, store, history, world
  <2>2. OneScan'
    BY <2>0, <2>1, <1>i DEF OneScan, TypeOK
  <2>3. \A d \in Scans, s \in Stacks : seen'[d][s] = seen[d][s] \/ seen'[d][s] = "missing"
    BY <2>1 DEF TypeOK
  <2>4. \A s \in Stacks : (FullyOutdated(s)' <=> FullyOutdated(s)) /\ (Paid(s)' <=> Paid(s))
    BY <2>1 DEF FullyOutdated, Paid
  <2>5. ASSUME NEW s \in Stacks, NEW d \in Scans
        PROVE  /\ seen'[d][s] = "update_available" /\ s \notin notified' => Paid(s)'
               /\ seen'[d][s] \in {"up_to_date", "mixed"} /\ FullyOutdated(s)' => Paid(s)'
    BY <2>1, <2>3, <2>4, <1>i
  <2> QED BY <2>1, <2>2, <2>4, <2>5, <1>i DEF AnnouncedInv
<1>7. ASSUME NEW c \in Scans, Apply(c) PROVE AnnouncedInv'
  <2>1. /\ seen' = [seen EXCEPT ![c] = Idle]
        /\ CheckAndNotify(seen[c]) /\ Collected(c)
        /\ UNCHANGED <<releases, outdated>>
    BY <1>7 DEF Apply, world
  <2>2. seen[c] \in Seen
    BY DEF TypeOK, Seen
  <2>3. OneScan'
    BY <2>1, <1>i DEF OneScan, TypeOK
  <2>4. ASSUME NEW s \in Stacks
        PROVE  /\ bell'[s] <= releases'[s]
               /\ FullyOutdated(s)' /\ s \notin notified' => Paid(s)'
               /\ \A d \in Scans : seen'[d][s] \notin Verdict
    <3>1. bell[s] \in Nat /\ releases[s] \in Nat /\ releases'[s] = releases[s]
      BY <2>1, BoundsAssumption DEF TypeOK, MaxBell
    <3>2. FullyOutdated(s)' <=> FullyOutdated(s)
      BY <2>1 DEF FullyOutdated
    <3>3. bell'[s] <= releases'[s]
      BY <3>1, <2>1, <2>2, <1>i, NotifyOne DEF Paid
    <3>4. FullyOutdated(s)' /\ s \notin notified' => Paid(s)'
      BY <3>1, <3>2, <2>1, <2>2, <1>i, NotifyOne DEF Paid
    <3>5. seen[c] # Idle
      BY <2>1 DEF Collected, Idle
    <3>6. \A d \in Scans : seen'[d] = Idle
      BY <3>5, <2>1, <1>i DEF OneScan, TypeOK
    <3> QED BY <3>3, <3>4, <3>6 DEF Idle, Verdict
  <2> QED BY <2>3, <2>4 DEF AnnouncedInv, Verdict
<1>8. ASSUME NEW c \in Scans, Interrupted(c) PROVE AnnouncedInv'
  BY <1>8, <1>0 DEF Interrupted, Quiet
<1> QED BY <1>1, <1>2, <1>3, <1>4, <1>5, <1>6, <1>7, <1>8 DEF Next

\* Scans one at a time, none cut short, registries that answer: whatever is
\* released and redeployed meanwhile and whichever backends fail, no stack is
\* announced more often than it had a release.
THEOREM AnnouncedOnceHolds == Spec => []AnnouncedOnce
<1>1. Init => AnnouncedInv
  <2> SUFFICES ASSUME Init PROVE AnnouncedInv
    OBVIOUS
  <2>1. OneScan
    BY DEF Init, OneScan
  <2>2. \A s \in Stacks : ~FullyOutdated(s) /\ bell[s] <= releases[s]
    BY ImagesAssumption DEF Init, FullyOutdated
  <2>3. \A c \in Scans, s \in Stacks : seen[c][s] = "idle"
    BY DEF Init, Idle
  <2> QED BY <2>1, <2>2, <2>3 DEF AnnouncedInv
<1>2. AnnouncedInv => AnnouncedOnce
  BY DEF AnnouncedInv, AnnouncedOnce, Quiet
<1> QED BY <1>1, <1>2, AnnouncedStep, TypeCorrect, PTL DEF Spec
-------------------------------------------------------------------------------
\* What the store remembers of a row of unknown checks is what happened: when it
\* began, and that the stacks of the last warning were warned of.
StaleInv ==
    faults \cap {"backend", "cut"} = {} =>
      /\ \A c \in Scans, s \in Stacks : seen[c][s] # "missing"
      /\ unknownSince = failing
      /\ unknownNotified \subseteq warned
      /\ StaleWarned

\* A row of unknown checks that lasted UNKNOWN_STALE_SECONDS by the time results
\* were applied has raised a warning, in whatever order overlapping scans applied
\* theirs.
THEOREM StaleWarnedHolds == Spec => []StaleWarned
<1>1. Init => StaleInv
  BY DEF Init, StaleInv, StaleWarned, Idle
<1>2. TypeOK /\ StaleInv /\ [Next]_vars => StaleInv'
  <2> SUFFICES ASSUME TypeOK, StaleInv, [Next]_vars, faults' \cap {"backend", "cut"} = {} PROVE StaleInv'
    BY DEF StaleInv
  <2>0. faults' = faults /\ faults \cap {"backend", "cut"} = {}
    BY DEF Next, Tick, Redeployed, Release, Begin, Apply, Interrupted, Check, BackendError, vars
  <2>i. /\ \A c \in Scans, s \in Stacks : seen[c][s] # "missing"
        /\ unknownSince = failing
        /\ unknownNotified \subseteq warned
        /\ \A s \in Stacks : failing[s] # Never /\ applied - failing[s] >= StaleAfter => s \in warned
    BY <2>0 DEF StaleInv, StaleWarned
  <2>1. CASE Tick \/ UNCHANGED vars \/ \E s \in Stacks : Redeployed(s) \/ (\E i \in Images[s] : Release(s, i))
    <3>1. UNCHANGED <<seen, unknownSince, failing, unknownNotified, warned, applied>>
      BY <2>1 DEF Tick, Redeployed, Release, vars, store, history
    <3> QED BY <3>1, <2>i DEF StaleInv, StaleWarned
  <2>2. ASSUME NEW c \in Scans, Begin(c) PROVE StaleInv'
    <3>1. UNCHANGED <<unknownSince, failing, unknownNotified, warned, applied>>
      BY <2>2 DEF Begin, store, history
    <3>2. \A d \in Scans, s \in Stacks : seen'[d][s] # "missing"
      BY <2>2, <2>i DEF Begin, TypeOK
    <3> QED BY <3>1, <3>2, <2>i DEF StaleInv, StaleWarned
  <2>3. ASSUME NEW c \in Scans, NEW t \in Stacks, Check(c, t) PROVE StaleInv'
    <3>1. UNCHANGED <<unknownSince, failing, unknownNotified, warned, applied>>
      BY <2>3 DEF Check, store, history
    <3>2. \A statuses : Rollup(statuses) # "missing"
      BY DEF Rollup
    <3>3. \A d \in Scans, s \in Stacks : seen'[d][s] # "missing"
      BY <2>3, <2>i, <3>2 DEF Check, TypeOK
    <3> QED BY <3>1, <3>3, <2>i DEF StaleInv, StaleWarned
  <2>4. ASSUME NEW c \in Scans, Apply(c) PROVE StaleInv'
    <3> DEFINE res == seen[c]
    <3>1. CheckAndNotify(res) /\ seen' = [seen EXCEPT ![c] = Idle] /\ now' = now
      BY <2>4 DEF Apply
    <3>2. \A s \in Stacks : res[s] \in Verdict \/ res[s] = "unknown"
      BY <2>4, <2>i DEF Apply, Collected, TypeOK, NoVerdict
    <3>3. unknownSince' = UnknownSince(res) /\ unknownNotified' = Stale(res)
      BY <3>1 DEF CheckAndNotify, Save, NewStore
    <3>4. failing' = UnknownSince(res)
      <4>1. failing' = [s \in Stacks |-> IF res[s] \in Verdict THEN Never
                                          ELSE IF failing[s] = Never THEN now ELSE failing[s]]
        BY <3>1 DEF CheckAndNotify
      <4>2. \A s \in Stacks : res[s] \in Verdict <=> res[s] # "unknown"
        BY <3>2 DEF Verdict
      <4> QED BY <4>1, <4>2, <2>i DEF UnknownSince
    <3>5. warned' = Warned(res) \ With(res, Verdict) /\ applied' = now
      BY <3>1 DEF CheckAndNotify
    <3>6. Stale(res) \subseteq Warned(res)
      BY <2>i DEF Warned
    <3>7. Stale(res) \cap With(res, Verdict) = {}
      BY DEF Stale, With, UnknownSince, Verdict
    <3>8. unknownNotified' \subseteq warned'
      BY <3>3, <3>5, <3>6, <3>7
    <3>9. ASSUME NEW s \in Stacks, failing'[s] # Never, applied' - failing'[s] >= StaleAfter PROVE s \in warned'
      BY <3>3, <3>4, <3>5, <3>8, <3>9 DEF Stale
    <3>10. \A d \in Scans, s \in Stacks : seen'[d][s] # "missing"
      BY <3>1, <2>i DEF TypeOK, Idle
    <3> QED BY <3>3, <3>4, <3>8, <3>9, <3>10 DEF StaleInv, StaleWarned
  <2>5. ASSUME NEW c \in Scans, \/ Interrupted(c) \/ \E b \in Backends : BackendError(c, b) PROVE StaleInv'
    BY <2>5, <2>0 DEF Interrupted, BackendError
  <2> QED BY <2>1, <2>2, <2>3, <2>4, <2>5 DEF Next
<1>3. StaleInv => StaleWarned
  BY DEF StaleInv, StaleWarned
<1> QED BY <1>1, <1>2, <1>3, TypeCorrect, PTL DEF Spec
===============================================================================
