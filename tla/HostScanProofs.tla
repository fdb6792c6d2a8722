----------------------------- MODULE HostScanProofs -----------------------------
(***************************************************************************)
(* Theorems about HostScan, for any hosts, number of slots and bound on    *)
(* the times a host becomes pending.                                       *)
(***************************************************************************)
EXTENDS HostScan, TLAPS

\* What the announcements of a scan leave of the counters and the history.
LEMMA AnnounceTypes ==
    ASSUME TypeOK, NEW S \in SUBSET Hosts, NEW done \in SUBSET Hosts, Announce(S, done)
    PROVE  bell' \in [Hosts -> 0..(MaxTurns + 1)] /\ heard' \subseteq Hosts
<1>1. bell' \in [Hosts -> 0..(MaxTurns + 1)]
  BY SlotsAssumption DEF TypeOK, Announce
<1>2. heard' \subseteq Hosts
  BY DEF TypeOK, Announce
<1> QED BY <1>1, <1>2

\* The stores, the scan under way and the counters stay well-formed.
THEOREM TypeCorrect == Spec => []TypeOK
<1>1. Init => TypeOK
  BY SlotsAssumption DEF Init, TypeOK, NoScan
<1>2. TypeOK /\ [Next]_vars => TypeOK'
  <2> SUFFICES ASSUME TypeOK, [Next]_vars PROVE TypeOK'
    OBVIOUS
  <2>1. CASE BeginScan
    BY <2>1 DEF BeginScan, TypeOK, world
  <2>2. CASE Apply
    <3>1. Results \subseteq Hosts /\ Fresh(Results) \subseteq Hosts
      BY DEF Results, Fresh, Found
    <3>2. bell' \in [Hosts -> 0..(MaxTurns + 1)] /\ heard' \subseteq Hosts
      BY <2>2, <3>1, AnnounceTypes DEF Apply
    <3> QED BY <2>2, <3>1, <3>2 DEF Apply, TypeOK, world, ShouldNotify, Found, NoScan
  <2>3. CASE ApplyCutShort
    <3>1. PICK done \in SUBSET Results :
            /\ stamped' = stamped \cup done
            /\ notified' = ShouldNotify(done)
            /\ \/ Announce(Fresh(done), done)
               \/ \E h \in Fresh(done) : Announce(Fresh(done) \ {h}, done)
      BY <2>3 DEF ApplyCutShort
    <3>2. done \subseteq Hosts /\ Fresh(done) \subseteq Hosts
      BY DEF Results, Fresh, Found
    <3>3. bell' \in [Hosts -> 0..(MaxTurns + 1)] /\ heard' \subseteq Hosts
      BY <3>1, <3>2, AnnounceTypes
    <3> QED BY <2>3, <3>1, <3>2, <3>3 DEF ApplyCutShort, TypeOK, world, ShouldNotify, Found, NoScan
  <2>4. CASE ApplyTorn
    <3>1. PICK done \in SUBSET Results :
            \E h \in done :
              /\ stamped' = stamped \cup done
              /\ notified' = {}
              /\ Announce(Fresh(done) \ {h}, done \ {h})
      BY <2>4 DEF ApplyTorn
    <3>2. done \subseteq Hosts /\ Fresh(done) \subseteq Hosts
      BY DEF Results, Fresh, Found
    <3>3. bell' \in [Hosts -> 0..(MaxTurns + 1)] /\ heard' \subseteq Hosts
      BY <3>1, <3>2, AnnounceTypes
    <3> QED BY <2>4, <3>1, <3>2, <3>3 DEF ApplyTorn, TypeOK, world, NoScan
  <2>5. CASE Stop
    BY <2>5 DEF Stop, TypeOK, world, NoScan
  <2>6. ASSUME NEW h \in Hosts, Check(h) PROVE TypeOK'
    BY <2>6 DEF Check, StartCheck, Answer, CheckFails, TypeOK, world
  <2>7. ASSUME NEW h \in Hosts, BecomePending(h) PROVE TypeOK'
    BY <2>7, SlotsAssumption DEF BecomePending, TypeOK
  <2>8. ASSUME NEW h \in Hosts, BecomeClean(h) \/ DeleteHost(h) \/ AddHost(h) PROVE TypeOK'
    BY <2>8 DEF BecomeClean, DeleteHost, AddHost, TypeOK
  <2>9. CASE UNCHANGED vars
    BY <2>9 DEF vars, world, TypeOK
  <2> QED BY <2>1, <2>2, <2>3, <2>4, <2>5, <2>6, <2>7, <2>8, <2>9 DEF Next
<1> QED BY <1>1, <1>2, PTL DEF Spec

\* Without edits and cuts a host is held back as announced only if it was announced
\* since it was last found clean: the store and the notification change together.
THEOREM HostNotSilencedHolds == Spec => []HostNotSilenced
<1>1. Init => HostNotSilenced
  BY DEF Init, HostNotSilenced
<1>2. HostNotSilenced /\ [Next]_vars => HostNotSilenced'
  <2> SUFFICES ASSUME faults \cap {"edit", "cut"} = {}, notified \subseteq heard, [Next]_vars
               PROVE  faults' = faults /\ notified' \subseteq heard'
    <3>1. [Next]_vars => faults' = faults
      BY DEF Next, BeginScan, Apply, ApplyCutShort, ApplyTorn, Stop, Check, StartCheck, Answer,
             CheckFails, BecomePending, BecomeClean, DeleteHost, AddHost, vars
    <3> QED BY <3>1 DEF HostNotSilenced
  <2>1. CASE Apply
    BY <2>1 DEF Apply, ShouldNotify, Announce, Fresh
  <2>2. CASE ApplyTorn
    BY <2>2 DEF ApplyTorn
  <2>3. CASE \/ BeginScan \/ \E h \in Hosts : Check(h) \/ BecomePending(h) \/ BecomeClean(h)
             \/ UNCHANGED vars
    BY <2>3 DEF BeginScan, Check, StartCheck, Answer, CheckFails, BecomePending, BecomeClean, vars
  <2>4. ~ApplyCutShort /\ ~Stop /\ \A h \in Hosts : ~DeleteHost(h) /\ ~AddHost(h)
    BY DEF ApplyCutShort, Stop, DeleteHost, AddHost
  <2> QED BY <2>1, <2>2, <2>3, <2>4 DEF Next
<1> QED BY <1>1, <1>2, PTL DEF Spec

\* A result in the scan under way is the answer of its host, and so is a time stamp.
ResultsEarned == "edit" \notin faults => stamped \subseteq answered /\ Results \subseteq answered

\* No host has a time stamp for a check that it never answered, whatever scans are
\* cut short, unless it took over the slug of another.
THEOREM StampsEarnedHolds == Spec => []StampsEarned
<1>1. Init => ResultsEarned
  BY DEF Init, ResultsEarned, Results, Found, NoScan
<1>2. TypeOK /\ ResultsEarned /\ [Next]_vars => ResultsEarned'
  <2> SUFFICES ASSUME TypeOK, "edit" \notin faults, stamped \subseteq answered, Results \subseteq answered,
                      [Next]_vars
               PROVE  stamped' \subseteq answered' /\ Results' \subseteq answered'
    <3>1. [Next]_vars => faults' = faults
      BY DEF Next, BeginScan, Apply, ApplyCutShort, ApplyTorn, Stop, Check, StartCheck, Answer,
             CheckFails, BecomePending, BecomeClean, DeleteHost, AddHost, vars
    <3> QED BY <3>1 DEF ResultsEarned
  <2>1. CASE Apply \/ ApplyCutShort \/ ApplyTorn \/ Stop
    <3>1. Results' = {} /\ answered' = answered
      BY <2>1 DEF Apply, ApplyCutShort, ApplyTorn, Stop, Results, Found, NoScan
    <3>2. stamped' \subseteq stamped \cup Results
      BY <2>1 DEF Apply, ApplyCutShort, ApplyTorn, Stop
    <3> QED BY <3>1, <3>2
  <2>2. CASE BeginScan
    BY <2>2 DEF BeginScan, Results, Found
  <2>3. ASSUME NEW h \in Hosts, Check(h)
        PROVE  stamped' \subseteq answered' /\ Results' \subseteq answered'
    BY <2>3 DEF Check, StartCheck, Answer, CheckFails, Results, Found, TypeOK
  <2>4. ASSUME NEW h \in Hosts, BecomePending(h) \/ BecomeClean(h)
        PROVE  stamped' \subseteq answered' /\ Results' \subseteq answered'
    BY <2>4 DEF BecomePending, BecomeClean, Results, Found
  <2>5. CASE UNCHANGED vars
    BY <2>5 DEF vars, Results, Found
  <2>6. \A h \in Hosts : ~DeleteHost(h) /\ ~AddHost(h)
    BY DEF DeleteHost, AddHost
  <2> QED BY <2>1, <2>2, <2>3, <2>4, <2>5, <2>6 DEF Next
<1>3. ResultsEarned => StampsEarned
  BY DEF ResultsEarned, StampsEarned
<1> QED BY <1>1, <1>2, <1>3, TypeCorrect, PTL DEF Spec

\* An announcement is owed: the host went from clean to pending more often than it
\* was announced.
Owed(h) == bell[h] < turns[h]

\* A host that is, or was found, pending and is not in the store is owed an
\* announcement; so is one that became pending after it was found clean.
OwedOK(h) ==
    /\ bell[h] <= turns[h]
    /\ h \notin notified /\ (h \in pending \/ task[h] = "pending") => Owed(h)
    /\ h \in pending /\ task[h] = "clean" => Owed(h)

OnceInv == "torn" \notin faults => \A h \in Hosts : OwedOK(h)

\* What a host is owed survives that the results of done are applied and S, which
\* are among the new ones of done, are announced.
LEMMA AppliedOwed ==
    ASSUME TypeOK, NEW done \in SUBSET Results, NEW S \in SUBSET Fresh(done),
           notified' = ShouldNotify(done), Announce(S, done), task' = NoScan,
           UNCHANGED <<pending, turns>>, NEW h \in Hosts, OwedOK(h)
    PROVE  OwedOK(h)'
<1>1. bell[h] \in Nat /\ turns[h] \in Nat /\ bell'[h] \in Nat
  BY SlotsAssumption DEF TypeOK, Announce
<1>2. task'[h] = "none"
  BY DEF NoScan
<1>3. CASE h \in S
  <2>1. task[h] = "pending" /\ h \notin notified
    BY <1>3 DEF Fresh, Found
  <2>2. bell'[h] <= bell[h] + 1 /\ h \in notified'
    BY <1>1, <1>3, <2>1 DEF Announce, ShouldNotify, Fresh, Found
  <2> QED BY <1>1, <1>2, <2>1, <2>2 DEF OwedOK, Owed
<1>4. CASE h \notin S
  <2>1. bell'[h] = bell[h]
    BY <1>4 DEF Announce
  <2>2. h \in notified /\ h \notin notified' => task[h] = "clean"
    BY DEF ShouldNotify, Found
  <2> QED BY <1>1, <1>2, <2>1, <2>2 DEF OwedOK, Owed
<1> QED BY <1>3, <1>4

\* As long as the store is not torn a host is announced at most once for each time
\* it became pending, however old the results are and wherever a scan is cut short.
THEOREM HostAnnouncedOnceHolds == Spec => []HostAnnouncedOnce
<1>1. Init => OnceInv
  BY DEF Init, OnceInv, OwedOK, Owed, NoScan
<1>2. TypeOK /\ OnceInv /\ [Next]_vars => OnceInv'
  <2> SUFFICES ASSUME TypeOK, "torn" \notin faults, NEW h \in Hosts, OwedOK(h), [Next]_vars
               PROVE  OwedOK(h)'
    <3>1. [Next]_vars => faults' = faults
      BY DEF Next, BeginScan, Apply, ApplyCutShort, ApplyTorn, Stop, Check, StartCheck, Answer,
             CheckFails, BecomePending, BecomeClean, DeleteHost, AddHost, vars
    <3> QED BY <3>1 DEF OnceInv
  <2>0. bell[h] \in Nat /\ turns[h] \in Nat
    BY SlotsAssumption DEF TypeOK
  <2>1. CASE Apply
    <3>1. Fresh(Results) \in SUBSET Fresh(Results) /\ Results \in SUBSET Results
      OBVIOUS
    <3> QED BY <2>1, <3>1, AppliedOwed DEF Apply, world
  <2>2. CASE ApplyCutShort
    <3>1. PICK done \in SUBSET Results :
            /\ notified' = ShouldNotify(done)
            /\ \/ Announce(Fresh(done), done)
               \/ \E g \in Fresh(done) : Announce(Fresh(done) \ {g}, done)
      BY <2>2 DEF ApplyCutShort
    <3>2. PICK S \in SUBSET Fresh(done) : Announce(S, done)
      BY <3>1
    <3> QED BY <2>2, <3>1, <3>2, AppliedOwed DEF ApplyCutShort, world
  <2>3. CASE Stop
    BY <2>3 DEF Stop, world, NoScan, OwedOK, Owed
  <2>4. CASE BeginScan
    BY <2>4 DEF BeginScan, world, OwedOK, Owed
  <2>5. ASSUME NEW g \in Hosts, Check(g) PROVE OwedOK(h)'
    BY <2>5 DEF Check, StartCheck, Answer, CheckFails, world, OwedOK, Owed, TypeOK
  <2>6. ASSUME NEW g \in Hosts, BecomePending(g) PROVE OwedOK(h)'
    <3>1. turns'[h] = IF g = h THEN turns[h] + 1 ELSE turns[h]
      BY <2>6 DEF BecomePending, TypeOK
    <3> QED BY <2>0, <2>6, <3>1 DEF BecomePending, OwedOK, Owed
  <2>7. ASSUME NEW g \in Hosts, BecomeClean(g) \/ DeleteHost(g) \/ AddHost(g) PROVE OwedOK(h)'
    BY <2>7 DEF BecomeClean, DeleteHost, AddHost, OwedOK, Owed
  <2>8. CASE UNCHANGED vars
    BY <2>8 DEF vars, world, OwedOK, Owed
  <2>9. ~ApplyTorn
    BY DEF ApplyTorn
  <2> QED BY <2>1, <2>2, <2>3, <2>4, <2>5, <2>6, <2>7, <2>8, <2>9 DEF Next
<1>3. OnceInv => HostAnnouncedOnce
  BY DEF OnceInv, OwedOK, HostAnnouncedOnce
<1> QED BY <1>1, <1>2, <1>3, TypeCorrect, PTL DEF Spec
===============================================================================
