------------------------------- MODULE HostScan -------------------------------
(***************************************************************************)
(* The host half of the scheduled check (run_scan, scan_hosts and          *)
(* _notify_host in app/update_scan.py): every host is checked over its own *)
(* connection, a bounded number at a time, and when the last one has       *)
(* answered or failed the results are applied in one go: a time stamp      *)
(* (app/last_check.py) and, on the way from clean to pending, one          *)
(* notification (should_notify_host in app/update_notifier.py).            *)
(*                                                                         *)
(* Only the scheduled job notifies of hosts and it never overlaps itself,  *)
(* but what it applies is as old as its slowest host, and what a host      *)
(* means in the stores is only its slug.                                   *)
(***************************************************************************)
EXTENDS Integers, FiniteSets

CONSTANTS
    Hosts,      \* slugs
    Slots,      \* MAX_CONCURRENT_HOST_CHECKS
    MaxTurns,   \* bound: how often a host goes from clean to pending
    FaultSets   \* what may come between: one of these sets, in each behaviour

ASSUME SlotsAssumption == Slots \in Nat \ {0} /\ MaxTurns \in Nat

\* Hosts are deleted and added; the process dies, or the disk fails, in the middle
\* of a scan; that leaves half a notified_updates.json behind.
Faults == {"edit", "cut", "torn"}
ASSUME FaultsAssumption == FaultSets \subseteq SUBSET Faults

VARIABLES
    faults,       \* what may come between in this behaviour; never changes
    configured,   \* config.yml
    pending,      \* the hosts with packages to install or a reboot to do
    task,         \* each host in the scan under way
    notified,     \* notified_updates.json: notified_hosts
    stamped,      \* last_check.json: the hosts with a time
    turns,        \* history: how often a host went from clean to pending
    bell,         \* history: how often a host was announced
    heard,        \* history: the hosts announced since last found clean
    answered      \* history: the hosts that ever answered a check since they were added

world == <<configured, pending, turns>>
vars == <<faults, world, task, notified, stamped, bell, heard, answered>>

NoScan == [h \in Hosts |-> "none"]
Scanning == task # NoScan

TypeOK ==
    /\ faults \in FaultSets
    /\ configured \subseteq Hosts
    /\ pending \subseteq Hosts
    /\ task \in [Hosts -> {"none", "queued", "checking", "failed", "clean", "pending"}]
    /\ notified \subseteq Hosts /\ stamped \subseteq Hosts
    /\ turns \in [Hosts -> 0..MaxTurns]
    /\ bell \in [Hosts -> 0..(MaxTurns + 1)]
    /\ heard \subseteq Hosts /\ answered \subseteq Hosts

Init ==
    /\ faults \in FaultSets
    /\ configured = Hosts
    /\ pending = {}
    /\ task = NoScan
    /\ notified = {} /\ stamped = {}
    /\ turns = [h \in Hosts |-> 0]
    /\ bell = [h \in Hosts |-> 0]
    /\ heard = {} /\ answered = {}
-------------------------------------------------------------------------------
(***************************************************************************)
(* The hosts and the administrator.                                        *)
(***************************************************************************)
BecomePending(h) ==
    /\ h \notin pending /\ turns[h] < MaxTurns
    /\ pending' = pending \cup {h}
    /\ turns' = [turns EXCEPT ![h] = @ + 1]
    /\ UNCHANGED <<faults, configured, task, notified, stamped, bell, heard, answered>>

\* Updates are installed, by Keepup or by hand.
BecomeClean(h) ==
    /\ h \in pending
    /\ pending' = pending \ {h}
    /\ UNCHANGED <<faults, configured, turns, task, notified, stamped, bell, heard, answered>>

\* The stores keyed by the slug are left as they are.
DeleteHost(h) ==
    /\ "edit" \in faults /\ h \in configured
    /\ configured' = configured \ {h}
    /\ UNCHANGED <<faults, pending, turns, task, notified, stamped, bell, heard, answered>>

\* A host under a slug that may have been used before.
AddHost(h) ==
    /\ "edit" \in faults /\ h \notin configured
    /\ configured' = configured \cup {h}
    /\ heard' = heard \ {h}
    /\ answered' = answered \ {h}
    /\ UNCHANGED <<faults, pending, turns, task, notified, stamped, bell>>
-------------------------------------------------------------------------------
(***************************************************************************)
(* scan_hosts                                                              *)
(***************************************************************************)
BeginScan ==
    /\ ~Scanning
    /\ task' = [h \in Hosts |-> IF h \in configured THEN "queued" ELSE "none"]
    /\ UNCHANGED <<faults, world, notified, stamped, bell, heard, answered>>

\* The semaphore lets the host in.
StartCheck(h) ==
    /\ task[h] = "queued"
    /\ Cardinality({g \in Hosts : task[g] = "checking"}) < Slots
    /\ task' = [task EXCEPT ![h] = "checking"]
    /\ UNCHANGED <<faults, world, notified, stamped, bell, heard, answered>>

Answer(h) ==
    /\ task[h] = "checking"
    /\ task' = [task EXCEPT ![h] = IF h \in pending THEN "pending" ELSE "clean"]
    /\ answered' = answered \cup {h}
    /\ UNCHANGED <<faults, world, notified, stamped, bell, heard>>

\* Mutant: nothing bounds the wait for a host that has not failed by itself.
CheckFailsUnbounded(h) == FALSE /\ UNCHANGED vars

\* An exception, or HOST_SCAN_TIMEOUT.
CheckFails(h) ==
    /\ task[h] = "checking"
    /\ task' = [task EXCEPT ![h] = "failed"]
    /\ UNCHANGED <<faults, world, notified, stamped, bell, heard, answered>>
-------------------------------------------------------------------------------
(***************************************************************************)
(* run_scan: apply the results.                                            *)
(***************************************************************************)
Settled == Scanning /\ \A h \in Hosts : task[h] \notin {"queued", "checking"}

Found(status) == {h \in Hosts : task[h] = status}
Results == Found("clean") \cup Found("pending")

\* Mutant: a host found clean keeps its entry.
ShouldNotifyKeeps(done) == notified \cup (done \cap Found("pending"))

\* should_notify_host for the hosts in done: what the store holds afterwards.
ShouldNotify(done) == (notified \cup (done \cap Found("pending"))) \ (done \cap Found("clean"))

\* Mutant: every pending host is announced by every scan.
FreshAll(done) == done \cap Found("pending")

\* The hosts in done that are new among the pending.
Fresh(done) == (done \cap Found("pending")) \ notified

Announce(S, done) ==
    /\ bell' = [h \in Hosts |-> IF h \in S /\ bell[h] <= MaxTurns THEN bell[h] + 1 ELSE bell[h]]
    /\ heard' = (heard \cup S) \ (done \cap Found("clean"))

Apply ==
    /\ Settled
    /\ stamped' = stamped \cup Results
    /\ notified' = ShouldNotify(Results)
    /\ Announce(Fresh(Results), Results)
    /\ task' = NoScan
    /\ UNCHANGED <<faults, world, answered>>

\* The loop over the results ends early, with some hosts done and one of them, h,
\* perhaps not announced yet: the process dies, or a store cannot be written and
\* the exception ends the scan.
ApplyCutShort ==
    /\ "cut" \in faults /\ Settled
    /\ \E done \in SUBSET Results :
         /\ stamped' = stamped \cup done
         /\ notified' = ShouldNotify(done)
         /\ \/ Announce(Fresh(done), done)
            \/ \E h \in Fresh(done) : Announce(Fresh(done) \ {h}, done)
    /\ task' = NoScan
    /\ UNCHANGED <<faults, world, answered>>

\* The same, while the store is rewritten for host h: it is written in place, and
\* half a file reads as an empty store.
ApplyTorn ==
    /\ "torn" \in faults /\ Settled
    /\ \E done \in SUBSET Results : \E h \in done :
         /\ ShouldNotify({h}) # notified
         /\ stamped' = stamped \cup done
         /\ notified' = {}
         /\ Announce(Fresh(done) \ {h}, done \ {h})
    /\ task' = NoScan
    /\ UNCHANGED <<faults, world, answered>>

\* The process is stopped while it waits for the hosts.
Stop ==
    /\ "cut" \in faults /\ Scanning
    /\ task' = NoScan
    /\ UNCHANGED <<faults, world, notified, stamped, bell, heard, answered>>

Check(h) == StartCheck(h) \/ Answer(h) \/ CheckFails(h)

Next ==
    \/ BeginScan \/ Apply \/ ApplyCutShort \/ ApplyTorn \/ Stop
    \/ \E h \in Hosts : \/ Check(h) \/ BecomePending(h) \/ BecomeClean(h)
                        \/ DeleteHost(h) \/ AddHost(h)

Spec == Init /\ [][Next]_vars

\* The event loop runs what is ready: a free slot is taken, the time budget of a
\* check runs out, results are applied.  A host owes no answer.
Fairness ==
    /\ WF_vars(Apply)
    /\ \A h \in Hosts : WF_vars(StartCheck(h)) /\ WF_vars(CheckFails(h))

FairSpec == Spec /\ Fairness
-------------------------------------------------------------------------------
(***************************************************************************)
(* Properties                                                              *)
(***************************************************************************)

\* "a six-hourly job does not re-announce the same packages forever": a host is
\* announced at most once for each time it became pending, whatever is cut short
\* (short of a torn store) and however old the results are when they are applied.
HostAnnouncedOnce == "torn" \notin faults => \A h \in Hosts : bell[h] <= turns[h]

\* A host whose pending updates are held back as already announced was announced
\* since it was last found clean (short of a scan cut short between the two, and
\* of another host under an old slug).
HostNotSilenced == faults \cap {"edit", "cut"} = {} => notified \subseteq heard

\* "No timestamp for a check that never completed": a host with a time has
\* answered a check (or had the slug of one that did).
StampsEarned == "edit" \notin faults => stamped \subseteq answered

\* A wedged host cannot hold the scan open: hosts waiting for its slot get theirs
\* and the scan ends.
ScanEnds == Scanning ~> ~Scanning

\* "Fire one notification per host that has gone from clean to pending", also
\* when the scan is cut short between the store and the notification.
EveryPendingHeard == "edit" \notin faults => notified \subseteq heard

\* "without that, a six-hourly job would [...] go permanently quiet": a configured
\* host whose updates are held back was itself announced, not a host that had its
\* slug before.
NewHostHeard == "cut" \notin faults => notified \cap configured \subseteq heard
===============================================================================
