------------------------------- MODULE HostStore -------------------------------
(***************************************************************************)
(* The hosts in config.yml (app/config_manager.py) and their secrets in    *)
(* the encrypted credential store (app/credentials.py), which are tied     *)
(* together by nothing but the slug of the host's name, as the admin pages *)
(* (app/admin.py) and the setup wizard (app/auth_router.py) write them.    *)
(*                                                                         *)
(* Requests do not interleave: none awaits between reading and writing.    *)
(* But a request writes two files one after the other, each in place; what *)
(* cannot be decrypted reads as an empty store; and a form may be sent     *)
(* long after the page with it was made.                                   *)
(***************************************************************************)
EXTENDS Naturals, Sequences, FiniteSets

CONSTANTS
    Machines,       \* what hosts really are
    Slugs,          \* slugify of their names
    Nobody,         \* no machine
    Keys, HomeKey,  \* Fernet keys, and the one the operator means to use
    Broken,         \* not a key: what seals a half-written store
    MaxHosts,       \* bound: hosts in config.yml
    FaultSets       \* what may go wrong: one of these sets, in each behaviour

ASSUME KeysAssumption == HomeKey \in Keys /\ Broken \notin Keys /\ Nobody \notin Machines
ASSUME BoundsAssumption == MaxHosts \in Nat

\* A request dies between its two files, or leaves half a file behind; a form is
\* sent for a host that is gone; the process is started with another key; the
\* administrator uses a name twice, or names a host like an integration.
Faults == {"cut", "torn", "stale", "other key", "same name", "email"}
ASSUME FaultsAssumption == FaultSets \subseteq SUBSET Faults

Fields == {"ssh", "sudo"}

VARIABLES
    faults,   \* what may go wrong in this behaviour; never changes
    hosts,    \* config.yml
    store,    \* credentials.json: by slug and field, the machine a secret is for
    sealed,   \* the key it is encrypted with
    key,      \* the key this process resolves
    form,     \* the host whose credentials form is open
    given     \* history: the secrets that are owed to each machine

vars == <<faults, hosts, store, sealed, key, form, given>>

Host == [slug : Slugs, machine : Machines]
NoForm == [slug |-> "none", machine |-> Nobody]

NoSecrets == [f \in Fields |-> Nobody]
EmptyStore == [s \in Slugs |-> NoSecrets]

TypeOK ==
    /\ faults \in FaultSets
    /\ hosts \in Seq(Host) /\ Len(hosts) <= MaxHosts
    /\ store \in [Slugs -> [Fields -> Machines \cup {Nobody}]]
    /\ sealed \in Keys \cup {Broken} /\ key \in Keys
    /\ form \in Host \cup {NoForm}
    /\ given \in [Machines -> SUBSET Fields]

Init ==
    /\ faults \in FaultSets
    /\ hosts = <<>>
    /\ store = EmptyStore
    /\ sealed = HomeKey /\ key = HomeKey
    /\ form = NoForm
    /\ given = [m \in Machines |-> {}]
-------------------------------------------------------------------------------
(***************************************************************************)
(* The files.                                                              *)
(***************************************************************************)
SlugsOf(s) == {s[k].slug : k \in DOMAIN s}
MachinesOf(s) == {s[k].machine : k \in DOMAIN s}

\* _load_store: whatever goes wrong, the store is empty.
LoadStore == IF sealed = key THEN store ELSE EmptyStore

\* _save_store: the file is written in place.
SaveStore(new) ==
    \/ store' = new /\ sealed' = key
    \/ "torn" \in faults /\ sealed' = Broken /\ UNCHANGED store

\* Mutant: the fields that were not filled in are reset.
SaveCredentialsAll(s, m, saved, cleared) ==
    SaveStore([LoadStore EXCEPT ![s] = [f \in Fields |-> IF f \in saved THEN m ELSE Nobody]])

\* save_credentials: fields saved for machine m, and cleared, under slug s.
SaveCredentials(s, m, saved, cleared) ==
    SaveStore([LoadStore EXCEPT ![s] =
                 [f \in Fields |-> IF f \in saved THEN m ELSE IF f \in cleared THEN Nobody ELSE @[f]]])

\* Mutant: the secrets of a deleted host are kept.
DeleteCredentialsNot(s) == SaveStore(LoadStore)

DeleteCredentials(s) == SaveStore([LoadStore EXCEPT ![s] = NoSecrets])

\* rename_credentials: nothing is written if there is nothing to move.
RenameCredentials(s, t) ==
    IF s = t \/ LoadStore[s] = NoSecrets THEN UNCHANGED <<store, sealed>>
    ELSE SaveStore([LoadStore EXCEPT ![t] = LoadStore[s], ![s] = NoSecrets])

\* The process dies after config.yml is written and before the store is.
CutShort == "cut" \in faults /\ UNCHANGED <<store, sealed>>

Owe(m, fields) == given' = [given EXCEPT ![m] = fields]
-------------------------------------------------------------------------------
(***************************************************************************)
(* Requests.                                                               *)
(***************************************************************************)
FreeName(t) == "same name" \in faults \/ t \notin SlugsOf(hosts)

\* admin_add_host, and the wizard for a host with a key file.
AddHost(s, m) ==
    /\ Len(hosts) < MaxHosts /\ m \notin MachinesOf(hosts)
    /\ FreeName(s)
    /\ hosts' = Append(hosts, [slug |-> s, machine |-> m])
    /\ Owe(m, {})
    /\ UNCHANGED <<faults, store, sealed, key, form>>

\* setup_add_host, setup_confirm_add_host, setup_card_add with a password.
AddHostWithPassword(s, m) ==
    /\ Len(hosts) < MaxHosts /\ m \notin MachinesOf(hosts)
    /\ FreeName(s)
    /\ hosts' = Append(hosts, [slug |-> s, machine |-> m])
    /\ SaveCredentials(s, m, {"ssh"}, {})
    /\ Owe(m, {"ssh"})
    /\ UNCHANGED <<faults, key, form>>

\* admin_update_host: the first entry with the slug is renamed, then its secrets.
UpdateHost(s, t) ==
    /\ s \in SlugsOf(hosts) /\ (t = s \/ FreeName(t))
    /\ LET first == CHOOSE k \in DOMAIN hosts :
                      hosts[k].slug = s /\ \A j \in DOMAIN hosts : hosts[j].slug = s => k <= j
       IN  /\ hosts' = [hosts EXCEPT ![first].slug = t]
           /\ \/ RenameCredentials(s, t) /\ UNCHANGED given
              \/ s # t /\ CutShort /\ Owe(hosts[first].machine, {})
    /\ UNCHANGED <<faults, key, form>>

\* admin_delete_host, setup_remove_host: every entry with the slug; the others
\* keep their order.
DeleteHost(s) ==
    /\ s \in SlugsOf(hosts) \/ "stale" \in faults
    /\ LET kept == {k \in DOMAIN hosts : hosts[k].slug # s}
       IN  \E n \in 0..Len(hosts) : \E place \in [1..n -> kept] :
             /\ \A i, j \in 1..n : i < j => place[i] < place[j]
             /\ \A k \in kept : \E i \in 1..n : place[i] = k
             /\ hosts' = [i \in 1..n |-> hosts[place[i]]]
    /\ given' = [m \in Machines |-> IF m \in MachinesOf(hosts') THEN given[m] ELSE {}]
    /\ DeleteCredentials(s) \/ CutShort
    /\ UNCHANGED <<faults, key, form>>

OpenForm(k) ==
    /\ form' = hosts[k]
    /\ UNCHANGED <<faults, hosts, store, sealed, key, given>>

\* admin_save_credentials, for the host the form was made for.  Changing the way
\* to log in clears the other secret.
SubmitForm(saved, cleared) ==
    /\ form # NoForm
    /\ form \in {hosts[k] : k \in DOMAIN hosts} \/ "stale" \in faults
    /\ SaveCredentials(form.slug, form.machine, saved, cleared)
    /\ IF form.machine \in MachinesOf(hosts)
       THEN Owe(form.machine, (given[form.machine] \cup saved) \ cleared)
       ELSE UNCHANGED given
    /\ UNCHANGED <<faults, hosts, key, form>>

\* admin_factory_reset: first the store, then config.yml.
FactoryReset ==
    /\ SaveStore(EmptyStore)
    /\ hosts' = <<>> \/ ("cut" \in faults /\ UNCHANGED hosts)
    /\ given' = [m \in Machines |-> {}]
    /\ UNCHANGED <<faults, key, form>>

\* setup_delete_email: the secrets of a host called "email" are deleted.
DeleteEmail(s) ==
    /\ "email" \in faults
    /\ DeleteCredentials(s)
    /\ UNCHANGED <<faults, hosts, key, form, given>>

\* The process is restarted, with the same key or with another.
RestartWithKey(k) ==
    /\ k = HomeKey \/ "other key" \in faults
    /\ key' = k
    /\ UNCHANGED <<faults, hosts, store, sealed, form, given>>

Request ==
    \/ \E s \in Slugs, m \in Machines : AddHost(s, m) \/ AddHostWithPassword(s, m)
    \/ \E s, t \in Slugs : UpdateHost(s, t)
    \/ \E s \in Slugs : DeleteHost(s) \/ DeleteEmail(s)
    \/ \E k \in DOMAIN hosts : OpenForm(k)
    \/ \E saved \in SUBSET Fields, cleared \in SUBSET {"ssh"} :
         saved \cap cleared = {} /\ SubmitForm(saved, cleared)
    \/ \E k \in Keys : RestartWithKey(k)

Next == Request \/ FactoryReset

Spec == Init /\ [][Next]_vars
-------------------------------------------------------------------------------
(***************************************************************************)
(* Properties                                                              *)
(***************************************************************************)

\* No host is ever connected to with the secrets of another machine, whatever was
\* renamed, deleted, added again or lost with a torn file.
RightSecrets ==
    faults \subseteq {"torn", "email"} =>
      \A k \in DOMAIN hosts, f \in Fields :
          LoadStore[hosts[k].slug][f] \in {hosts[k].machine, Nobody}

\* A request that is cut short between the two files costs no other host its
\* secrets: what was entered for a host is there until somebody deletes it.
SecretsKept ==
    faults \subseteq {"cut"} =>
        \A k \in DOMAIN hosts : \A f \in given[hosts[k].machine] :
            LoadStore[hosts[k].slug][f] = hosts[k].machine

\* The same where a host has the name of an integration whose settings are deleted.
SecretsKeptAnyName ==
    faults \subseteq {"email"} =>
        \A k \in DOMAIN hosts : \A f \in given[hosts[k].machine] :
            LoadStore[hosts[k].slug][f] = hosts[k].machine

\* "Called when a host is renamed so credentials follow the new slug": the secrets
\* of a configured machine are under no slug that it does not have.
CredentialsFollow ==
    \A k \in DOMAIN hosts, s \in Slugs \ SlugsOf(hosts), f \in Fields :
        LoadStore[s][f] # hosts[k].machine

\* "Pass None to leave an existing value unchanged": saving one secret costs no
\* other, also after a start with the wrong key.
NoneLeavesUnchanged ==
    key = HomeKey /\ sealed # Broken =>
        \A k \in DOMAIN hosts : \A f \in given[hosts[k].machine] :
            LoadStore[hosts[k].slug][f] = hosts[k].machine
===============================================================================
