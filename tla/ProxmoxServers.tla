----------------------------- MODULE ProxmoxServers -----------------------------
(***************************************************************************)
(* The Proxmox servers in config.yml, their credentials, and the hosts     *)
(* that are reached through them (app/config_manager.py,                   *)
(* app/credentials.py, the Proxmox routes of app/admin.py and of the setup *)
(* wizard in app/auth_router.py, and the resolution in app/host_ops.py).   *)
(*                                                                         *)
(* Two shapes of configuration meet: the one server of the legacy          *)
(* `proxmox:` block, with hosts that do not name it and credentials under  *)
(* the bare key, and the list `proxmox_servers`, with hosts stamped with   *)
(* the id of their server and credentials under that id.  A migration      *)
(* turns the first into the second on startup, and in the wizard before a  *)
(* second server is added.                                                 *)
(*                                                                         *)
(* Handlers do not await between reading and writing, with one exception:  *)
(* nodes are asked for over the network and added when they have answered. *)
(* A page of discovered guests names the server it was made for and may be *)
(* submitted any time later.                                               *)
(***************************************************************************)
EXTENDS Integers, Sequences, SequencesExt, FiniteSets

CONSTANTS
    ServerUrls,   \* Proxmox servers; a server is known by its URL
    Bases,        \* what slugify_server_id makes of URLs
    Guests,       \* nodes, containers and virtual machines
    Owner,        \* the server each of them lives on
    Kind,         \* "node", "lxc" or "vm"
    NoServer, NoId, \* nothing there
    MaxServers,   \* bound: servers in the list
    Worlds        \* the settings the system is looked at in (see World)

ASSUME ServersAssumption ==
    NoServer \notin ServerUrls /\ MaxServers \in Nat \ {0}
ASSUME GuestsAssumption ==
    /\ Owner \in [Guests -> ServerUrls] /\ Kind \in [Guests -> {"node", "lxc", "vm"}]

\* may: the installation is one of an older version; the setup wizard and the admin
\* pages are used; the configuration is reset; the process dies inside a handler.
\* slug: slugify_server_id.
World ==
    [may : SUBSET {"upgraded", "wizard", "admin", "reset", "crash"}, slug : [ServerUrls -> Bases]]
ASSUME WorldsAssumption == Worlds \subseteq World

\* <<b, 1>> is the id b, <<b, 2>> the id b-2, and so on.
Ids == Bases \X (1..MaxServers)

ASSUME NoIdAssumption == NoId \notin Ids

VARIABLES
    world,       \* the setting of this behaviour; never changes
    running,     \* the process runs and has finished its startup
    wizard,      \* the setup wizard: "first" server, "more" servers, or "closed"
    legacy,      \* config.yml: the URL of the proxmox block
    multi,       \* config.yml: the key proxmox_servers exists
    servers,     \* config.yml: proxmox_servers
    configured,  \* config.yml: the hosts
    typed,       \* config.yml: the hosts with proxmox_node
    stamp,       \* config.yml: their proxmox_server
    bare,        \* credential store: whose credentials are under "proxmox"
    creds,       \* credential store: whose are under "proxmox_<id>"
    asking,      \* the request that waits for the nodes of a server
    page         \* the guests page that is open, by server

hosts == <<configured, typed, stamp>>
store == <<bare, creds>>
serversVars == <<world, running, wizard, legacy, multi, servers, hosts, store, asking, page>>

Server == [id : Ids, url : ServerUrls]
Target == [id : Ids \cup {NoId}, url : ServerUrls]
NoTarget == [id |-> NoId, url |-> NoServer]

ServersTypeOK ==
    /\ world \in Worlds
    /\ running \in BOOLEAN
    /\ wizard \in {"first", "more", "closed"}
    /\ legacy \in ServerUrls \cup {NoServer}
    /\ multi \in BOOLEAN
    /\ servers \in Seq(Server) /\ Len(servers) <= MaxServers /\ (servers # <<>> => multi)
    /\ configured \subseteq Guests /\ typed \subseteq configured
    /\ stamp \in [Guests -> Ids \cup {NoId}]
    /\ \A g \in Guests \ typed : stamp[g] = NoId
    /\ bare \in ServerUrls \cup {NoServer}
    /\ creds \in [Ids -> ServerUrls \cup {NoServer}]
    /\ asking \in Target \cup {NoTarget} /\ page \in Target \cup {NoTarget}

\* A fresh installation, or one that a version with one server has set up with its
\* node and containers, before the new version is started.
ServersInit ==
    /\ world \in Worlds
    /\ running = ("upgraded" \notin world.may)
    /\ multi = FALSE /\ servers = <<>>
    /\ IF "upgraded" \in world.may
       THEN /\ wizard = "closed"
            /\ legacy \in ServerUrls
            /\ bare = legacy
            /\ configured \in SUBSET {g \in Guests : Owner[g] = legacy /\ Kind[g] # "vm"}
       ELSE /\ wizard = "first"
            /\ legacy = NoServer /\ bare = NoServer /\ configured = {}
    /\ typed = configured
    /\ stamp = [g \in Guests |-> NoId]
    /\ creds = [i \in Ids |-> NoServer]
    /\ asking = NoTarget /\ page = NoTarget
-------------------------------------------------------------------------------
IdsOf(s) == {s[k].id : k \in DOMAIN s}

UrlOf(i) ==
    IF i \in IdsOf(servers) THEN servers[CHOOSE k \in DOMAIN servers : servers[k].id = i].url
    ELSE NoServer

\* get_proxmox_config: the legacy block, or else the first server.
FirstUrl ==
    IF legacy # NoServer THEN legacy ELSE IF servers # <<>> THEN Head(servers).url ELSE NoServer

\* get_integration_credentials("proxmox"), with the same fallback.
FirstCreds ==
    IF bare # NoServer THEN bare ELSE IF servers # <<>> THEN creds[Head(servers).id] ELSE NoServer

\* server_context: the server a host is reached through, and the credentials used.
ContextUrl(g) == IF stamp[g] # NoId THEN UrlOf(stamp[g]) ELSE FirstUrl
ContextCreds(g) == IF stamp[g] # NoId THEN creds[stamp[g]] ELSE FirstCreds

\* resolve_kind: a host whose server is unknown is handled like any SSH host.
ResolveKind(g) ==
    IF g \notin typed \/ (stamp[g] # NoId /\ stamp[g] \notin IdsOf(servers))
    THEN "plain" ELSE Kind[g]

\* Where run_os_update, for the dashboard and the scheduler, sends an upgrade.
UpgradeRoute(g) ==
    IF ResolveKind(g) = "lxc" THEN <<"pct", ContextUrl(g)>> ELSE <<"ssh", g>>

\* Where scan_host sends a check of a guest.
CheckRoute(g) == IF g \in typed THEN <<"pct", ContextUrl(g)>> ELSE <<"ssh", g>>
-------------------------------------------------------------------------------
(***************************************************************************)
(* Migration.                                                              *)
(***************************************************************************)

\* Mutant: the credentials stay under the bare key.
MoveCredentialsNot(i) == UNCHANGED store

\* rename_integration_credentials
MoveCredentials(i) ==
    /\ bare' = NoServer
    /\ creds' = IF bare = NoServer THEN creds ELSE [creds EXCEPT ![i] = bare]

\* migrate_proxmox_servers, up to saving the configuration.
MigrateConfig(i) ==
    IF servers # <<>>
    THEN legacy' = NoServer /\ UNCHANGED <<multi, servers, stamp>>
    ELSE /\ servers' = <<[id |-> i, url |-> legacy]>>
         /\ multi' = TRUE
         /\ stamp' = [g \in Guests |-> IF g \in typed THEN i ELSE NoId]
         /\ legacy' = NoServer

MigrateServers ==
    IF legacy = NoServer
    THEN UNCHANGED <<legacy, multi, servers, stamp, store>>
    ELSE LET i == <<world.slug[legacy], 1>>
         IN  /\ MigrateConfig(i)
             /\ IF servers = <<>> THEN MoveCredentials(i) ELSE UNCHANGED store

\* Requests under way are lost with the process, open pages are not.
Stop ==
    /\ running
    /\ running' = FALSE
    /\ asking' = NoTarget
    /\ UNCHANGED <<wizard, legacy, multi, servers, hosts, store, page>>

\* _startup
Start ==
    /\ ~running
    /\ MigrateServers
    /\ running' = TRUE
    /\ UNCHANGED <<wizard, configured, typed, asking, page>>

\* The process dies in the migration, with the configuration saved and the
\* credentials not yet moved.
StartCut ==
    /\ "crash" \in world.may /\ ~running /\ legacy # NoServer
    /\ MigrateConfig(<<world.slug[legacy], 1>>)
    /\ UNCHANGED <<running, wizard, configured, typed, store, asking, page>>
-------------------------------------------------------------------------------
(***************************************************************************)
(* Saving servers.                                                         *)
(***************************************************************************)

\* _unique_server_id
UniqueServerId(b) ==
    CHOOSE i \in {b} \X (1..MaxServers) :
        /\ i \notin IdsOf(servers)
        /\ \A j \in {b} \X (1..MaxServers) : j \notin IdsOf(servers) => i[2] <= j[2]

\* setup_save_proxmox without a server id: the wizard's first server.
SaveFirstServer(u) ==
    /\ "wizard" \in world.may /\ wizard = "first" /\ asking = NoTarget
    /\ \/ /\ ~multi \/ legacy # NoServer
          /\ legacy' = u
          /\ UNCHANGED <<multi, servers>>
       \/ /\ multi /\ legacy = NoServer
          /\ servers' = IF servers = <<>>
                        THEN <<[id |-> UniqueServerId(world.slug[u]), url |-> u]>>
                        ELSE [servers EXCEPT ![1].url = u]
          /\ UNCHANGED <<legacy, multi>>
    /\ bare' = u
    /\ asking' = [id |-> NoId, url |-> u]
    /\ wizard' = "more"
    /\ UNCHANGED <<hosts, creds, page>>

\* setup_proxmox_add_another
AddAnother ==
    /\ "wizard" \in world.may /\ wizard = "more"
    /\ MigrateServers
    /\ UNCHANGED <<wizard, configured, typed, asking, page>>

\* setup_save_proxmox for a new server: the wizard, after add-another, or the
\* blank card of the admin page.
AddServer(u, secrets) ==
    /\ Len(servers) < MaxServers /\ asking = NoTarget
    /\ \/ "wizard" \in world.may /\ wizard = "more" /\ legacy = NoServer /\ multi
       \/ "admin" \in world.may /\ wizard = "closed"
    /\ LET i == UniqueServerId(world.slug[u])
       IN  /\ servers' = Append(servers, [id |-> i, url |-> u])
           /\ IF secrets
              THEN /\ creds' = [creds EXCEPT ![i] = u]
                   /\ asking' = [id |-> i, url |-> u]
              ELSE UNCHANGED <<creds, asking>>
    /\ multi' = TRUE
    /\ UNCHANGED <<wizard, legacy, hosts, bare, page>>

FinishWizard ==
    /\ wizard = "more"
    /\ wizard' = "closed"
    /\ UNCHANGED <<legacy, multi, servers, hosts, store, asking, page>>

\* Saving the card of a known server with new secrets.
SaveSecrets(k) ==
    /\ "admin" \in world.may /\ wizard = "closed" /\ k \in DOMAIN servers
    /\ creds' = [creds EXCEPT ![servers[k].id] = servers[k].url]
    /\ UNCHANGED <<wizard, legacy, multi, servers, hosts, bare, asking, page>>

\* delete_proxmox_server; without the credentials if the process dies.
RemoveServer(k) ==
    /\ "admin" \in world.may /\ wizard = "closed" /\ k \in DOMAIN servers
    /\ LET i == servers[k].id
           its == {g \in typed : stamp[g] = i}
       IN  /\ servers' = RemoveAt(servers, k)
           /\ configured' = configured \ {g \in its : Kind[g] # "vm"}
           /\ typed' = typed \ its
           /\ stamp' = [g \in Guests |-> IF g \in its THEN NoId ELSE stamp[g]]
           /\ \/ creds' = [creds EXCEPT ![i] = NoServer]
              \/ "crash" \in world.may /\ UNCHANGED creds
    /\ UNCHANGED <<wizard, legacy, multi, bare, asking, page>>

\* admin_factory_reset
FactoryReset ==
    /\ {"reset", "admin"} \subseteq world.may /\ wizard = "closed"
    /\ bare' = NoServer
    /\ creds' = [i \in Ids |-> NoServer]
    /\ legacy' = NoServer
    /\ configured' = {} /\ typed' = {}
    /\ stamp' = [g \in Guests |-> NoId]
    /\ wizard' = "first"
    /\ UNCHANGED <<multi, servers, asking, page>>
-------------------------------------------------------------------------------
(***************************************************************************)
(* Hosts.                                                                  *)
(***************************************************************************)
AddHosts(S, i) ==
    /\ configured' = configured \cup S
    /\ typed' = typed \cup S
    /\ stamp' = [g \in Guests |-> IF g \in S THEN i ELSE stamp[g]]

\* admin_proxmox_add_node_host: ask the server for its nodes.
AskNodes(k) ==
    /\ "admin" \in world.may /\ wizard = "closed" /\ asking = NoTarget
    /\ k \in DOMAIN servers /\ creds[servers[k].id] # NoServer
    /\ asking' = servers[k]
    /\ UNCHANGED <<wizard, legacy, multi, servers, hosts, store, page>>

\* The nodes have answered and are added as hosts; a save goes on to its guests.
NodesAnswer ==
    /\ asking # NoTarget
    /\ AddHosts({g \in Guests \ configured : Kind[g] = "node" /\ Owner[g] = asking.url}, asking.id)
    /\ page' = asking
    /\ asking' = NoTarget
    /\ UNCHANGED <<wizard, legacy, multi, servers, store>>

NodesFail ==
    /\ asking # NoTarget
    /\ asking' = NoTarget
    /\ UNCHANGED <<wizard, legacy, multi, servers, hosts, store, page>>

\* setup_proxmox_discover: the wizard is opened again and goes on with the first server.
WizardDiscover ==
    /\ "wizard" \in world.may /\ wizard = "more" /\ asking = NoTarget
    /\ FirstUrl # NoServer /\ FirstCreds # NoServer
    /\ asking' = [id |-> NoId, url |-> FirstUrl]
    /\ UNCHANGED <<wizard, legacy, multi, servers, hosts, store, page>>

\* A guest on the page that is not a host yet.
Offered(g, kinds) ==
    page # NoTarget /\ Kind[g] \in kinds /\ Owner[g] = page.url /\ g \notin configured

\* admin_proxmox_select_hosts
SelectGuest(g) ==
    /\ wizard = "closed" /\ Offered(g, {"lxc", "vm"})
    /\ AddHosts({g}, page.id)
    /\ UNCHANGED <<wizard, legacy, multi, servers, store, asking, page>>

\* Mutant: containers are stored without the server they were found on.
SaveLxcsUnstamped(g) ==
    /\ wizard # "closed" /\ Offered(g, {"lxc"})
    /\ AddHosts({g}, NoId)
    /\ UNCHANGED <<wizard, legacy, multi, servers, store, asking, page>>

\* setup_proxmox_save_lxcs; the login it also saves is the server's own.
SaveLxcs(g) ==
    /\ wizard # "closed" /\ Offered(g, {"lxc"})
    /\ AddHosts({g}, page.id)
    /\ UNCHANGED <<wizard, legacy, multi, servers, store, asking, page>>

\* setup_proxmox_save_vms: nothing is kept of a VM but its address.
SaveVms(g) ==
    /\ wizard # "closed" /\ Offered(g, {"vm"})
    /\ configured' = configured \cup {g}
    /\ UNCHANGED <<wizard, legacy, multi, servers, typed, stamp, store, asking, page>>

\* admin_proxmox_discover
Discover(k) ==
    /\ "admin" \in world.may /\ wizard = "closed"
    /\ k \in DOMAIN servers /\ creds[servers[k].id] # NoServer
    /\ page' = servers[k]
    /\ UNCHANGED <<wizard, legacy, multi, servers, hosts, store, asking>>

\* admin_update_host: the rebuilt entry has no proxmox_* field.
UpdateHost(g) ==
    /\ "admin" \in world.may /\ g \in typed
    /\ typed' = typed \ {g}
    /\ stamp' = [stamp EXCEPT ![g] = NoId]
    /\ UNCHANGED <<wizard, legacy, multi, servers, configured, store, asking, page>>

DeleteHost(g) ==
    /\ "admin" \in world.may /\ g \in configured
    /\ configured' = configured \ {g}
    /\ typed' = typed \ {g}
    /\ stamp' = [stamp EXCEPT ![g] = NoId]
    /\ UNCHANGED <<wizard, legacy, multi, servers, store, asking, page>>

Request ==
    \/ AddAnother \/ WizardDiscover \/ FinishWizard \/ FactoryReset \/ NodesAnswer \/ NodesFail
    \/ \E u \in ServerUrls : SaveFirstServer(u) \/ (\E secrets \in BOOLEAN : AddServer(u, secrets))
    \/ \E k \in 1..MaxServers : SaveSecrets(k) \/ RemoveServer(k) \/ AskNodes(k) \/ Discover(k)
    \/ \E g \in Guests : SelectGuest(g) \/ SaveLxcs(g) \/ SaveVms(g) \/ UpdateHost(g) \/ DeleteHost(g)

ServersNext ==
    (Stop \/ Start \/ StartCut \/ (running /\ Request /\ UNCHANGED running)) /\ UNCHANGED world

ServersSpec == ServersInit /\ [][ServersNext]_serversVars
-------------------------------------------------------------------------------
(***************************************************************************)
(* Properties                                                              *)
(***************************************************************************)

\* The hosts that are reached through a Proxmox server.
Routed == {g \in typed : ResolveKind(g) \in {"node", "lxc"}}

\* The admin pages are not used on what the wizard left (see FirstServerKept), and
\* only where no two URLs give the same base id.
OneWay ==
    "admin" \in world.may => /\ "wizard" \notin world.may
                             /\ \A u, v \in ServerUrls : world.slug[u] = world.slug[v] => u = v

\* No host is ever checked or upgraded through a server it does not live on, nor
\* with the credentials of one, though requests and pages outlive the servers
\* they were for.
RightServer ==
    OneWay => \A g \in Routed : {ContextUrl(g), ContextCreds(g)} \subseteq {NoServer, Owner[g]}

\* Two servers never share an id, whatever their URLs slugify to.
IdsTellApart == \A k, m \in DOMAIN servers : servers[k].id = servers[m].id => k = m

Reachable == {g \in Routed : ContextUrl(g) # NoServer /\ ContextCreds(g) # NoServer}

\* The migration costs no host its server: what could be reached under the legacy
\* block can be reached, with the same credentials, through the list (unless the
\* process dies half-way).
AccessKept ==
    [][ OneWay /\ "crash" \notin world.may /\ legacy # NoServer /\ legacy' = NoServer
            /\ wizard' # "first" => Reachable \subseteq Reachable' ]_serversVars

\* "Deleting the legacy key is what makes it idempotent": a migration that was
\* interrupted is completed by the next start, and no credentials stay behind under
\* the bare key, where no migrated host looks for them.
MigrationCompletes == running /\ multi /\ legacy = NoServer => bare = NoServer

\* "The first server would disappear [...]. So the first server is converted into a
\* real entry before a second one is added": no startup forgets a saved server.
FirstServerKept ==
    [][ legacy # NoServer /\ legacy' = NoServer /\ wizard' # "first"
        => \E k \in DOMAIN servers' : servers'[k].url = legacy ]_serversVars

\* "An unknown id resolves to empty config, which every caller reports as 'not
\* configured'": no host is added under the id of a server that is gone.
NoOrphans == \A g \in typed : stamp[g] # NoId => stamp[g] \in IdsOf(servers)

\* "VMs: stored as regular hosts": a guest is checked where it is upgraded.
CheckedWhereUpgraded ==
    \A g \in configured : Kind[g] # "node" => CheckRoute(g) = UpgradeRoute(g)

\* "What is deleted: [...] integration configs".
ResetForgetsServers == [][wizard = "closed" /\ wizard' = "first" => servers' = <<>>]_serversVars
===============================================================================
