------------------------------ MODULE Connections ------------------------------
(***************************************************************************)
(* The connections to Proxmox, Portainer, the backup server and the        *)
(* firewalls: testing and saving them (app/auth_router.py, app/admin.py,   *)
(* app/config_manager.py), the certificates that are pinned on first use   *)
(* (app/cert_utils.py, the migration in app/main.py), and the clients that *)
(* use them, with a circuit breaker for each hostname                      *)
(* (app/httpx_client.py).                                                  *)
(*                                                                         *)
(* A certificate that is not known is fetched, shown and kept in the       *)
(* browser's session as pending; accepting it connects once more, with the *)
(* pending certificate alone, and makes it the confirmed one; saving the   *)
(* form pins the confirmed certificate.  The three steps are requests of   *)
(* their own: forms are edited, servers change their certificates and      *)
(* other cards are used in between.  All cards of one kind share the names *)
(* in the session.                                                         *)
(*                                                                         *)
(* A request to a server is one step here.  Wrong tokens and HTTP errors   *)
(* neither count for a breaker nor change anything, and are left out.      *)
(***************************************************************************)
EXTENDS Integers, FiniteSets

CONSTANTS
    Conns,        \* 1..n; Proxmox servers are numbered in the order they are added
    Urls, Names,  \* addresses, and their hostnames
    Certs,
    Vouched,      \* the certificates that are valid without being pinned
    NoUrl, NoCert,
    Layouts,      \* what the connections are, which addresses share a hostname, the
                  \* certificates at the start, and where an old installation connects to
    FailMax,      \* fail_max
    Pause,        \* timeout_duration, in ticks
    CookieFits,   \* certificates that fit into a cookie
    MaxForms,     \* bound: forms that the administrator sends
    MaxEvents     \* bound: restarts, polls, slow requests, changes of the servers

\* "pbs" also stands for OPNsense and pfSense, which are handled alike.
Kinds == {"proxmox", "portainer", "pbs"}
Layout ==
    [kind : [Conns -> Kinds], name : [Urls -> Names], cert : [Urls -> Certs], old : SUBSET Urls]

ASSUME ConnectionsAssumption ==
    /\ Conns \subseteq Nat
    /\ NoUrl \notin Urls /\ NoCert \notin Certs /\ Vouched \subseteq Certs
    /\ Layouts \subseteq Layout
    /\ FailMax \in Nat \ {0} /\ Pause \in Nat \ {0}
    /\ MaxForms \in Nat /\ MaxEvents \in Nat

VARIABLES
    layout,    \* the setting of this behaviour; never changes
    up,        \* the process has finished its startup
    todo,      \* the connections its migration has not looked at
    migrated,  \* config.yml: tofu_migrated
    config,    \* config.yml: the entry of each connection
    cookie,    \* the session: pending_cert_<kind> and confirmed_cert_<kind>
    late,      \* the cookie that a response under way will bring back
    prompt,    \* the certificate that a card asks the administrator to trust
    server,    \* what is at each address
    breaker,   \* _breakers
    last,      \* the certificate of the server that has last answered each connection
    shown,     \* history: the certificates that were shown
    earned,    \* history: those that were accepted, for what and where
    chosen,    \* history: whether the administrator wants no verification
    forms, events

disk == <<migrated, config>>
browser == <<cookie, late, prompt>>
history == <<shown, earned, chosen>>
bounds == <<forms, events>>
vars == <<layout, up, todo, disk, browser, server, breaker, last, history, bounds>>

kind == layout.kind
name == layout.name

Nothing == [url |-> NoUrl, pin |-> NoCert, verify |-> TRUE]
Closed == [fails |-> 0, wait |-> 0]
NoneOf == [k \in Kinds |-> NoCert]
Empty == [pending |-> NoneOf, confirmed |-> NoneOf]

Cert0 == Certs \cup {NoCert}
Entry == [url : Urls \cup {NoUrl}, pin : Cert0, verify : BOOLEAN]
Cookie == [pending : [Kinds -> Cert0], confirmed : [Kinds -> Cert0]]

TypeOK ==
    /\ layout \in Layouts
    /\ up \in BOOLEAN /\ todo \subseteq Conns /\ migrated \in BOOLEAN
    /\ config \in [Conns -> Entry]
    /\ cookie \in Cookie /\ late \in Cookie
    /\ prompt \in [Conns -> Cert0]
    /\ server \in [Urls -> [cert : Certs, up : BOOLEAN]]
    /\ breaker \in [Names -> [fails : 0..FailMax, wait : 0..Pause]]
    /\ last \in [Conns -> Cert0]
    /\ shown \subseteq Certs /\ earned \subseteq Kinds \X Urls \X Certs
    /\ chosen \in [Conns -> BOOLEAN]
    /\ forms \in 0..MaxForms /\ events \in 0..MaxEvents

\* A fresh installation, or one of a version without pinning with its first connection
\* not verified.
Init ==
    /\ layout \in Layouts
    /\ up = FALSE /\ todo = Conns /\ migrated = FALSE
    /\ \E old \in {Nothing} \cup {[url |-> u, pin |-> NoCert, verify |-> FALSE] : u \in layout.old} :
           /\ config = [c \in Conns |-> IF c = 1 THEN old ELSE Nothing]
           /\ chosen = [c \in Conns |-> ~config[c].verify]
    /\ cookie = Empty /\ late = Empty
    /\ prompt = [c \in Conns |-> NoCert]
    /\ server = [u \in Urls |-> [cert |-> layout.cert[u], up |-> TRUE]]
    /\ breaker = [n \in Names |-> Closed]
    /\ last = [c \in Conns |-> NoCert]
    /\ shown = {} /\ earned = {}
    /\ forms = 0 /\ events = 0

Form == forms < MaxForms /\ forms' = forms + 1 /\ UNCHANGED events
Event == events < MaxEvents /\ events' = events + 1 /\ UNCHANGED forms
-------------------------------------------------------------------------------
(***************************************************************************)
(* Reaching a server.                                                      *)
(***************************************************************************)

\* What comes of connecting to an address with a pinned certificate or none, or
\* without verification: build_pinned_ssl_ctx, make_client.
Outcome(u, pin, verify) ==
    IF ~server[u].up THEN "unreachable"
    ELSE IF ~verify \/ (IF pin = NoCert THEN server[u].cert \in Vouched ELSE server[u].cert = pin)
         THEN "ok" ELSE "certificate"

Guarded(c) == kind[c] \in {"proxmox", "portainer"}

\* Portainer has no switch for the verification.
CanSkip(c) == kind[c] # "portainer"

Open(c, u) == Guarded(c) /\ breaker[name[u]].wait > 0

\* Mutant: what a breaker has refused counts as one more failure.
RefusedCounts(u) == breaker' = [breaker EXCEPT ![name[u]].wait = Pause]

\* A breaker that is open refuses without asking the server, and stays as it is.
Refused(u) == UNCHANGED breaker

\* _BreakerClient: failures in a row open the breaker of the hostname, and so does the
\* first one after the pause; a success closes it.
Through(c, u, out) ==
    breaker' =
        IF Guarded(c)
        THEN [breaker EXCEPT ![name[u]] =
                  IF out = "ok" THEN Closed
                  ELSE IF @.fails + 1 < FailMax THEN [@ EXCEPT !.fails = @ + 1]
                  ELSE [fails |-> FailMax, wait |-> Pause]]
        ELSE breaker

Verifies(c) == config[c].verify \/ ~CanSkip(c)

\* What comes of using a connection as it is saved.
UseOutcome(c) == Outcome(config[c].url, config[c].pin, Verifies(c))

\* A scan, a status card or an upgrade: a request through the connection.
Use(c) ==
    /\ up /\ config[c].url # NoUrl
    /\ LET u == config[c].url IN
       IF Open(c, u)
       THEN Refused(u) /\ last' = [last EXCEPT ![c] = NoCert]
       ELSE /\ Through(c, u, UseOutcome(c))
            /\ last' = [last EXCEPT ![c] = IF UseOutcome(c) = "ok" THEN server[u].cert ELSE NoCert]
    /\ UNCHANGED <<layout, up, todo, disk, browser, server, history, bounds>>

\* ProxmoxClient.wait_for_node, one poll: verified, whatever the entry says.
PollOutcome(c) == Outcome(config[c].url, config[c].pin, TRUE)

Poll(c) ==
    /\ up /\ Event /\ kind[c] = "proxmox" /\ config[c].url # NoUrl
    /\ ~Open(c, config[c].url)
    /\ Through(c, config[c].url, PollOutcome(c))
    /\ UNCHANGED <<layout, up, todo, disk, browser, server, last, history>>

\* The clock.
Tick ==
    /\ \E n \in Names : breaker[n].wait > 0
    /\ breaker' = [n \in Names |-> IF breaker[n].wait > 0 THEN [breaker[n] EXCEPT !.wait = @ - 1] ELSE breaker[n]]
    /\ UNCHANGED <<layout, up, todo, disk, browser, server, last, history, bounds>>
-------------------------------------------------------------------------------
(***************************************************************************)
(* Testing, trusting and saving.                                           *)
(***************************************************************************)

\* A cookie that is too large is not taken by the browser.
Size(ck) ==
    Cardinality({k \in Kinds : ck.pending[k] # NoCert}) + Cardinality({k \in Kinds : ck.confirmed[k] # NoCert})

SetCookie(new) == cookie' = (IF Size(new) <= CookieFits THEN new ELSE cookie) /\ UNCHANGED late

Shows(c, cert) == prompt' = [prompt EXCEPT ![c] = cert]

\* fetch_server_cert, and the prompt; or the details could not be fetched.
Offer(c, u) ==
    \/ /\ SetCookie([cookie EXCEPT !.pending[kind[c]] = server[u].cert])
       /\ Shows(c, server[u].cert)
       /\ shown' = shown \cup {server[u].cert}
    \/ Shows(c, NoCert) /\ UNCHANGED <<cookie, late, shown>>

\* The pin that a test starts from: that of the entry, and on the card for another
\* Proxmox server that of the first one.
TestPin(c) ==
    IF config[c].url = NoUrl /\ kind[c] = "proxmox" THEN config[1].pin ELSE config[c].pin

\* The Proxmox servers are added one after the other.
CardThere(c) == kind[c] = "proxmox" => \A d \in Conns : d < c => config[d].url # NoUrl

Test(c, u, skip) ==
    /\ up /\ Form /\ CardThere(c) /\ (skip => CanSkip(c))
    /\ ~Open(c, u)
    /\ LET out == Outcome(u, TestPin(c), ~skip) IN
       /\ Through(c, u, out)
       /\ IF out = "certificate" THEN Offer(c, u) ELSE Shows(c, NoCert) /\ UNCHANGED <<cookie, late, shown>>
    /\ UNCHANGED <<layout, up, todo, disk, server, last, earned, chosen>>

\* The breaker is open: the card shows the error and asks for nothing.
TestRefused(c, u) ==
    /\ up /\ Form /\ CardThere(c) /\ Open(c, u)
    /\ Refused(u) /\ Shows(c, NoCert)
    /\ UNCHANGED <<layout, up, todo, disk, cookie, late, server, last, history>>

\* Mutant: the certificate is fetched once more when it is accepted.
AcceptedFetched(c, u) == server[u].cert

\* pending_cert_<kind>
Accepted(c, u) == cookie.pending[kind[c]]

\* The same form with trust_accepted; it may have been edited since the prompt.
Trust(c, u) ==
    /\ up /\ Form /\ prompt[c] # NoCert /\ cookie.pending[kind[c]] # NoCert
    /\ ~Open(c, u)
    /\ LET pem == Accepted(c, u)
           out == Outcome(u, pem, TRUE)
       IN  /\ Through(c, u, out)
           /\ CASE out = "ok" ->
                     /\ SetCookie([cookie EXCEPT !.confirmed[kind[c]] = pem, !.pending[kind[c]] = NoCert])
                     /\ Shows(c, NoCert)
                     /\ earned' = earned \cup {<<kind[c], u, x>> : x \in {pem} \cap shown}
                     /\ UNCHANGED shown
                [] out = "certificate" -> Offer(c, u) /\ UNCHANGED earned
                [] OTHER -> Shows(c, NoCert) /\ UNCHANGED <<cookie, late, shown, earned>>
    /\ UNCHANGED <<layout, up, todo, disk, server, last, chosen>>

\* save_<kind>_config and update_proxmox_server: no certificate leaves the pin alone.
Merged(old, u, pem, skip) ==
    [url |-> u, pin |-> IF pem # NoCert THEN pem ELSE old.pin, verify |-> ~skip]

Popped(c) == [cookie EXCEPT !.confirmed[kind[c]] = NoCert]

Save(c, u, skip) ==
    /\ up /\ Form /\ CardThere(c) /\ (skip => CanSkip(c))
    /\ SetCookie(Popped(c))
    /\ config' = [config EXCEPT ![c] = Merged(@, u, cookie.confirmed[kind[c]], skip)]
    /\ chosen' = [chosen EXCEPT ![c] = skip]
    /\ UNCHANGED <<layout, up, todo, migrated, prompt, server, breaker, last, shown, earned>>

\* Saving with an empty URL.  Proxmox servers have a button of their own
\* (see ProxmoxServers).
RemoveConnection(c) ==
    /\ up /\ Form /\ kind[c] # "proxmox" /\ config[c].url # NoUrl
    /\ SetCookie(Popped(c))
    /\ config' = [config EXCEPT ![c] = Nothing]
    /\ chosen' = [chosen EXCEPT ![c] = FALSE]
    /\ UNCHANGED <<layout, up, todo, migrated, prompt, server, breaker, last, shown, earned>>

\* Another request takes its time; its response sends back the cookie it came with.
SlowRequest ==
    /\ up /\ Event /\ late = Empty /\ cookie # Empty
    /\ late' = cookie
    /\ UNCHANGED <<layout, up, todo, disk, cookie, prompt, server, breaker, last, history>>

SlowResponse ==
    /\ late # Empty
    /\ cookie' = late /\ late' = Empty
    /\ UNCHANGED <<layout, up, todo, disk, prompt, server, breaker, last, history, bounds>>
-------------------------------------------------------------------------------
(***************************************************************************)
(* Starting, and the servers.                                              *)
(***************************************************************************)

\* Mutant: the certificate is pinned, and still not verified.
PinnedUnverified(old, cert) == [old EXCEPT !.pin = cert]

\* save_cfg(url, pem, fingerprint), with verify_ssl by default.
Pinned(old, cert) == [old EXCEPT !.pin = cert, !.verify = TRUE]

\* _migrate_tofu_certs: an entry that is not verified and not pinned.  Of the Proxmox
\* servers it looks at the first.
Migrate(c) ==
    /\ ~up /\ ~migrated /\ c \in todo
    /\ todo' = todo \ {c}
    /\ LET old == config[c] IN
       IF /\ old.url # NoUrl /\ ~old.verify /\ old.pin = NoCert
          /\ kind[c] = "proxmox" => c = 1
          /\ server[old.url].up
       THEN /\ config' = [config EXCEPT ![c] = Pinned(old, server[old.url].cert)]
            /\ earned' = earned \cup {<<kind[c], old.url, server[old.url].cert>>}
            /\ chosen' = [chosen EXCEPT ![c] = FALSE]
       ELSE UNCHANGED <<config, earned, chosen>>
    /\ UNCHANGED <<layout, up, migrated, browser, server, breaker, last, shown, bounds>>

\* mark_tofu_migrated, also when a certificate could not be fetched.
Started ==
    /\ ~up /\ (migrated \/ todo = {})
    /\ up' = TRUE /\ migrated' = TRUE
    /\ UNCHANGED <<layout, todo, config, browser, server, breaker, last, history, bounds>>

\* The process stops, also in the middle of its startup.
Restart ==
    /\ Event
    /\ up' = FALSE /\ todo' = Conns
    /\ breaker' = [n \in Names |-> Closed]
    /\ UNCHANGED <<layout, disk, browser, server, last, history>>

ServerChanges(u) ==
    /\ Event
    /\ \E s \in [cert : Certs, up : BOOLEAN] :
           s # server[u] /\ (s.cert = server[u].cert \/ s.up = server[u].up) /\ server' = [server EXCEPT ![u] = s]
    /\ UNCHANGED <<layout, up, todo, disk, browser, breaker, last, history>>

Starting == Started \/ \E c \in Conns : Migrate(c)

Next ==
    \/ Starting \/ Restart \/ Tick
    \/ \E c \in Conns :
           \/ Use(c) \/ Poll(c) \/ RemoveConnection(c)
           \/ \E u \in Urls : TestRefused(c, u) \/ Trust(c, u) \/ \E skip \in BOOLEAN : Test(c, u, skip) \/ Save(c, u, skip)
    \/ SlowRequest \/ SlowResponse
    \/ \E u \in Urls : ServerChanges(u)

Spec == Init /\ [][Next]_vars

\* A start comes to its end, the clock goes on, and connections are used again and
\* again (scans and the dashboard).
FairSpec ==
    Spec /\ WF_vars(Starting) /\ WF_vars(Tick) /\ \A c \in Conns : WF_vars(Use(c))
-------------------------------------------------------------------------------
(***************************************************************************)
(* Properties                                                              *)
(***************************************************************************)

Earned(k) == {x \in Certs : \E u \in Urls : <<k, u, x>> \in earned}

\* "Review it carefully - once trusted, Keepup will only accept this exact
\* certificate": a certificate is pinned, or waits to be, only if the administrator
\* was shown it, has accepted it for a connection of that kind, and a server has then
\* presented it, whatever was tested, edited and changed in between; or if the
\* migration has captured it.
PinEarned ==
    /\ \A c \in Conns : config[c].pin \in Earned(kind[c]) \cup {NoCert}
    /\ \A k \in Kinds : cookie.confirmed[k] \in Earned(k) \cup {NoCert}

\* "saving an unrelated field cannot silently unpin a certificate": a pinned
\* connection stays pinned until it is removed.
PinKept ==
    [][\A c \in Conns :
           config[c].pin # NoCert /\ config'[c].url # NoUrl => config'[c].pin # NoCert]_vars

\* A connection the administrator has not exempted gives its token to a server only if
\* that has the pinned certificate, or with none pinned a valid one; one that an
\* upgrade has pinned is no longer exempt.
PinEnforced ==
    [][\A c \in Conns :
           last'[c] # last[c] /\ last'[c] # NoCert /\ ~chosen[c] =>
               IF config[c].pin = NoCert THEN last'[c] \in Vouched ELSE last'[c] = config[c].pin]_vars

Neighbours(c) ==
    {d \in Conns : d = c \/ (/\ Guarded(c) /\ Guarded(d)
                             /\ config[d].url # NoUrl /\ name[config[d].url] = name[config[c].url])}

\* A server that has failed is used again: a connection is served time and again,
\* unless its server, or one that shares its breaker, stays unreachable or presents
\* something that is not accepted.
ServedAgain ==
    \A c \in Conns :
        []<>(\/ config[c].url = NoUrl
             \/ last[c] # NoCert
             \/ \E d \in Neighbours(c) : UseOutcome(d) # "ok")

\* The same, whatever becomes of the other servers.
ServedAgainAlone ==
    \A c \in Conns :
        []<>(config[c].url = NoUrl \/ last[c] # NoCert \/ UseOutcome(c) # "ok")

\* "Keepup will only accept this exact certificate from this server": a connection is
\* pinned to a certificate that was accepted for its own address.
PinOfItsServer ==
    \A c \in Conns : config[c].pin # NoCert => <<kind[c], config[c].url, config[c].pin>> \in earned

\* "an optional skip-verify toggle": what the connection may be used for, it may be
\* polled for after a reboot.
SkipHonoured ==
    up => \A c \in Conns :
        kind[c] = "proxmox" /\ config[c].url # NoUrl /\ UseOutcome(c) = "ok" => PollOutcome(c) = "ok"

\* A certificate that was just shown can be accepted.
TrustPossible ==
    [][\A c \in Conns : prompt'[c] # prompt[c] /\ prompt'[c] # NoCert => cookie'.pending[kind[c]] = prompt'[c]]_vars

\* "for integrations previously using verify_ssl=False, auto-pin the cert"
AllPinned ==
    migrated => \A c \in Conns : config[c].url # NoUrl /\ ~config[c].verify /\ chosen[c] => forms > 0
===============================================================================
