-------------------------- MODULE ConnectionsProofs ---------------------------
(***************************************************************************)
(* The safety of the connections to other systems: Connections, and        *)
(* ProxmoxServers for the hosts that are reached through one of them, one  *)
(* section each.                                                           *)
(***************************************************************************)
EXTENDS Connections, ProxmoxServers, FiniteSetTheorems, SequenceTheorems,
        WellFoundedInduction, TLAPS

-------------------------------------------------------------------------------
(***************************************************************************)
(* Connections: only certificates the administrator has accepted are       *)
(* pinned, pins are kept, and they are enforced, for any number of         *)
(* connections, addresses and certificates, whatever fits into a cookie    *)
(* and whenever the breakers open.                                         *)
(***************************************************************************)
\* Certificate x was accepted for a connection of kind k, by the record got.
Got(got, k, x) == x = NoCert \/ \E u \in Urls : <<k, u, x>> \in got

\* A session that holds only what was shown and what was accepted.
Honest(ck, seen, got) ==
    /\ ck \in Cookie
    /\ \A k \in Kinds : ck.pending[k] \in seen \cup {NoCert} /\ Got(got, k, ck.confirmed[k])

\* The types the argument needs.
Shape ==
    /\ layout \in Layout
    /\ config \in [Conns -> Entry]
    /\ server \in [Urls -> [cert : Certs, up : BOOLEAN]]
    /\ chosen \in [Conns -> BOOLEAN]
    /\ shown \subseteq Certs

\* Both sessions, that of the browser and the one a late response will bring back, are
\* honest, every pin was accepted, and what is not verified was exempted.
IndInv ==
    /\ Shape
    /\ Honest(cookie, shown, earned) /\ Honest(late, shown, earned)
    /\ \A c \in Conns : Got(earned, kind[c], config[c].pin)
    /\ \A c \in Conns : ~config[c].verify => chosen[c]

\* The type of the state every step depends on.
LEMMA KindType ==
    ASSUME layout \in Layout, NEW c \in Conns
    PROVE  kind[c] \in Kinds
BY DEF kind, Layout

\* What was honest stays so when more is shown and accepted.
LEMMA HonestGrows ==
    ASSUME NEW ck, NEW seen, NEW seen2, NEW got, NEW got2,
           Honest(ck, seen, got), seen \subseteq seen2, got \subseteq got2
    PROVE  Honest(ck, seen2, got2)
<1>1. ASSUME NEW k, NEW x, Got(got, k, x) PROVE Got(got2, k, x)
  BY <1>1 DEF Got
<1>. QED
  BY <1>1 DEF Honest

\* A certificate that is kept as pending has been shown.
LEMMA HonestPending ==
    ASSUME NEW ck, NEW seen, NEW got, NEW k \in Kinds, NEW x \in Certs,
           Honest(ck, seen, got), x \in seen
    PROVE  Honest([ck EXCEPT !.pending[k] = x], seen, got)
<1> DEFINE new == [ck EXCEPT !.pending[k] = x]
<1>1. ck \in Cookie /\ x \in Cert0
  BY DEF Honest, Cert0
<1>2. /\ new.pending = [ck.pending EXCEPT ![k] = x]
      /\ new.confirmed = ck.confirmed
      /\ new \in Cookie
  BY <1>1 DEF Cookie
<1>3. \A j \in Kinds : new.pending[j] = IF j = k THEN x ELSE ck.pending[j]
  BY <1>1, <1>2 DEF Cookie
<1>. QED
  BY <1>2, <1>3 DEF Honest

\* A certificate that is kept as confirmed, or none, was accepted.
LEMMA HonestConfirmed ==
    ASSUME NEW ck, NEW seen, NEW got, NEW k \in Kinds, NEW x \in Cert0,
           Honest(ck, seen, got), Got(got, k, x)
    PROVE  /\ Honest([ck EXCEPT !.confirmed[k] = x], seen, got)
           /\ Honest([ck EXCEPT !.confirmed[k] = x, !.pending[k] = NoCert], seen, got)
<1> DEFINE one == [ck EXCEPT !.confirmed[k] = x]
           two == [ck EXCEPT !.confirmed[k] = x, !.pending[k] = NoCert]
<1>1. ck \in Cookie /\ NoCert \in Cert0
  BY DEF Honest, Cert0
<1>2. /\ one.pending = ck.pending /\ one.confirmed = [ck.confirmed EXCEPT ![k] = x]
      /\ two.pending = [ck.pending EXCEPT ![k] = NoCert] /\ two.confirmed = [ck.confirmed EXCEPT ![k] = x]
      /\ one \in Cookie /\ two \in Cookie
  BY <1>1 DEF Cookie
<1>3. \A j \in Kinds : /\ one.confirmed[j] = IF j = k THEN x ELSE ck.confirmed[j]
                       /\ two.confirmed[j] = IF j = k THEN x ELSE ck.confirmed[j]
                       /\ two.pending[j] = IF j = k THEN NoCert ELSE ck.pending[j]
  BY <1>1, <1>2 DEF Cookie
<1>. QED
  BY <1>2, <1>3 DEF Honest

\* The initial states.
LEMMA InitInv ==
    ASSUME Init
    PROVE  IndInv
<1>0. Layouts \subseteq Layout
  BY ConnectionsAssumption
<1>1. Honest(Empty, {}, {})
  BY DEF Honest, Empty, NoneOf, Cookie, Cert0, Got
<1>2. PICK old \in {Nothing} \cup {[url |-> u, pin |-> NoCert, verify |-> FALSE] : u \in layout.old} :
          /\ config = [c \in Conns |-> IF c = 1 THEN old ELSE Nothing]
          /\ chosen = [c \in Conns |-> ~config[c].verify]
  BY DEF Init
<1>3. old \in Entry /\ Nothing \in Entry /\ old.pin = NoCert /\ Nothing.pin = NoCert
  <2>1. Nothing \in Entry /\ Nothing.pin = NoCert
    BY DEF Nothing, Entry, Cert0
  <2>2. CASE old = Nothing
    BY <2>1, <2>2
  <2>3. ASSUME NEW u \in Urls, old = [url |-> u, pin |-> NoCert, verify |-> FALSE]
        PROVE  old \in Entry /\ old.pin = NoCert
    BY <2>3 DEF Entry, Cert0
  <2>4. layout.old \subseteq Urls
    BY <1>0 DEF Init, Layout
  <2>. QED
    BY <1>2, <2>1, <2>2, <2>3, <2>4
<1>4. /\ config \in [Conns -> Entry]
      /\ \A c \in Conns : config[c].pin = NoCert
      /\ chosen \in [Conns -> BOOLEAN]
  BY <1>2, <1>3
<1>5. Shape
  BY <1>0, <1>4 DEF Init, Shape, Layout
<1>. QED
  BY <1>1, <1>2, <1>4, <1>5 DEF Init, IndInv, Got

\* A prompt keeps sessions honest.
LEMMA OfferHonest ==
    ASSUME IndInv, NEW c \in Conns, NEW u \in Urls, Offer(c, u)
    PROVE  /\ shown \subseteq shown' /\ shown' \subseteq Certs /\ late' = late
           /\ Honest(cookie', shown', earned)
<1>1. kind[c] \in Kinds /\ server[u].cert \in Certs
  BY KindType DEF IndInv, Shape
<1>2. CASE /\ SetCookie([cookie EXCEPT !.pending[kind[c]] = server[u].cert])
           /\ shown' = shown \cup {server[u].cert}
  <2>1. Honest(cookie, shown', earned)
    BY <1>2, HonestGrows DEF IndInv
  <2>2. Honest([cookie EXCEPT !.pending[kind[c]] = server[u].cert], shown', earned)
    BY <1>1, <1>2, <2>1, HonestPending
  <2>. QED
    BY <1>1, <1>2, <2>1, <2>2 DEF SetCookie, IndInv, Shape
<1>3. CASE UNCHANGED <<cookie, late, shown>>
  BY <1>3 DEF IndInv, Shape
<1>. QED
  BY <1>2, <1>3 DEF Offer

\* A step that leaves the entries and what was accepted alone, and after which the
\* sessions are honest.
LEMMA FormInv ==
    ASSUME IndInv, UNCHANGED <<layout, config, server, chosen>>,
           earned \subseteq earned', shown' \subseteq Certs,
           Honest(cookie', shown', earned'), Honest(late', shown', earned')
    PROVE  IndInv'
<1>1. \A c \in Conns : Got(earned', kind[c], config[c].pin)
  BY DEF IndInv, Got
<1>2. kind' = kind
  BY DEF kind
<1>. QED
  BY <1>1, <1>2 DEF IndInv, Shape

\* A test may offer a certificate, and changes nothing else.
LEMMA TestInv ==
    ASSUME IndInv, NEW c \in Conns, NEW u \in Urls, NEW skip \in BOOLEAN, Test(c, u, skip)
    PROVE  IndInv'
<1>1. UNCHANGED <<layout, config, server, chosen, earned>>
  BY DEF Test, disk
<1>2. CASE Offer(c, u)
  BY <1>1, <1>2, OfferHonest, HonestGrows, FormInv DEF IndInv
<1>3. CASE UNCHANGED <<cookie, late, shown>>
  BY <1>1, <1>3, FormInv DEF IndInv, Shape
<1>. QED
  BY <1>2, <1>3 DEF Test

\* What is accepted was shown, because it is the pending certificate.
LEMMA TrustInv ==
    ASSUME IndInv, NEW c \in Conns, NEW u \in Urls, Trust(c, u)
    PROVE  IndInv'
<1> DEFINE pem == cookie.pending[kind[c]]
<1>1. /\ UNCHANGED <<layout, config, server, chosen>>
      /\ kind[c] \in Kinds
      /\ pem \in shown \cap Certs
  BY KindType DEF Trust, disk, IndInv, Shape, Honest
<1>2. CASE /\ SetCookie([cookie EXCEPT !.confirmed[kind[c]] = pem, !.pending[kind[c]] = NoCert])
           /\ earned' = earned \cup {<<kind[c], u, x>> : x \in {pem} \cap shown}
           /\ UNCHANGED shown
  <2>1. earned \subseteq earned' /\ Got(earned', kind[c], pem) /\ pem \in Cert0
    BY <1>1, <1>2 DEF Got, Cert0
  <2>2. Honest(cookie, shown', earned') /\ Honest(late, shown', earned')
    BY <1>2, <2>1, HonestGrows DEF IndInv
  <2>3. Honest([cookie EXCEPT !.confirmed[kind[c]] = pem, !.pending[kind[c]] = NoCert], shown', earned')
    BY <1>1, <2>1, <2>2, HonestConfirmed
  <2>. QED
    BY <1>1, <1>2, <2>1, <2>2, <2>3, FormInv DEF SetCookie, IndInv, Shape
<1>3. CASE Offer(c, u) /\ UNCHANGED earned
  BY <1>1, <1>3, OfferHonest, HonestGrows, FormInv DEF IndInv
<1>4. CASE UNCHANGED <<cookie, late, shown, earned>>
  BY <1>1, <1>4, FormInv DEF IndInv, Shape
<1>. QED
  BY <1>2, <1>3, <1>4 DEF Trust, Accepted

\* Saving pins what was confirmed, or keeps the pin.
LEMMA SaveInv ==
    ASSUME IndInv, NEW c \in Conns, NEW u \in Urls, NEW skip \in BOOLEAN, Save(c, u, skip)
    PROVE  IndInv'
<1> DEFINE pem == cookie.confirmed[kind[c]]
           new == Merged(config[c], u, pem, skip)
<1>1. /\ UNCHANGED <<layout, server, shown, earned, late>>
      /\ kind' = kind /\ kind[c] \in Kinds
      /\ config' = [config EXCEPT ![c] = new]
      /\ chosen' = [chosen EXCEPT ![c] = skip]
  BY KindType DEF Save, SetCookie, IndInv, Shape, kind
<1>2. /\ pem \in Cert0 /\ Got(earned, kind[c], pem)
      /\ config[c] \in Entry /\ Got(earned, kind[c], config[c].pin)
  BY <1>1 DEF IndInv, Shape, Honest, Cookie
<1>3. /\ new \in Entry /\ Got(earned, kind[c], new.pin)
      /\ ~new.verify => skip
  BY <1>2 DEF Merged, Entry, Cert0
<1>4. Honest(cookie', shown', earned') /\ Honest(late', shown', earned')
  <2>1. Honest(Popped(c), shown, earned)
    BY <1>1, HonestConfirmed DEF Popped, IndInv, Got, Cert0
  <2>. QED
    BY <1>1, <2>1 DEF Save, SetCookie, IndInv
<1>5. \A d \in Conns : /\ config'[d] = IF d = c THEN new ELSE config[d]
                       /\ chosen'[d] = IF d = c THEN skip ELSE chosen[d]
  BY <1>1 DEF IndInv, Shape
<1>6. Shape'
  BY <1>1, <1>3 DEF IndInv, Shape
<1>. QED
  BY <1>1, <1>3, <1>4, <1>5, <1>6 DEF IndInv

\* Removing a connection takes its pin along.
LEMMA RemoveInv ==
    ASSUME IndInv, NEW c \in Conns, RemoveConnection(c)
    PROVE  IndInv'
<1>1. /\ UNCHANGED <<layout, server, shown, earned, late>>
      /\ kind' = kind /\ kind[c] \in Kinds
      /\ config' = [config EXCEPT ![c] = Nothing]
      /\ chosen' = [chosen EXCEPT ![c] = FALSE]
  BY KindType DEF RemoveConnection, SetCookie, IndInv, Shape, kind
<1>2. Nothing \in Entry /\ Nothing.pin = NoCert /\ Nothing.verify
  BY DEF Nothing, Entry, Cert0
<1>3. Honest(cookie', shown', earned') /\ Honest(late', shown', earned')
  <2>1. Honest(Popped(c), shown, earned)
    BY <1>1, HonestConfirmed DEF Popped, IndInv, Got, Cert0
  <2>. QED
    BY <1>1, <2>1 DEF RemoveConnection, SetCookie, IndInv
<1>4. \A d \in Conns : /\ config'[d] = IF d = c THEN Nothing ELSE config[d]
                       /\ chosen'[d] = IF d = c THEN FALSE ELSE chosen[d]
  BY <1>1 DEF IndInv, Shape
<1>5. Shape'
  BY <1>1, <1>2 DEF IndInv, Shape
<1>6. Got(earned, kind[c], Nothing.pin)
  BY <1>2 DEF Got
<1>. QED
  BY <1>1, <1>2, <1>3, <1>4, <1>5, <1>6 DEF IndInv

\* The migration pins what it has fetched, and ends the exemption.
LEMMA MigrateInv ==
    ASSUME IndInv, NEW c \in Conns, Migrate(c)
    PROVE  IndInv'
<1> DEFINE old == config[c]
           x == server[old.url].cert
           new == Pinned(old, x)
<1>0. /\ UNCHANGED <<layout, server, shown, cookie, late>> /\ kind' = kind
      /\ old \in Entry /\ kind[c] \in Kinds
  BY KindType DEF Migrate, browser, kind, IndInv, Shape
<1>1. CASE /\ old.url # NoUrl
           /\ config' = [config EXCEPT ![c] = new]
           /\ earned' = earned \cup {<<kind[c], old.url, x>>}
           /\ chosen' = [chosen EXCEPT ![c] = FALSE]
  <2>1. old.url \in Urls /\ x \in Certs
    BY <1>0, <1>1 DEF Entry, IndInv, Shape
  <2>2. new \in Entry /\ new.pin = x /\ new.verify
    BY <1>0, <2>1 DEF Pinned, Entry, Cert0
  <2>3. Got(earned', kind[c], x) /\ earned \subseteq earned'
    BY <1>1, <2>1 DEF Got
  <2>4. \A d \in Conns : /\ config'[d] = IF d = c THEN new ELSE config[d]
                         /\ chosen'[d] = IF d = c THEN FALSE ELSE chosen[d]
    BY <1>1 DEF IndInv, Shape
  <2>5. \A d \in Conns : Got(earned', kind[d], config[d].pin)
    BY <2>3 DEF IndInv, Got
  <2>6. Honest(cookie, shown, earned') /\ Honest(late, shown, earned')
    BY <2>3, HonestGrows DEF IndInv
  <2>7. Shape'
    BY <1>0, <1>1, <2>2 DEF IndInv, Shape
  <2>. QED
    BY <1>0, <2>2, <2>3, <2>4, <2>5, <2>6, <2>7 DEF IndInv
<1>2. CASE UNCHANGED <<config, earned, chosen>>
  BY <1>0, <1>2 DEF IndInv, Shape
<1>. QED
  BY <1>1, <1>2 DEF Migrate

\* A late response brings back a session that is honest.
LEMMA CookieInv ==
    ASSUME IndInv, SlowRequest \/ SlowResponse
    PROVE  IndInv'
<1>1. Honest(Empty, shown, earned)
  BY DEF Honest, Empty, NoneOf, Cookie, Cert0, Got
<1>2. UNCHANGED <<layout, config, server, chosen, shown, earned>>
  BY DEF SlowRequest, SlowResponse, disk, history
<1>3. Honest(cookie', shown, earned) /\ Honest(late', shown, earned)
  BY <1>1 DEF SlowRequest, SlowResponse, IndInv
<1>. QED
  BY <1>2, <1>3, FormInv DEF IndInv, Shape

\* The servers may do as they please.
LEMMA ServerInv ==
    ASSUME IndInv, UNCHANGED <<layout, config, chosen, cookie, late, shown, earned>>,
           server' \in [Urls -> [cert : Certs, up : BOOLEAN]]
    PROVE  IndInv'
BY DEF IndInv, Shape, kind

\* Every step preserves the invariant.
LEMMA NextInv ==
    ASSUME IndInv, [Next]_vars
    PROVE  IndInv'
<1>0. server \in [Urls -> [cert : Certs, up : BOOLEAN]]
  BY DEF IndInv, Shape
<1>1. CASE Started \/ Restart \/ Tick
  BY <1>0, <1>1, ServerInv DEF Started, Restart, Tick, disk, browser, history
<1>2. ASSUME NEW c \in Conns, Use(c) \/ Poll(c)
      PROVE  IndInv'
  BY <1>0, <1>2, ServerInv DEF Use, Poll, disk, browser, history
<1>3. ASSUME NEW c \in Conns, NEW u \in Urls, TestRefused(c, u)
      PROVE  IndInv'
  BY <1>0, <1>3, ServerInv DEF TestRefused, disk, history
<1>4. ASSUME NEW u \in Urls, ServerChanges(u)
      PROVE  IndInv'
  <2>1. server' \in [Urls -> [cert : Certs, up : BOOLEAN]]
    BY <1>0, <1>4 DEF ServerChanges
  <2>. QED
    BY <1>4, <2>1, ServerInv DEF ServerChanges, disk, browser, history
<1>5. CASE UNCHANGED vars
  BY <1>0, <1>5, ServerInv DEF vars, disk, browser, history
<1>. QED
  BY <1>1, <1>2, <1>3, <1>4, <1>5, TestInv, TrustInv, SaveInv, RemoveInv, MigrateInv, CookieInv
     DEF Next, Starting

\* The invariant holds in every behaviour.
THEOREM Invariance == Spec => []IndInv
<1>. QED
  BY InitInv, NextInv, PTL DEF Spec

\* Only certificates that were shown, accepted and then presented, or captured by the
\* migration, are pinned or wait to be pinned.
THEOREM PinsAreEarned == Spec => []PinEarned
<1>1. IndInv => PinEarned
  <2>1. ASSUME IndInv, NEW k, NEW x \in Cert0, Got(earned, k, x)
        PROVE  x \in Earned(k) \cup {NoCert}
    BY <2>1 DEF Earned, Got, Cert0
  <2>2. ASSUME IndInv, NEW c \in Conns
        PROVE  config[c].pin \in Cert0 /\ Got(earned, kind[c], config[c].pin)
    BY <2>2 DEF IndInv, Shape, Entry
  <2>3. ASSUME IndInv, NEW k \in Kinds
        PROVE  cookie.confirmed[k] \in Cert0 /\ Got(earned, k, cookie.confirmed[k])
    BY <2>3 DEF IndInv, Honest, Cookie
  <2>. QED
    BY <2>1, <2>2, <2>3 DEF PinEarned
<1>. QED
  BY <1>1, Invariance, PTL

\* No step but its removal takes the pin of a connection.
THEOREM PinsAreKept == Spec => PinKept
<1> DEFINE Keeps == \A c \in Conns : config[c].pin # NoCert /\ config'[c].url # NoUrl => config'[c].pin # NoCert
<1>1. ASSUME IndInv, [Next]_vars
      PROVE  [Keeps]_vars
  <2>0. config \in [Conns -> Entry] /\ server \in [Urls -> [cert : Certs, up : BOOLEAN]]
    BY <1>1 DEF IndInv, Shape
  <2>1. CASE config' = config
    BY <2>1
  <2>2. ASSUME NEW c \in Conns, NEW u \in Urls, NEW skip \in BOOLEAN, Save(c, u, skip)
        PROVE  Keeps
    BY <2>0, <2>2 DEF Save, Merged
  <2>3. ASSUME NEW c \in Conns, RemoveConnection(c)
        PROVE  Keeps
    BY <2>0, <2>3 DEF RemoveConnection, Nothing
  <2>4. ASSUME NEW c \in Conns, Migrate(c), config' # config
        PROVE  Keeps
    <3>1. /\ config[c].url # NoUrl
          /\ config' = [config EXCEPT ![c] = Pinned(@, server[config[c].url].cert)]
      BY <2>4 DEF Migrate
    <3>2. config[c] \in Entry /\ server[config[c].url].cert # NoCert
      BY <2>0, <3>1, ConnectionsAssumption DEF Entry
    <3>3. Pinned(config[c], server[config[c].url].cert).pin # NoCert
      BY <3>2 DEF Pinned, Entry
    <3>. QED
      BY <2>0, <3>1, <3>3
  <2>5. ASSUME NEW c \in Conns, NEW u \in Urls,
               TestRefused(c, u) \/ Trust(c, u) \/ \E skip \in BOOLEAN : Test(c, u, skip)
        PROVE  config' = config
    BY <2>5 DEF TestRefused, Trust, Test, disk
  <2>6. ASSUME \/ Started \/ Restart \/ Tick \/ SlowRequest \/ SlowResponse
               \/ (\E c \in Conns : Use(c) \/ Poll(c))
               \/ (\E u \in Urls : ServerChanges(u))
               \/ UNCHANGED vars
        PROVE  config' = config
    BY <2>6 DEF Started, Restart, Tick, SlowRequest, SlowResponse, Use, Poll, ServerChanges,
         vars, disk
  <2>. QED
    BY <1>1, <2>1, <2>2, <2>3, <2>4, <2>5, <2>6 DEF Next, Starting
<1>. QED
  BY <1>1, Invariance, PTL DEF Spec, PinKept

\* Only a use of a connection says who has answered it.
LEMMA LastStep ==
    ASSUME [Next]_vars
    PROVE  last' = last \/ \E c \in Conns : Use(c)
<1>1. ASSUME \/ Started \/ Restart \/ Tick \/ SlowRequest \/ SlowResponse
             \/ (\E c \in Conns : Migrate(c) \/ Poll(c) \/ RemoveConnection(c))
             \/ (\E u \in Urls : ServerChanges(u))
             \/ UNCHANGED vars
      PROVE  last' = last
  BY <1>1 DEF Started, Restart, Tick, SlowRequest, SlowResponse, Migrate, Poll,
       RemoveConnection, ServerChanges, vars
<1>2. ASSUME NEW c \in Conns, NEW u \in Urls,
             TestRefused(c, u) \/ Trust(c, u) \/ \E skip \in BOOLEAN : Test(c, u, skip) \/ Save(c, u, skip)
      PROVE  last' = last
  BY <1>2 DEF TestRefused, Trust, Test, Save
<1>. QED
  BY <1>1, <1>2 DEF Next, Starting

\* There is a last answer, or none, for each connection.
LastType == DOMAIN last = Conns

\* It stays that way.
THEOREM LastTyped == Spec => []LastType
<1>1. Init => LastType
  BY DEF Init, LastType
<1>2. ASSUME LastType, [Next]_vars
      PROVE  LastType'
  <2>1. ASSUME NEW c \in Conns, Use(c)
        PROVE  DOMAIN last' = DOMAIN last
    BY <2>1 DEF Use
  <2>. QED
    BY <1>2, <2>1, LastStep DEF LastType
<1>. QED
  BY <1>1, <1>2, PTL DEF Spec

\* A server that answers a connection the administrator has not exempted has the pinned
\* certificate, or with none pinned a valid one.
THEOREM PinsAreEnforced == Spec => PinEnforced
<1> DEFINE Enforces ==
        \A c \in Conns :
            last'[c] # last[c] /\ last'[c] # NoCert /\ ~chosen[c] =>
                IF config[c].pin = NoCert THEN last'[c] \in Vouched ELSE last'[c] = config[c].pin
<1>1. ASSUME IndInv, LastType, [Next]_vars
      PROVE  [Enforces]_vars
  <2>1. CASE last' = last
    BY <2>1
  <2>2. ASSUME NEW d \in Conns, Use(d), NEW c \in Conns,
               last'[c] # last[c], last'[c] # NoCert, ~chosen[c]
        PROVE  IF config[c].pin = NoCert THEN last'[c] \in Vouched ELSE last'[c] = config[c].pin
    <3>1. config[c].verify
      BY <1>1, <2>2 DEF IndInv
    <3>2. c = d
      BY <1>1, <2>2 DEF Use, LastType
    <3>3. /\ UseOutcome(c) = "ok"
          /\ last'[c] = server[config[c].url].cert
      BY <1>1, <2>2, <3>2 DEF Use, LastType
    <3>. QED
      BY <3>1, <3>3 DEF UseOutcome, Outcome, Verifies
  <2>. QED
    BY <1>1, <2>1, <2>2, LastStep
<1>. QED
  BY <1>1, Invariance, LastTyped, PTL DEF Spec, PinEnforced

-------------------------------------------------------------------------------
(***************************************************************************)
(* Proxmox servers and the hosts behind them: any servers, guests and      *)
(* slugs, any number of servers in the list.                               *)
(***************************************************************************)
Targets == {asking, page} \ {NoTarget}

\* While only the wizard is used servers are added and never removed, so that an id
\* goes on to mean the server it was given to, and no id the first one.
Means(s, first, i, u) ==
    IF i = NoId THEN u = first
    ELSE \E k \in DOMAIN s : s[k] = [id |-> i, url |-> u]

WizardWay ==
    "admin" \notin world.may =>
        /\ wizard = "first" => legacy = NoServer /\ ~multi
        /\ legacy # NoServer => servers = <<>>
        /\ bare \in {NoServer, FirstUrl}
        /\ \A t \in Targets : Means(servers, FirstUrl, t.id, t.url)
        /\ \A g \in typed : Means(servers, FirstUrl, stamp[g], Owner[g])
        /\ \A i \in Ids : creds[i] # NoServer => Means(servers, FirstUrl, i, creds[i])

\* With the admin pages servers come and go, and the id of one that is gone may be
\* given again; an id tells its URL all the same, if URLs have slugs of their own.
Fits(i, u) == i \in Ids /\ i[1] = world.slug[u]

AdminWay ==
    OneWay /\ "admin" \in world.may =>
        /\ legacy # NoServer => ~running /\ servers = <<>> /\ bare = legacy
        /\ \A k \in DOMAIN servers : Fits(servers[k].id, servers[k].url)
        /\ \A t \in Targets : Fits(t.id, t.url)
        /\ \A g \in typed : IF legacy # NoServer THEN stamp[g] = NoId /\ Owner[g] = legacy
                            ELSE Fits(stamp[g], Owner[g])
        /\ \A i \in Ids : creds[i] # NoServer => Fits(i, creds[i])

ServersInv == ServersTypeOK /\ IdsTellApart /\ WizardWay /\ AdminWay

\* RemoveAt leaves the others in their order.
LEMMA RemoveAtElems ==
    ASSUME NEW S, NEW s \in Seq(S), NEW k \in 1..Len(s)
    PROVE  /\ RemoveAt(s, k) \in Seq(S)
           /\ Len(RemoveAt(s, k)) = Len(s) - 1
           /\ \A m \in 1..(Len(s) - 1) :
                RemoveAt(s, k)[m] = IF m < k THEN s[m] ELSE s[m + 1]
<1> DEFINE a == SubSeq(s, 1, k - 1)
           b == SubSeq(s, k + 1, Len(s))
<1>1. /\ a \in Seq(S) /\ Len(a) = k - 1
      /\ \A m \in 1..(k - 1) : a[m] = s[m]
  OBVIOUS
<1>2. /\ b \in Seq(S) /\ Len(b) = Len(s) - k
      /\ \A m \in 1..(Len(s) - k) : b[m] = s[k + m]
  OBVIOUS
<1>3. RemoveAt(s, k) = a \o b
  BY DEF RemoveAt
<1> HIDE DEF a, b
<1>4. /\ a \o b \in Seq(S) /\ Len(a \o b) = Len(a) + Len(b)
      /\ \A m \in 1..(Len(a) + Len(b)) :
           (a \o b)[m] = IF m <= Len(a) THEN a[m] ELSE b[m - Len(a)]
  BY <1>1, <1>2, ConcatProperties
<1>5. Len(a) + Len(b) = Len(s) - 1
  BY <1>1, <1>2
<1>6. ASSUME NEW m \in 1..(Len(s) - 1)
      PROVE  (a \o b)[m] = IF m < k THEN s[m] ELSE s[m + 1]
  <2>1. CASE m < k
    BY <1>1, <1>4, <1>5, <2>1
  <2>2. CASE ~(m < k)
    <3>1. m - (k - 1) \in 1..(Len(s) - k) /\ ~(m <= Len(a))
      BY <1>1, <2>2
    <3>2. (a \o b)[m] = b[m - (k - 1)]
      BY <1>1, <1>4, <1>5, <3>1
    <3>3. b[m - (k - 1)] = s[k + (m - (k - 1))]
      BY <1>2, <3>1
    <3>4. k + (m - (k - 1)) = m + 1
      OBVIOUS
    <3> QED BY <2>2, <3>2, <3>3, <3>4
  <2> QED BY <2>1, <2>2
<1> QED BY <1>3, <1>4, <1>5, <1>6

\* A set of natural numbers has a least one.
LEMMA LeastNumber ==
    ASSUME NEW T \in SUBSET Nat, T # {}
    PROVE  \E n \in T : \A m \in T : n <= m
<1>1. PICK x \in T : \A y \in T : ~(<<y, x>> \in OpToRel(<, Nat))
  BY NatLessThanWellFounded, WFMin, Zenon
<1>2. \A y \in T : ~(y < x)
  BY <1>1 DEF OpToRel
<1> QED BY <1>2

\* The numbers up to n are n.
LEMMA UpTo == ASSUME NEW n \in Nat PROVE IsFiniteSet(1..n) /\ Cardinality(1..n) = n
<1>1. /\ IsFiniteSet(1..n)
      /\ Cardinality(1..n) = IF 1 > n THEN 0 ELSE n - 1 + 1
  BY FS_Interval
<1> QED BY <1>1

\* _unique_server_id finds an id that no server has, as long as the list has room.
LEMMA UniqueId ==
    ASSUME ServersTypeOK, NEW b \in Bases, Len(servers) < MaxServers
    PROVE  /\ UniqueServerId(b) \in Ids
           /\ UniqueServerId(b)[1] = b
           /\ UniqueServerId(b) \notin IdsOf(servers)
<1> DEFINE all == {b} \X (1..MaxServers)
           free == {n \in 1..MaxServers : <<b, n>> \notin IdsOf(servers)}
           f == [k \in 1..Len(servers) |-> servers[k].id]
           num == [n \in 1..MaxServers |-> <<b, n>>]
<1>1. MaxServers \in Nat /\ Len(servers) \in Nat /\ DOMAIN servers = 1..Len(servers)
  BY ServersAssumption DEF ServersTypeOK
<1>2. IsFiniteSet(1..Len(servers)) /\ Cardinality(1..Len(servers)) = Len(servers)
  BY <1>1, UpTo
<1>3. f \in Surjection(1..Len(servers), IdsOf(servers))
  BY <1>1 DEF IdsOf, Surjection
<1>4. IsFiniteSet(IdsOf(servers)) /\ Cardinality(IdsOf(servers)) <= Len(servers)
  BY <1>2, <1>3, FS_Surjection
<1>5. IsFiniteSet(1..MaxServers) /\ Cardinality(1..MaxServers) = MaxServers
  BY <1>1, UpTo
<1>6. num \in Bijection(1..MaxServers, all)
  <2>1. num \in [1..MaxServers -> all]
    OBVIOUS
  <2>2. \A n, m \in 1..MaxServers : num[n] = num[m] => n = m
    OBVIOUS
  <2>3. \A i \in all : \E n \in 1..MaxServers : num[n] = i
    OBVIOUS
  <2> HIDE DEF num, all
  <2> QED BY <2>1, <2>2, <2>3 DEF Bijection, Injection, Surjection, IsInjective
<1>7. IsFiniteSet(all) /\ Cardinality(all) = MaxServers
  <2> HIDE DEF num, all
  <2>1. ExistsBijection(1..MaxServers, all)
    BY <1>6 DEF ExistsBijection
  <2> QED BY <1>5, <2>1, FS_Bijection
<1>8. ~(all \subseteq IdsOf(servers))
  <2> SUFFICES ASSUME all \subseteq IdsOf(servers) PROVE FALSE
    OBVIOUS
  <2>1. Cardinality(all) <= Cardinality(IdsOf(servers)) /\ Cardinality(IdsOf(servers)) \in Nat
    BY <1>4, FS_Subset, FS_CardinalityType
  <2> QED BY <1>1, <1>4, <1>7, <2>1
<1>9. free \in SUBSET Nat /\ free # {}
  BY <1>1, <1>8
<1>10. PICK n \in free : \A m \in free : n <= m
  <2> HIDE DEF free
  <2> QED BY <1>9, LeastNumber
<1>11. \E i \in all : i \notin IdsOf(servers) /\ \A j \in all : j \notin IdsOf(servers) => i[2] <= j[2]
  <2>1. <<b, n>> \in all /\ <<b, n>> \notin IdsOf(servers)
    OBVIOUS
  <2>2. ASSUME NEW j \in all, j \notin IdsOf(servers) PROVE n <= j[2]
    <3>1. PICK m \in 1..MaxServers : j = <<b, m>>
      OBVIOUS
    <3> QED BY <1>10, <2>2, <3>1
  <2> QED BY <2>1, <2>2
<1>12. UniqueServerId(b) \in all /\ UniqueServerId(b) \notin IdsOf(servers)
  BY <1>11 DEF UniqueServerId
<1> QED BY <1>12 DEF Ids

\* Ids go on to mean what they did when servers are only added and the first one,
\* if there was one, stays.
LEMMA MeansStay ==
    ASSUME NEW s, NEW t, NEW f, NEW first, NEW i, NEW u,
           \A k \in DOMAIN s : k \in DOMAIN t /\ t[k] = s[k], f = first \/ u # f,
           Means(s, f, i, u)
    PROVE  Means(t, first, i, u)
BY DEF Means

\* What is asked for or shown on a page, and what is listed, is a server.
LEMMA TargetTypes == ServersTypeOK => /\ Targets \subseteq Target
                                      /\ \A k \in DOMAIN servers : servers[k] \in Server
BY DEF ServersTypeOK, Targets

\* A fresh installation and one of the older version start in order.
LEMMA InitServersInv == ServersInit => ServersInv
<1> SUFFICES ASSUME ServersInit PROVE ServersInv
  OBVIOUS
<1>0. servers = <<>> /\ DOMAIN servers = {} /\ Targets = {}
  BY DEF ServersInit, Targets
<1>1. running \in BOOLEAN /\ ("upgraded" \in world.may => ~running)
  BY DEF ServersInit
<1>2. /\ configured \subseteq Guests /\ typed = configured
      /\ legacy # NoServer => "upgraded" \in world.may /\ \A g \in typed : Owner[g] = legacy
  BY DEF ServersInit
<1>3. servers \in Seq(Server) /\ Len(servers) <= MaxServers
  BY <1>0, ServersAssumption
<1>4. ServersTypeOK
  BY <1>0, <1>1, <1>2, <1>3, ServersAssumption DEF ServersInit, ServersTypeOK
<1>5. IdsTellApart
  BY <1>0 DEF IdsTellApart
<1>6. WizardWay
  BY <1>0, <1>4 DEF ServersInit, ServersTypeOK, WizardWay, Means, FirstUrl
<1>7. AdminWay
  <2>1. /\ legacy = NoServer => typed = {}
        /\ bare = legacy /\ \A g \in Guests : stamp[g] = NoId
        /\ \A i \in Ids : creds[i] = NoServer
    BY <1>2, ServersAssumption DEF ServersInit
  <2> QED BY <1>0, <1>1, <1>2, <2>1 DEF AdminWay
<1> QED BY <1>4, <1>5, <1>6, <1>7 DEF ServersInv

\* The migration, whole or cut after the configuration.
LEMMA MigrateStep ==
    ASSUME ServersInv, UNCHANGED <<world, wizard, configured, typed, asking, page>>,
           running' \in BOOLEAN, legacy # NoServer,
           MigrateConfig(<<world.slug[legacy], 1>>),
           UNCHANGED store \/ (servers = <<>> /\ MoveCredentials(<<world.slug[legacy], 1>>))
    PROVE  ServersInv'
<1> DEFINE i == <<world.slug[legacy], 1>>
<1> USE DEF ServersInv
<1>0. /\ legacy \in ServerUrls /\ i \in Ids /\ i # NoId /\ i[1] = world.slug[legacy]
      /\ legacy' = NoServer /\ OneWay' = OneWay /\ Targets' = Targets /\ Targets \subseteq Target
  BY ServersAssumption, NoIdAssumption, WorldsAssumption, TargetTypes
     DEF ServersTypeOK, World, Ids, MigrateConfig, OneWay, Targets
<1>1. CASE servers # <<>>
  <2>1. UNCHANGED <<multi, servers, stamp, store>>
    BY <1>1 DEF MigrateConfig
  <2>2. ServersTypeOK'
    BY <1>0, <2>1 DEF ServersTypeOK, store
  <2>3. IdsTellApart'
    BY <2>1 DEF IdsTellApart
  <2>4. WizardWay' /\ AdminWay'
    BY <1>0, <1>1 DEF WizardWay, AdminWay
  <2> QED BY <2>2, <2>3, <2>4
<1>2. CASE servers = <<>>
  <2> DEFINE e == [id |-> i, url |-> legacy]
  <2>1. /\ servers' = <<e>> /\ multi' = TRUE
        /\ stamp' = [g \in Guests |-> IF g \in typed THEN i ELSE NoId]
        /\ bare' \in {bare, NoServer}
        /\ creds' = creds \/ (bare # NoServer /\ creds' = [creds EXCEPT ![i] = bare])
    BY <1>2 DEF MigrateConfig, MoveCredentials, store
  <2>2. /\ e \in Server /\ e.id = i /\ e.url = legacy /\ DOMAIN servers' = {1} /\ servers'[1] = e
        /\ FirstUrl' = legacy /\ FirstUrl = legacy /\ DOMAIN servers = {}
    BY <1>0, <1>2, <2>1 DEF Server, FirstUrl
  <2> HIDE DEF i, e
  <2>3. ServersTypeOK'
    <3>1. servers' \in Seq(Server) /\ Len(servers') <= MaxServers
      BY <2>1, <2>2, ServersAssumption
    <3>2. creds' \in [Ids -> ServerUrls \cup {NoServer}] /\ bare' \in ServerUrls \cup {NoServer}
      BY <1>0, <2>1 DEF ServersTypeOK
    <3>3. /\ stamp' \in [Guests -> Ids \cup {NoId}]
          /\ \A g \in Guests \ typed : stamp'[g] = NoId
      BY <1>0, <2>1
    <3> QED BY <1>0, <2>1, <3>1, <3>2, <3>3 DEF ServersTypeOK
  <2>4. IdsTellApart'
    BY <2>2 DEF IdsTellApart
  <2>5. WizardWay'
    <3> SUFFICES ASSUME "admin" \notin world.may PROVE WizardWay'
      BY DEF WizardWay
    <3>1. wizard # "first" /\ bare \in {NoServer, legacy}
      BY <1>0, <2>2 DEF WizardWay
    <3>2. \A t \in Targets : Means(servers', legacy, t.id, t.url)
      BY <2>2, MeansStay DEF WizardWay
    <3>3. ASSUME NEW g \in typed PROVE Means(servers', legacy, stamp'[g], Owner[g])
      <4>1. g \in Guests /\ stamp'[g] = i
        BY <2>1 DEF ServersTypeOK
      <4>2. Means(servers, legacy, stamp[g], Owner[g])
        BY <2>2 DEF WizardWay
      <4>3. Owner[g] = legacy
        BY <2>2, <4>2 DEF Means
      <4> QED BY <1>0, <2>2, <4>1, <4>3 DEF Means, e
    <3>4. ASSUME NEW j \in Ids, creds'[j] # NoServer PROVE Means(servers', legacy, j, creds'[j])
      <4>1. CASE creds'[j] = creds[j]
        BY <2>2, <3>4, <4>1, MeansStay DEF WizardWay
      <4>2. CASE creds'[j] # creds[j]
        <5>1. j = i /\ creds'[j] = legacy
          BY <1>0, <2>1, <3>1, <4>2 DEF ServersTypeOK
        <5> QED BY <1>0, <2>2, <5>1 DEF Means, e
      <4> QED BY <4>1, <4>2
    <3>5. bare' \in {NoServer, legacy}
      BY <2>1, <3>1
    <3>6. wizard' # "first" /\ legacy' = NoServer /\ Targets' = Targets /\ typed' = typed
          /\ FirstUrl' = legacy
      BY <1>0, <2>2, <3>1
    <3> QED BY <3>2, <3>3, <3>4, <3>5, <3>6 DEF WizardWay
  <2>6. AdminWay'
    <3> SUFFICES ASSUME OneWay, "admin" \in world.may PROVE AdminWay'
      BY <1>0 DEF AdminWay
    <3>1. /\ bare = legacy /\ \A t \in Targets : Fits(t.id, t.url)
          /\ \A g \in typed : Owner[g] = legacy
          /\ \A j \in Ids : creds[j] # NoServer => Fits(j, creds[j])
      BY <1>0 DEF AdminWay
    <3>2. Fits(i, legacy)
      BY <1>0 DEF Fits
    <3>3. \A j, u : Fits(j, u)' <=> Fits(j, u)
      BY DEF Fits
    <3>4. \A k \in DOMAIN servers' : Fits(servers'[k].id, servers'[k].url)
      BY <2>2, <3>2
    <3>5. \A g \in typed : Fits(stamp'[g], Owner[g])
      BY <2>1, <3>1, <3>2 DEF ServersTypeOK
    <3>6. \A j \in Ids : creds'[j] # NoServer => Fits(j, creds'[j])
      BY <1>0, <2>1, <3>1, <3>2 DEF ServersTypeOK
    <3>7. world' = world /\ Targets' = Targets /\ typed' = typed /\ legacy' = NoServer
      BY <1>0
    <3> QED BY <3>1, <3>4, <3>5, <3>6, <3>7 DEF AdminWay, Fits
  <2> QED BY <2>3, <2>4, <2>5, <2>6
<1> QED BY <1>1, <1>2

\* Guests are added under the server they were found on.
LEMMA AddHostsStep ==
    ASSUME ServersInv, running, NEW t \in Targets, NEW S \in SUBSET Guests,
           \A g \in S : Owner[g] = t.url, AddHosts(S, t.id), Targets' \subseteq Targets,
           asking' \in {asking, NoTarget}, page' \in {page, asking},
           UNCHANGED <<world, running, wizard, legacy, multi, servers, store>>
    PROVE  ServersInv'
<1> USE DEF ServersInv
<1>0. t \in Target /\ UNCHANGED <<bare, creds>> /\ FirstUrl' = FirstUrl /\ OneWay' = OneWay
  BY TargetTypes DEF store, FirstUrl, OneWay
<1>1. /\ typed' = typed \cup S
      /\ \A g \in Guests : stamp'[g] = IF g \in S THEN t.id ELSE stamp[g]
  BY DEF AddHosts
<1>2. ServersTypeOK'
  <2>1. stamp' \in [Guests -> Ids \cup {NoId}]
    BY <1>0 DEF ServersTypeOK, AddHosts, Target
  <2>2. \A g \in Guests \ typed' : stamp'[g] = NoId
    BY <1>1 DEF ServersTypeOK
  <2>3. configured' \subseteq Guests /\ typed' \subseteq configured'
    BY DEF ServersTypeOK, AddHosts
  <2> QED BY <1>0, <2>1, <2>2, <2>3 DEF ServersTypeOK
<1>3. IdsTellApart'
  BY DEF IdsTellApart
<1>4. WizardWay'
  <2> SUFFICES ASSUME "admin" \notin world.may PROVE WizardWay'
    BY DEF WizardWay
  <2>1. \A g \in typed' : Means(servers, FirstUrl, stamp'[g], Owner[g])
    BY <1>1 DEF WizardWay, ServersTypeOK
  <2> QED BY <1>0, <2>1 DEF WizardWay
<1>5. AdminWay'
  <2> SUFFICES ASSUME OneWay, "admin" \in world.may PROVE AdminWay'
    BY <1>0 DEF AdminWay
  <2>1. legacy = NoServer
    BY DEF AdminWay
  <2>2. \A g \in typed' : Fits(stamp'[g], Owner[g])
    BY <1>1, <2>1 DEF AdminWay, ServersTypeOK
  <2> QED BY <1>0, <2>1, <2>2 DEF AdminWay, Fits
<1> QED BY <1>2, <1>3, <1>4, <1>5

\* The wizard's first server, and the first one of an empty list.
LEMMA SaveFirstServerStep ==
    ASSUME ServersInv, NEW u \in ServerUrls, SaveFirstServer(u), UNCHANGED <<world, running>>
    PROVE  ServersInv'
<1> USE DEF ServersInv
<1>0. /\ "wizard" \in world.may /\ wizard = "first" /\ UNCHANGED <<configured, typed, stamp, creds, page>>
      /\ bare' = u /\ asking = NoTarget /\ asking' = [id |-> NoId, url |-> u] /\ wizard' = "more"
      /\ u # NoServer
  BY ServersAssumption DEF SaveFirstServer, hosts
<1>1. CASE (~multi \/ legacy # NoServer) /\ legacy' = u /\ UNCHANGED <<multi, servers>>
  <2>1. ServersTypeOK'
    BY <1>0, <1>1 DEF ServersTypeOK, Target
  <2>2. IdsTellApart'
    BY <1>1 DEF IdsTellApart
  <2>3. WizardWay'
    <3> SUFFICES ASSUME "admin" \notin world.may PROVE WizardWay'
      BY DEF WizardWay
    <3>1. legacy = NoServer /\ servers = <<>> /\ servers' = <<>> /\ DOMAIN servers = {}
      BY <1>0, <1>1 DEF WizardWay, ServersTypeOK
    <3>2. FirstUrl = NoServer /\ FirstUrl' = u
      BY <1>0, <1>1, <3>1 DEF FirstUrl
    <3>3. ASSUME NEW v \in ServerUrls, NEW i PROVE ~Means(servers, FirstUrl, i, v)
      BY <3>1, <3>2, ServersAssumption DEF Means
    <3>4. typed = {} /\ Targets = {} /\ \A i \in Ids : creds[i] = NoServer
      BY <3>3, TargetTypes, GuestsAssumption DEF WizardWay, ServersTypeOK, Target
    <3>5. Targets' = {asking'}
      BY <1>0, <3>4 DEF Targets, NoTarget
    <3>6. Means(servers', FirstUrl', asking'.id, asking'.url)
      BY <1>0, <3>2 DEF Means
    <3> QED BY <1>0, <3>1, <3>2, <3>4, <3>5, <3>6 DEF WizardWay
  <2>4. AdminWay'
    BY <1>0 DEF AdminWay, OneWay
  <2> QED BY <2>1, <2>2, <2>3, <2>4
<1>2. CASE /\ multi /\ legacy = NoServer /\ UNCHANGED <<legacy, multi>>
           /\ servers' = IF servers = <<>>
                         THEN <<[id |-> UniqueServerId(world.slug[u]), url |-> u]>>
                         ELSE [servers EXCEPT ![1].url = u]
  <2>1. CASE servers = <<>>
    <3> DEFINE e == [id |-> UniqueServerId(world.slug[u]), url |-> u]
    <3>1. world.slug[u] \in Bases /\ Len(servers) < MaxServers
      BY <2>1, ServersAssumption, WorldsAssumption DEF ServersTypeOK, World
    <3>2. e \in Server
      BY <3>1, UniqueId DEF Server
    <3>3. servers' = <<e>>
      BY <1>2, <2>1
    <3> HIDE DEF e
    <3>4. servers' \in Seq(Server) /\ Len(servers') = 1
      BY <3>2, <3>3
    <3>5. ServersTypeOK'
      BY <1>0, <1>2, <3>4, ServersAssumption DEF ServersTypeOK, Target
    <3>6. IdsTellApart'
      BY <3>4 DEF IdsTellApart
    <3> QED BY <1>0, <1>2, <3>5, <3>6 DEF WizardWay, AdminWay, OneWay
  <2>2. CASE servers # <<>>
    <3>1. 1 \in DOMAIN servers /\ servers' = [servers EXCEPT ![1].url = u]
      BY <1>2, <2>2 DEF ServersTypeOK
    <3>2. servers[1] \in Server
      BY <3>1, TargetTypes
    <3>3. [servers[1] EXCEPT !.url = u] \in Server /\ [servers[1] EXCEPT !.url = u].id = servers[1].id
      BY <3>2 DEF Server
    <3>4. servers' = [servers EXCEPT ![1] = [servers[1] EXCEPT !.url = u]]
      BY <3>1
    <3>5. /\ servers' \in Seq(Server) /\ Len(servers') = Len(servers)
          /\ DOMAIN servers' = DOMAIN servers
      BY <3>3, <3>4, <3>1 DEF ServersTypeOK
    <3>6. \A k \in DOMAIN servers : servers'[k].id = servers[k].id
      BY <3>3, <3>4
    <3>7. ServersTypeOK'
      BY <1>0, <1>2, <3>5 DEF ServersTypeOK, Target
    <3>8. IdsTellApart'
      BY <3>5, <3>6 DEF IdsTellApart
    <3> QED BY <1>0, <1>2, <3>7, <3>8 DEF WizardWay, AdminWay, OneWay
  <2> QED BY <2>1, <2>2
<1> QED BY <1>1, <1>2 DEF SaveFirstServer

\* A server is added under an id of its own.
LEMMA AddServerStep ==
    ASSUME ServersInv, running, NEW u \in ServerUrls, NEW secrets \in BOOLEAN,
           AddServer(u, secrets), UNCHANGED <<world, running>>
    PROVE  ServersInv'
<1> USE DEF ServersInv
<1> DEFINE i == UniqueServerId(world.slug[u])
           e == [id |-> i, url |-> u]
<1>0. /\ servers' = Append(servers, e) /\ multi' = TRUE
      /\ creds' = creds \/ creds' = [creds EXCEPT ![i] = u]
      /\ asking' \in {asking, e} /\ Len(servers) < MaxServers
      /\ ("wizard" \in world.may /\ wizard = "more" /\ legacy = NoServer) \/ "admin" \in world.may
      /\ UNCHANGED <<wizard, legacy, configured, typed, stamp, bare, page>>
  BY DEF AddServer, hosts
<1>1. /\ i \in Ids /\ i # NoId /\ i[1] = world.slug[u] /\ i \notin IdsOf(servers)
      /\ e \in Server /\ e.id = i /\ e.url = u /\ u # NoServer
  <2>1. world.slug[u] \in Bases
    BY WorldsAssumption DEF ServersTypeOK, World
  <2> QED BY <1>0, <2>1, UniqueId, NoIdAssumption, ServersAssumption DEF Server
<1> HIDE DEF i, e
<1>2. /\ servers' \in Seq(Server) /\ Len(servers') = Len(servers) + 1
      /\ DOMAIN servers = 1..Len(servers) /\ DOMAIN servers' = 1..(Len(servers) + 1)
      /\ \A k \in 1..Len(servers) : servers'[k] = servers[k]
      /\ servers'[Len(servers) + 1] = e /\ Len(servers) \in Nat
  BY <1>0, <1>1, AppendProperties DEF ServersTypeOK
<1>3. ServersTypeOK'
  <2>1. creds' \in [Ids -> ServerUrls \cup {NoServer}]
    BY <1>0, <1>1 DEF ServersTypeOK
  <2>2. asking' \in Target \cup {NoTarget}
    BY <1>0, <1>1 DEF ServersTypeOK, Target, Server
  <2>3. Len(servers') <= MaxServers
    BY <1>0, <1>2, ServersAssumption
  <2> QED BY <1>0, <1>2, <2>1, <2>2, <2>3 DEF ServersTypeOK
<1>4. IdsTellApart'
  <2>1. \A k \in 1..Len(servers) : servers[k].id # i
    BY <1>1, <1>2 DEF IdsOf
  <2> QED BY <1>1, <1>2, <2>1 DEF IdsTellApart
<1>5. Targets' \subseteq Targets \cup {e}
  BY <1>0 DEF Targets
<1>6. WizardWay'
  <2> SUFFICES ASSUME "admin" \notin world.may PROVE WizardWay'
    BY DEF WizardWay
  <2>0. legacy = NoServer /\ legacy' = NoServer /\ wizard' = "more"
    BY <1>0
  <2>1. FirstUrl = FirstUrl' \/ FirstUrl = NoServer
    <3>1. CASE servers = <<>>
      BY <2>0, <3>1 DEF FirstUrl
    <3>2. CASE servers # <<>>
      <4>1. Head(servers) = servers[1] /\ 1 \in 1..Len(servers)
        BY <3>2 DEF ServersTypeOK
      <4>2. Head(servers') = servers'[1] /\ servers' # <<>>
        BY <1>2
      <4> QED BY <1>2, <2>0, <3>2, <4>1, <4>2 DEF FirstUrl
    <3> QED BY <3>1, <3>2
  <2>2. ASSUME NEW j, NEW v, v # NoServer, Means(servers, FirstUrl, j, v)
        PROVE  Means(servers', FirstUrl', j, v)
    BY <1>2, <2>1, <2>2, MeansStay
  <2>3. Means(servers', FirstUrl', i, u)
    <3>1. servers'[Len(servers) + 1] = [id |-> i, url |-> u] /\ Len(servers) + 1 \in DOMAIN servers'
      BY <1>2 DEF e
    <3> QED BY <1>1, <3>1 DEF Means
  <2>4. \A t \in Targets' : Means(servers', FirstUrl', t.id, t.url)
    <3>1. \A t \in Targets : t.url # NoServer
      BY TargetTypes, ServersAssumption DEF Target
    <3> QED BY <1>1, <1>5, <2>2, <2>3, <3>1 DEF WizardWay
  <2>5. \A g \in typed : Means(servers', FirstUrl', stamp[g], Owner[g])
    BY <2>2, GuestsAssumption, ServersAssumption DEF WizardWay, ServersTypeOK
  <2>6. ASSUME NEW j \in Ids, creds'[j] # NoServer PROVE Means(servers', FirstUrl', j, creds'[j])
    <3>1. creds'[j] = creds[j] \/ (j = i /\ creds'[j] = u)
      BY <1>0 DEF ServersTypeOK
    <3> QED BY <2>2, <2>3, <2>6, <3>1 DEF WizardWay
  <2>7. bare' \in {NoServer, FirstUrl'}
    BY <1>0, <2>1 DEF WizardWay
  <2> QED BY <1>0, <2>0, <2>4, <2>5, <2>6, <2>7 DEF WizardWay
<1>7. AdminWay'
  <2> SUFFICES ASSUME OneWay, "admin" \in world.may PROVE AdminWay'
    BY DEF AdminWay, OneWay
  <2>1. legacy = NoServer /\ Fits(i, u)
    BY <1>1 DEF AdminWay, Fits
  <2>2. \A k \in DOMAIN servers' : Fits(servers'[k].id, servers'[k].url)
    BY <1>1, <1>2, <2>1 DEF AdminWay
  <2>3. \A j \in Ids : creds'[j] # NoServer => Fits(j, creds'[j])
    BY <1>0, <2>1 DEF AdminWay, ServersTypeOK
  <2>4. \A t \in Targets' : Fits(t.id, t.url)
    BY <1>1, <1>5, <2>1 DEF AdminWay
  <2> QED BY <1>0, <2>1, <2>2, <2>3, <2>4 DEF AdminWay, Fits
<1> QED BY <1>3, <1>4, <1>6, <1>7

\* With a server go its hosts; the id it had may be given again.
LEMMA RemoveServerStep ==
    ASSUME ServersInv, running, NEW k \in 1..MaxServers, RemoveServer(k), UNCHANGED <<world, running>>
    PROVE  ServersInv'
<1> USE DEF ServersInv
<1> DEFINE i == servers[k].id
           its == {g \in typed : stamp[g] = i}
<1>0. /\ "admin" \in world.may /\ k \in DOMAIN servers /\ servers' = RemoveAt(servers, k)
      /\ configured' = configured \ {g \in its : Kind[g] # "vm"}
      /\ typed' = typed \ its
      /\ stamp' = [g \in Guests |-> IF g \in its THEN NoId ELSE stamp[g]]
      /\ creds' = creds \/ creds' = [creds EXCEPT ![i] = NoServer]
      /\ UNCHANGED <<wizard, legacy, multi, bare, asking, page>>
  BY DEF RemoveServer
<1>1. i \in Ids /\ DOMAIN servers = 1..Len(servers) /\ Len(servers) \in Nat /\ k \in 1..Len(servers)
  BY <1>0, TargetTypes DEF ServersTypeOK, Server
<1> HIDE DEF i
<1>2. /\ servers' \in Seq(Server) /\ Len(servers') = Len(servers) - 1
      /\ \A m \in 1..(Len(servers) - 1) :
           servers'[m] = IF m < k THEN servers[m] ELSE servers[m + 1]
  BY <1>0, <1>1, RemoveAtElems DEF ServersTypeOK
<1>3. ASSUME NEW m \in DOMAIN servers'
      PROVE  m \in 1..(Len(servers) - 1) /\ \E n \in DOMAIN servers : servers'[m] = servers[n]
  <2>1. m \in 1..(Len(servers) - 1)
    BY <1>2
  <2>2. CASE m < k
    <3>1. m \in DOMAIN servers /\ servers'[m] = servers[m]
      BY <1>1, <1>2, <2>1, <2>2
    <3> QED BY <2>1, <3>1
  <2>3. CASE ~(m < k)
    <3>1. m + 1 \in DOMAIN servers /\ servers'[m] = servers[m + 1]
      BY <1>1, <1>2, <2>1, <2>3
    <3> QED BY <2>1, <3>1
  <2> QED BY <2>2, <2>3
<1>4. ServersTypeOK'
  <2>1. creds' \in [Ids -> ServerUrls \cup {NoServer}]
    BY <1>0, <1>1 DEF ServersTypeOK
  <2>2. /\ stamp' \in [Guests -> Ids \cup {NoId}]
        /\ \A g \in Guests \ typed' : stamp'[g] = NoId
    BY <1>0 DEF ServersTypeOK
  <2>3. configured' \subseteq Guests /\ typed' \subseteq configured'
    BY <1>0 DEF ServersTypeOK
  <2>4. Len(servers') <= MaxServers /\ multi
    BY <1>1, <1>2, ServersAssumption DEF ServersTypeOK
  <2> QED BY <1>0, <1>2, <2>1, <2>2, <2>3, <2>4 DEF ServersTypeOK
<1>5. IdsTellApart'
  <2> SUFFICES ASSUME NEW m \in DOMAIN servers', NEW n \in DOMAIN servers',
                      servers'[m].id = servers'[n].id
               PROVE  m = n
    BY DEF IdsTellApart
  <2> DEFINE at(q) == IF q < k THEN q ELSE q + 1
  <2>1. m \in 1..(Len(servers) - 1) /\ n \in 1..(Len(servers) - 1)
    BY <1>3
  <2>2. /\ at(m) \in DOMAIN servers /\ servers'[m] = servers[at(m)]
        /\ at(n) \in DOMAIN servers /\ servers'[n] = servers[at(n)]
    BY <1>1, <1>2, <2>1
  <2>3. at(m) = at(n)
    BY <2>2 DEF IdsTellApart
  <2> QED BY <1>1, <2>1, <2>3
<1>6. WizardWay'
  BY <1>0 DEF WizardWay
<1>7. AdminWay'
  <2> SUFFICES ASSUME OneWay, "admin" \in world.may PROVE AdminWay'
    BY DEF AdminWay, OneWay
  <2>1. legacy = NoServer /\ Targets' = Targets
    BY <1>0 DEF AdminWay, Targets
  <2>2. \A m \in DOMAIN servers' : Fits(servers'[m].id, servers'[m].url)
    BY <1>3 DEF AdminWay
  <2>3. \A j \in Ids : creds'[j] # NoServer => Fits(j, creds'[j])
    BY <1>0 DEF AdminWay, ServersTypeOK
  <2>4. \A g \in typed' : Fits(stamp'[g], Owner[g])
    BY <1>0, <2>1 DEF AdminWay, ServersTypeOK
  <2> QED BY <1>0, <2>1, <2>2, <2>3, <2>4 DEF AdminWay, Fits
<1> QED BY <1>4, <1>5, <1>6, <1>7

\* Steps that leave servers and hosts alone.
LEMMA QuietStep ==
    ASSUME ServersInv, UNCHANGED <<world, legacy, multi, servers, hosts, bare>>,
           running' = running \/ (running /\ running' = FALSE),
           wizard' = wizard \/ wizard' = "closed", Targets' \subseteq Targets \cup
               {t \in Target : /\ OneWay /\ "admin" \in world.may => Fits(t.id, t.url)
                               /\ "admin" \notin world.may => Means(servers, FirstUrl, t.id, t.url)},
           asking' \in Target \cup {NoTarget}, page' \in Target \cup {NoTarget},
           \/ creds' = creds
           \/ /\ "admin" \in world.may
              /\ \E k \in DOMAIN servers :
                    creds' = [creds EXCEPT ![servers[k].id] = servers[k].url]
    PROVE  ServersInv'
<1> USE DEF ServersInv
<1>0. FirstUrl' = FirstUrl /\ OneWay' = OneWay /\ UNCHANGED <<configured, typed, stamp>>
  BY DEF FirstUrl, OneWay, hosts
<1>1. ServersTypeOK'
  <2>1. creds' \in [Ids -> ServerUrls \cup {NoServer}]
    BY TargetTypes DEF ServersTypeOK, Server
  <2> QED BY <1>0, <2>1 DEF ServersTypeOK
<1>2. IdsTellApart'
  BY DEF IdsTellApart
<1>3. WizardWay'
  BY <1>0 DEF WizardWay
<1>4. AdminWay'
  <2> SUFFICES ASSUME OneWay, "admin" \in world.may PROVE AdminWay'
    BY <1>0 DEF AdminWay
  <2>1. \A j \in Ids : creds'[j] # NoServer => Fits(j, creds'[j])
    BY DEF AdminWay, ServersTypeOK
  <2>2. \A t \in Targets' : Fits(t.id, t.url)
    BY DEF AdminWay
  <2>3. legacy # NoServer => ~running'
    BY DEF AdminWay
  <2> QED BY <1>0, <2>1, <2>2, <2>3 DEF AdminWay, Fits
<1> QED BY <1>1, <1>2, <1>3, <1>4

\* Every request and restart keeps the invariant.
LEMMA ServersStep == ServersInv /\ [ServersNext]_serversVars => ServersInv'
<1> SUFFICES ASSUME ServersInv, [ServersNext]_serversVars PROVE ServersInv'
  OBVIOUS
<1>0. ServersTypeOK /\ IdsTellApart /\ WizardWay /\ AdminWay /\ running \in BOOLEAN
  BY DEF ServersInv, ServersTypeOK
<1>1. CASE UNCHANGED serversVars
  BY <1>0, <1>1, QuietStep DEF serversVars, hosts, store, Targets, ServersTypeOK
<1>2. ASSUME Stop, world' = world PROVE ServersInv'
  BY <1>0, <1>2, QuietStep DEF Stop, hosts, store, Targets, ServersTypeOK
<1>3. ASSUME MigrateServers, running' \in BOOLEAN, UNCHANGED <<world, wizard, configured, typed, asking, page>>
      PROVE  ServersInv'
  <2>1. CASE legacy # NoServer
    BY <1>3, <2>1, MigrateStep DEF MigrateServers
  <2>2. CASE legacy = NoServer
    <3>1. UNCHANGED <<legacy, multi, servers, stamp, bare, creds>>
      BY <1>3, <2>2 DEF MigrateServers, store
    <3>2. ServersTypeOK' /\ IdsTellApart'
      BY <1>0, <1>3, <3>1 DEF ServersTypeOK, IdsTellApart
    <3>3. Targets' = Targets /\ FirstUrl' = FirstUrl /\ OneWay' = OneWay
      BY <1>3, <3>1 DEF Targets, FirstUrl, OneWay
    <3>4. WizardWay'
      BY <1>0, <1>3, <2>2, <3>1, <3>3 DEF WizardWay
    <3>5. AdminWay'
      BY <1>0, <1>3, <2>2, <3>1, <3>3 DEF AdminWay, Fits
    <3> QED BY <3>2, <3>4, <3>5 DEF ServersInv
  <2> QED BY <2>1, <2>2
<1>4. ASSUME Start, world' = world PROVE ServersInv'
  BY <1>3, <1>4 DEF Start
<1>5. ASSUME StartCut, world' = world PROVE ServersInv'
  BY <1>0, <1>5, MigrateStep DEF StartCut
<1>6. ASSUME running, Request, UNCHANGED <<running, world>> PROVE ServersInv'
  <2>1. CASE AddAnother
    BY <1>0, <1>3, <1>6, <2>1 DEF AddAnother
  <2>2. CASE WizardDiscover
    <3>1. /\ UNCHANGED <<wizard, legacy, multi, servers, hosts, bare, creds, page>>
          /\ "wizard" \in world.may /\ FirstUrl # NoServer
          /\ asking' = [id |-> NoId, url |-> FirstUrl]
      BY <2>2 DEF WizardDiscover, store
    <3>2. FirstUrl \in ServerUrls
      <4>1. servers # <<>> => Head(servers) \in Server
        BY <1>0 DEF ServersTypeOK
      <4> QED BY <1>0, <3>1, <4>1 DEF FirstUrl, ServersTypeOK, Server
    <3>3. asking' \in Target /\ asking'.id = NoId /\ asking'.url = FirstUrl
      BY <3>1, <3>2 DEF Target
    <3>4. Means(servers, FirstUrl, asking'.id, asking'.url)
      BY <3>3 DEF Means
    <3>5. Targets' \subseteq Targets \cup {asking'} /\ ~(OneWay /\ "admin" \in world.may)
      BY <3>1 DEF Targets, OneWay
    <3> QED BY <1>0, <1>6, <3>1, <3>3, <3>4, <3>5, QuietStep DEF ServersTypeOK
  <2>3. CASE FinishWizard
    BY <1>0, <1>6, <2>3, QuietStep DEF FinishWizard, hosts, store, Targets, ServersTypeOK
  <2>4. CASE FactoryReset
    <3>1. /\ bare' = NoServer /\ creds' = [i \in Ids |-> NoServer] /\ legacy' = NoServer
          /\ configured' = {} /\ typed' = {} /\ stamp' = [g \in Guests |-> NoId]
          /\ wizard' = "first" /\ UNCHANGED <<multi, servers, asking, page>> /\ "admin" \in world.may
      BY <2>4 DEF FactoryReset
    <3>2. ServersTypeOK' /\ IdsTellApart'
      BY <1>0, <1>6, <3>1 DEF ServersTypeOK, IdsTellApart
    <3>3. WizardWay'
      BY <1>6, <3>1 DEF WizardWay
    <3>4. AdminWay'
      BY <1>0, <1>6, <3>1 DEF AdminWay, Fits, OneWay, Targets
    <3> QED BY <3>2, <3>3, <3>4 DEF ServersInv
  <2>5. CASE NodesAnswer
    <3>1. asking \in Targets /\ page' = asking /\ asking' = NoTarget
      BY <2>5 DEF NodesAnswer, Targets
    <3>2. Targets' \subseteq Targets
      BY <3>1 DEF Targets
    <3> QED BY <1>6, <2>5, <3>1, <3>2, AddHostsStep DEF NodesAnswer
  <2>6. CASE NodesFail
    BY <1>0, <1>6, <2>6, QuietStep DEF NodesFail, hosts, store, Targets, ServersTypeOK
  <2>7. ASSUME NEW u \in ServerUrls, SaveFirstServer(u) PROVE ServersInv'
    BY <1>6, <2>7, SaveFirstServerStep
  <2>8. ASSUME NEW u \in ServerUrls, NEW secrets \in BOOLEAN, AddServer(u, secrets) PROVE ServersInv'
    BY <1>6, <2>8, AddServerStep
  <2>9. ASSUME NEW k \in 1..MaxServers, SaveSecrets(k) PROVE ServersInv'
    BY <1>0, <1>6, <2>9, QuietStep DEF SaveSecrets, hosts, Targets, ServersTypeOK
  <2>10. ASSUME NEW k \in 1..MaxServers, RemoveServer(k) PROVE ServersInv'
    BY <1>6, <2>10, RemoveServerStep
  <2>11. ASSUME NEW k \in 1..MaxServers, AskNodes(k) \/ Discover(k) PROVE ServersInv'
    <3>1. /\ UNCHANGED <<wizard, legacy, multi, servers, hosts, bare, creds>>
          /\ "admin" \in world.may /\ k \in DOMAIN servers
          /\ asking' \in {asking, servers[k]} /\ page' \in {page, servers[k]}
      BY <2>11 DEF AskNodes, Discover, store
    <3>2. servers[k] \in Target
      BY <1>0, <3>1, TargetTypes DEF Server, Target
    <3>3. OneWay => Fits(servers[k].id, servers[k].url)
      BY <1>0, <3>1 DEF AdminWay
    <3>4. Targets' \subseteq Targets \cup {servers[k]}
      BY <3>1 DEF Targets
    <3>5. asking' \in Target \cup {NoTarget} /\ page' \in Target \cup {NoTarget}
      BY <1>0, <3>1, <3>2 DEF ServersTypeOK
    <3> QED BY <1>6, <3>1, <3>2, <3>3, <3>4, <3>5, QuietStep
  <2>12. ASSUME NEW g \in Guests, SelectGuest(g) \/ SaveLxcs(g) PROVE ServersInv'
    <3>1. /\ page \in Targets /\ Owner[g] = page.url /\ AddHosts({g}, page.id)
          /\ UNCHANGED <<wizard, legacy, multi, servers, store, asking, page>>
      BY <2>12 DEF SelectGuest, SaveLxcs, Offered, Targets
    <3>2. Targets' = Targets
      BY <3>1 DEF Targets
    <3> QED BY <1>6, <3>1, <3>2, AddHostsStep
  <2>13. ASSUME NEW g \in Guests, SaveVms(g) PROVE ServersInv'
    <3>1. /\ configured' = configured \cup {g}
          /\ UNCHANGED <<wizard, legacy, multi, servers, typed, stamp, bare, creds, asking, page>>
      BY <2>13 DEF SaveVms, store
    <3>2. ServersTypeOK' /\ IdsTellApart'
      BY <1>0, <1>6, <3>1 DEF ServersTypeOK, IdsTellApart
    <3>3. Targets' = Targets /\ FirstUrl' = FirstUrl /\ OneWay' = OneWay
      BY <1>6, <3>1 DEF Targets, FirstUrl, OneWay
    <3>4. WizardWay' /\ AdminWay'
      BY <1>0, <1>6, <3>1, <3>3 DEF WizardWay, AdminWay, Fits
    <3> QED BY <3>2, <3>4 DEF ServersInv
  <2>14. ASSUME NEW g \in Guests, UpdateHost(g) \/ DeleteHost(g) PROVE ServersInv'
    <3>1. /\ configured' \in {configured, configured \ {g}} /\ typed' = typed \ {g}
          /\ stamp' = [stamp EXCEPT ![g] = NoId] /\ "admin" \in world.may
          /\ configured' = configured \/ configured' = configured \ {g}
          /\ UNCHANGED <<wizard, legacy, multi, servers, bare, creds, asking, page>>
      BY <2>14 DEF UpdateHost, DeleteHost, store
    <3>2. ServersTypeOK' /\ IdsTellApart'
      BY <1>0, <1>6, <3>1 DEF ServersTypeOK, IdsTellApart
    <3>3. Targets' = Targets /\ OneWay' = OneWay
      BY <1>6, <3>1 DEF Targets, OneWay
    <3>4. WizardWay'
      BY <1>6, <3>1 DEF WizardWay
    <3>5. AdminWay'
      BY <1>0, <1>6, <3>1, <3>3 DEF AdminWay, Fits, ServersTypeOK
    <3> QED BY <3>2, <3>4, <3>5 DEF ServersInv
  <2> QED BY <1>6, <2>1, <2>2, <2>3, <2>4, <2>5, <2>6, <2>7, <2>8, <2>9, <2>10, <2>11, <2>12,
             <2>13, <2>14 DEF Request
<1> QED BY <1>1, <1>2, <1>4, <1>5, <1>6 DEF ServersNext

\* The inductive invariant of the servers, their ids, stamps and credentials.
THEOREM ServersInvariance == ServersSpec => []ServersInv
BY InitServersInv, ServersStep, PTL DEF ServersSpec

\* config.yml, the credentials and what is under way stay well-formed.
THEOREM ServersTypeCorrect == ServersSpec => []ServersTypeOK
<1>1. ServersInv => ServersTypeOK
  BY DEF ServersInv
<1> QED BY <1>1, ServersInvariance, PTL

\* Two servers never share an id, whatever their URLs slugify to (_unique_server_id).
THEOREM IdsTellApartHolds == ServersSpec => []IdsTellApart
<1>1. ServersInv => IdsTellApart
  BY DEF ServersInv
<1> QED BY <1>1, ServersInvariance, PTL

\* An id leads to its server.
LEMMA UrlOfKnown ==
    ASSUME IdsTellApart, NEW k \in DOMAIN servers
    PROVE  UrlOf(servers[k].id) = servers[k].url
<1> DEFINE m == CHOOSE m \in DOMAIN servers : servers[m].id = servers[k].id
<1>1. m \in DOMAIN servers /\ servers[m].id = servers[k].id
  OBVIOUS
<1>2. m = k
  <2> HIDE DEF m
  <2> QED BY <1>1 DEF IdsTellApart
<1>3. servers[k].id \in IdsOf(servers)
  BY DEF IdsOf
<1> QED BY <1>2, <1>3 DEF UrlOf

\* No host is checked or upgraded through a server it does not live on, nor with the
\* credentials of one (server_context), wherever pages and requests outlive the
\* servers they were for.
THEOREM RightServerHolds == ServersSpec => []RightServer
<1>1. ASSUME ServersInv PROVE RightServer
  <2> SUFFICES ASSUME OneWay, NEW g \in Routed
               PROVE  ContextUrl(g) \in {NoServer, Owner[g]} /\ ContextCreds(g) \in {NoServer, Owner[g]}
    BY DEF RightServer
  <2>0. /\ ServersTypeOK /\ IdsTellApart /\ WizardWay /\ AdminWay /\ g \in typed /\ g \in Guests
        /\ Owner[g] \in ServerUrls /\ stamp[g] \in Ids \cup {NoId} /\ DOMAIN servers = 1..Len(servers)
        /\ stamp[g] # NoId => stamp[g] \in IdsOf(servers)
    BY <1>1, GuestsAssumption DEF ServersInv, Routed, ServersTypeOK, ResolveKind
  <2>1. CASE "admin" \notin world.may
    <3>1. Means(servers, FirstUrl, stamp[g], Owner[g])
      BY <2>0, <2>1 DEF WizardWay
    <3>2. CASE stamp[g] = NoId
      <4>1. Owner[g] = FirstUrl /\ bare \in {NoServer, FirstUrl}
        BY <2>0, <2>1, <3>1, <3>2 DEF Means, WizardWay
      <4>2. CASE bare # NoServer \/ servers = <<>>
        BY <3>2, <4>1, <4>2 DEF ContextUrl, ContextCreds, FirstCreds
      <4>3. CASE bare = NoServer /\ servers # <<>>
        <5>1. 1 \in DOMAIN servers /\ Head(servers) = servers[1] /\ servers[1].id \in Ids
          BY <2>0, <4>3, TargetTypes DEF ServersTypeOK, Server
        <5>2. FirstUrl = servers[1].url
          BY <2>0, <2>1, <4>3, <5>1 DEF WizardWay, FirstUrl
        <5>3. creds[servers[1].id] \in {NoServer, servers[1].url}
          <6> SUFFICES ASSUME creds[servers[1].id] # NoServer
                       PROVE  creds[servers[1].id] = servers[1].url
            OBVIOUS
          <6>1. Means(servers, FirstUrl, servers[1].id, creds[servers[1].id]) /\ servers[1].id # NoId
            BY <2>0, <2>1, <5>1, NoIdAssumption DEF WizardWay
          <6>2. PICK k \in DOMAIN servers :
                    servers[k] = [id |-> servers[1].id, url |-> creds[servers[1].id]]
            BY <6>1 DEF Means
          <6>3. servers[k].id = servers[1].id /\ servers[k].url = creds[servers[1].id]
            BY <6>2
          <6> QED BY <2>0, <5>1, <6>3 DEF IdsTellApart
        <5> QED BY <3>2, <4>1, <4>3, <5>1, <5>2, <5>3 DEF ContextUrl, ContextCreds, FirstCreds
      <4> QED BY <4>2, <4>3
    <3>3. CASE stamp[g] # NoId
      <4>1. PICK k \in DOMAIN servers : servers[k] = [id |-> stamp[g], url |-> Owner[g]]
        BY <3>1, <3>3 DEF Means
      <4>2. servers[k].id = stamp[g] /\ servers[k].url = Owner[g]
        BY <4>1
      <4>3. ContextUrl(g) = Owner[g]
        BY <2>0, <3>3, <4>2, UrlOfKnown DEF ContextUrl
      <4>4. creds[stamp[g]] \in {NoServer, Owner[g]}
        <5> SUFFICES ASSUME creds[stamp[g]] # NoServer PROVE creds[stamp[g]] = Owner[g]
          OBVIOUS
        <5>1. Means(servers, FirstUrl, stamp[g], creds[stamp[g]])
          BY <2>0, <2>1, <3>3 DEF WizardWay
        <5>2. PICK m \in DOMAIN servers : servers[m] = [id |-> stamp[g], url |-> creds[stamp[g]]]
          BY <3>3, <5>1 DEF Means
        <5>3. servers[m].id = stamp[g] /\ servers[m].url = creds[stamp[g]]
          BY <5>2
        <5> QED BY <2>0, <4>2, <5>3 DEF IdsTellApart
      <4> QED BY <3>3, <4>3, <4>4 DEF ContextCreds
    <3> QED BY <3>2, <3>3
  <2>2. CASE "admin" \in world.may
    <3>0. \A u \in ServerUrls : world.slug[u] = world.slug[Owner[g]] => u = Owner[g]
      BY <2>0, <2>2 DEF OneWay
    <3>1. CASE legacy # NoServer
      <4>1. stamp[g] = NoId /\ Owner[g] = legacy /\ bare = legacy
        BY <2>0, <2>2, <3>1 DEF AdminWay
      <4> QED BY <3>1, <4>1 DEF ContextUrl, ContextCreds, FirstUrl, FirstCreds
    <3>2. CASE legacy = NoServer
      <4>1. Fits(stamp[g], Owner[g])
        BY <2>0, <2>2, <3>2 DEF AdminWay
      <4>2. stamp[g] \in Ids /\ stamp[g] # NoId /\ stamp[g][1] = world.slug[Owner[g]]
        BY <4>1, NoIdAssumption DEF Fits
      <4>3. PICK k \in DOMAIN servers : servers[k].id = stamp[g]
        BY <2>0, <4>2 DEF IdsOf
      <4>4. servers[k].url = Owner[g]
        <5>1. servers[k].url \in ServerUrls
          BY <2>0, TargetTypes DEF Server
        <5>2. Fits(servers[k].id, servers[k].url)
          BY <2>0, <2>2 DEF AdminWay
        <5> QED BY <3>0, <4>2, <4>3, <5>1, <5>2 DEF Fits
      <4>5. creds[stamp[g]] \in {NoServer, Owner[g]}
        <5> SUFFICES ASSUME creds[stamp[g]] # NoServer PROVE creds[stamp[g]] = Owner[g]
          OBVIOUS
        <5>1. creds[stamp[g]] \in ServerUrls /\ Fits(stamp[g], creds[stamp[g]])
          BY <2>0, <2>2, <4>2 DEF AdminWay, ServersTypeOK
        <5> QED BY <3>0, <4>2, <5>1 DEF Fits
      <4> QED BY <2>0, <4>2, <4>3, <4>4, <4>5, UrlOfKnown DEF ContextUrl, ContextCreds
    <3> QED BY <3>1, <3>2
  <2> QED BY <2>1, <2>2
<1> QED BY <1>1, ServersInvariance, PTL

\* migrate_proxmox_servers costs no host its server or its credentials.
THEOREM AccessKeptHolds == ServersSpec => AccessKept
<1> DEFINE Kept == OneWay /\ "crash" \notin world.may /\ legacy # NoServer /\ legacy' = NoServer
                       /\ wizard' # "first" => Reachable \subseteq Reachable'
<1>1. ServersInv /\ [ServersNext]_serversVars => [Kept]_serversVars
  <2> SUFFICES ASSUME ServersInv, ServersNext, OneWay, "crash" \notin world.may,
                      legacy # NoServer, legacy' = NoServer, wizard' # "first"
               PROVE  Reachable \subseteq Reachable'
    OBVIOUS
  <2> DEFINE i == <<world.slug[legacy], 1>>
  <2>0. servers = <<>> /\ legacy \in ServerUrls /\ i \in Ids /\ i # NoId
    BY NoIdAssumption, ServersAssumption, WorldsAssumption
       DEF ServersInv, ServersTypeOK, WizardWay, AdminWay, World, Ids
  <2>1. MigrateServers /\ typed' = typed
    <3>1. CASE Stop \/ StartCut
      BY <3>1 DEF Stop, StartCut
    <3>2. CASE Start
      BY <3>2 DEF Start
    <3>3. CASE Request
      <4>1. CASE AddAnother
        BY <4>1 DEF AddAnother
      <4>2. CASE FactoryReset
        BY <4>2 DEF FactoryReset
      <4>3. CASE WizardDiscover \/ FinishWizard \/ NodesAnswer \/ NodesFail
        BY <4>3 DEF WizardDiscover, FinishWizard, NodesAnswer, NodesFail
      <4>4. ASSUME NEW u \in ServerUrls, SaveFirstServer(u) PROVE FALSE
        BY <4>4, ServersAssumption DEF SaveFirstServer
      <4>5. ASSUME NEW u \in ServerUrls, NEW secrets \in BOOLEAN, AddServer(u, secrets) PROVE FALSE
        BY <4>5 DEF AddServer
      <4>6. ASSUME NEW k \in 1..MaxServers,
                   SaveSecrets(k) \/ RemoveServer(k) \/ AskNodes(k) \/ Discover(k)
            PROVE  FALSE
        BY <4>6 DEF SaveSecrets, RemoveServer, AskNodes, Discover
      <4>7. ASSUME NEW g \in Guests, SelectGuest(g) \/ SaveLxcs(g) \/ SaveVms(g) \/ UpdateHost(g)
                                       \/ DeleteHost(g)
            PROVE  FALSE
        BY <4>7 DEF SelectGuest, SaveLxcs, SaveVms, UpdateHost, DeleteHost
      <4> QED BY <3>3, <4>1, <4>2, <4>3, <4>4, <4>5, <4>6, <4>7 DEF Request
    <3> QED BY <3>1, <3>2, <3>3 DEF ServersNext
  <2>2. /\ servers' = <<[id |-> i, url |-> legacy]>>
        /\ stamp' = [g \in Guests |-> IF g \in typed THEN i ELSE NoId]
        /\ creds' = IF bare = NoServer THEN creds ELSE [creds EXCEPT ![i] = bare]
    BY <2>0, <2>1 DEF MigrateServers, MigrateConfig, MoveCredentials
  <2> HIDE DEF i
  <2>3. /\ DOMAIN servers' = {1} /\ servers'[1].id = i /\ servers'[1].url = legacy
        /\ IdsOf(servers') = {i}
    BY <2>2 DEF IdsOf
  <2> SUFFICES ASSUME NEW g \in Reachable PROVE g \in Reachable'
    OBVIOUS
  <2>4. g \in typed /\ g \in Guests /\ Kind[g] \in {"node", "lxc"} /\ stamp[g] = NoId /\ bare # NoServer
    <3>1. IdsOf(servers) = {}
      BY <2>0 DEF IdsOf
    <3> QED BY <2>0, <3>1 DEF Reachable, Routed, ResolveKind, ContextCreds, FirstCreds,
    ServersInv,
                              ServersTypeOK
  <2>5. stamp'[g] = i /\ creds'[i] # NoServer
    BY <2>0, <2>2, <2>4 DEF ServersInv, ServersTypeOK
  <2>6. g \in Routed'
    BY <2>0, <2>1, <2>3, <2>4, <2>5 DEF Routed, ResolveKind
  <2>7. ContextUrl(g)' = legacy /\ ContextCreds(g)' # NoServer
    <3>1. (CHOOSE k \in DOMAIN servers' : servers'[k].id = stamp'[g]) = 1
      BY <2>3, <2>5
    <3>2. ContextUrl(g)' = legacy
      BY <2>0, <2>3, <2>5, <3>1 DEF ContextUrl, UrlOf
    <3> QED BY <2>0, <2>5, <3>2 DEF ContextCreds
  <2> QED BY <2>6, <2>7 DEF Reachable
<1>2. AccessKept <=> [][Kept]_serversVars
  BY PTL DEF AccessKept
<1> QED BY <1>1, <1>2, ServersInvariance, PTL DEF ServersSpec
===============================================================================
