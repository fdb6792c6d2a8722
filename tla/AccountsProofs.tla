----------------------------- MODULE AccountsProofs -----------------------------
(***************************************************************************)
(* Proofs that an admitted session is younger than the last change of the  *)
(* account, and that the account outlives whatever else is saved in its    *)
(* file, for any number of browsers, hosts and changes, whatever goes      *)
(* wrong in the store; and that no host is given the secrets of another,   *)
(* nor loses its own, however many hosts are added, renamed and deleted.   *)
(***************************************************************************)
EXTENDS Accounts, SequenceTheorems, TLAPS

Acc == [made : BOOLEAN, mfa : BOOLEAN, key : Nat, ver : Nat]
Sess ==
    [auth : BOOLEAN, ver : Nat, era : Nat, done : BOOLEAN, key : Nat, secret : BOOLEAN, verified : BOOLEAN]

\* The types the argument needs, without the bounds of the instance.
Shape ==
    /\ scene \in {"hosts", "account"} /\ wiped \in BOOLEAN
    /\ account \in Acc /\ era \in Nat
    /\ session \in [Browsers -> Sess] /\ flight \in [Browsers -> Sess]

\* A cookie that is about an account that exists, has no later version than the
\* account, and if it has the same was given out since the last change.
Current(s, acc, now) ==
    /\ s.auth \/ s.done => acc.made
    /\ s.auth => s.ver <= acc.ver /\ (s.ver = acc.ver => s.era = now)

\* Nobody signs in in a behaviour about the hosts.  In one about the account, as long as
\* nothing was lost, the store can be read, the account is there since the first change,
\* and every cookie that a browser has or will get back is current.
IndInv ==
    /\ Shape
    /\ scene = "hosts" => era = 0 /\ \A b \in Browsers : ~session[b].auth
    /\ scene = "account" /\ ~wiped =>
           /\ sealed = key
           /\ era > 0 => account.made
           /\ \A b \in Browsers : Current(session[b], account, era) /\ Current(flight[b], account, era)

\* What is read of the account is an account, and the account itself where nothing
\* was lost.
LEMMA Loaded ==
    ASSUME IndInv
    PROVE  /\ LoadAccount \in Acc
           /\ scene = "account" /\ ~wiped => LoadAccount = account
BY DEF IndInv, Shape, LoadAccount, NoAccount, Acc

\* The initial states.
LEMMA InitInv ==
    ASSUME AccountInit
    PROVE  IndInv
<1>1. NoSession \in Sess /\ NoAccount \in Acc
  BY DEF NoSession, Sess, NoAccount, Acc
<1>2. Shape
  BY <1>1 DEF AccountInit, Shape
<1>. QED
  BY <1>1, <1>2 DEF AccountInit, Init, IndInv, NoSession, NoAccount, Current

\* A step that touches one cookie, and leaves in it what signing in has put there.
LEMMA CookieStep ==
    ASSUME IndInv, scene = "account", UNCHANGED <<vars, scene, account, era, wiped>>,
           session' \in [Browsers -> Sess], flight' \in [Browsers -> Sess],
           ~wiped => \A b \in Browsers : Current(session'[b], account, era) /\ Current(flight'[b], account, era)
    PROVE  IndInv'
BY DEF IndInv, Shape, vars

\* An edit of a cookie that leaves the marks of signing in alone.
LEMMA EditedCookie ==
    ASSUME NEW s \in Sess, NEW t \in Sess, NEW acc, NEW now, Current(s, acc, now),
           t.auth = s.auth, t.ver = s.ver, t.era = s.era, t.done => s.done
    PROVE  Current(t, acc, now)
BY DEF Current

\* No cookie is newer than an account that has just changed.
LEMMA ChangedAccount ==
    ASSUME NEW s \in Sess, NEW t \in Sess, NEW acc \in Acc, NEW new \in Acc, NEW now \in Nat,
           Current(s, acc, now), t.auth = s.auth, t.ver = s.ver, t.done => s.done,
           new.made, new.ver = acc.ver + 1
    PROVE  Current(t, new, now + 1)
BY DEF Current, Sess, Acc

\* Saving a changed account.
LEMMA ChangeStep ==
    ASSUME IndInv, scene = "account", NEW new \in Acc, SaveAccount(new), era' = era + 1,
           ~wiped => new.made /\ new.ver = account.ver + 1,
           session' \in [Browsers -> Sess], flight' = flight,
           \A b \in Browsers : /\ session'[b].auth = session[b].auth /\ session'[b].ver = session[b].ver
                               /\ session'[b].done => session[b].done
    PROVE  IndInv'
<1>1. /\ account' \in Acc /\ era' \in Nat /\ scene' = scene
      /\ wiped' \in BOOLEAN /\ (~wiped' => ~wiped /\ sealed' = key /\ key' = key /\ account' = new)
  <2>1. account \in Acc /\ era \in Nat /\ wiped \in BOOLEAN
    BY DEF IndInv, Shape
  <2>2. /\ account' = (IF sealed' = key THEN new ELSE account)
        /\ wiped' = (wiped \/ sealed' # key)
        /\ scene' = scene /\ key' = key
    BY DEF SaveAccount
  <2>3. account' \in Acc
    BY <2>1, <2>2
  <2>4. wiped' \in BOOLEAN /\ (~wiped' => ~wiped /\ sealed' = key)
    BY <2>1, <2>2, Zenon
  <2>. QED
    BY <2>1, <2>2, <2>3, <2>4
<1>2. Shape'
  BY <1>1 DEF IndInv, Shape
<1>3. ASSUME ~wiped', NEW b \in Browsers
      PROVE  Current(session'[b], account', era') /\ Current(flight'[b], account', era')
  <2>1. /\ session[b] \in Sess /\ session'[b] \in Sess /\ flight[b] \in Sess /\ account \in Acc /\ era \in Nat
        /\ Current(session[b], account, era) /\ Current(flight[b], account, era)
    BY <1>1, <1>3 DEF IndInv, Shape
  <2>. QED
    BY <1>1, <1>3, <2>1, ChangedAccount
<1>. QED
  BY <1>1, <1>2, <1>3 DEF IndInv

\* The entries that are saved.
LEMMA Entries ==
    ASSUME NEW a \in Acc, NEW m \in BOOLEAN
    PROVE  /\ Bumped([a EXCEPT !.mfa = m]) \in Acc
           /\ Bumped([a EXCEPT !.mfa = m]).made = a.made
           /\ Bumped([a EXCEPT !.mfa = m]).ver = a.ver + 1
           /\ Bumped([a EXCEPT !.made = TRUE]) \in Acc
           /\ Bumped([a EXCEPT !.made = TRUE]).made
           /\ Bumped([a EXCEPT !.made = TRUE]).ver = a.ver + 1
           /\ [a EXCEPT !.made = TRUE, !.key = a.key + 1] \in Acc
           /\ [a EXCEPT !.made = TRUE, !.key = a.key + 1].made
<1>1. ASSUME NEW x \in Acc
      PROVE  Bumped(x) \in Acc /\ Bumped(x).made = x.made /\ Bumped(x).ver = x.ver + 1
  BY <1>1 DEF Bumped, Acc
<1>2. [a EXCEPT !.mfa = m] \in Acc /\ [a EXCEPT !.mfa = m].made = a.made /\ [a EXCEPT !.mfa = m].ver = a.ver
  BY DEF Acc
<1>3. [a EXCEPT !.made = TRUE] \in Acc /\ [a EXCEPT !.made = TRUE].made /\ [a EXCEPT !.made = TRUE].ver = a.ver
  BY DEF Acc
<1>4. a.key + 1 \in Nat
  BY DEF Acc
<1>5. ASSUME NEW n \in Nat
      PROVE  [a EXCEPT !.made = TRUE, !.key = n] \in Acc /\ [a EXCEPT !.made = TRUE, !.key = n].made
  BY <1>5 DEF Acc
<1>. QED
  BY <1>1, <1>2, <1>3, <1>4, <1>5

\* create_admin: nobody has signed in before there is an account.
LEMMA CreateInv ==
    ASSUME IndInv, scene = "account", NEW b \in Browsers, CreateAccount(b)
    PROVE  IndInv'
<1> DEFINE new == [LoadAccount EXCEPT !.made = TRUE, !.key = LoadAccount.key + 1]
           mine == [session[b] EXCEPT !.done = TRUE, !.key = new.key]
<1>1. /\ new \in Acc /\ new.made /\ session[b] \in Sess
      /\ SaveAccount(new) /\ session' = [session EXCEPT ![b] = mine] /\ flight' = flight /\ era' = era + 1
  <2>1. LoadAccount \in Acc /\ session[b] \in Sess
    BY Loaded DEF IndInv, Shape
  <2>2. new \in Acc /\ new.made
    BY <2>1, Entries
  <2>. QED
    BY <2>1, <2>2 DEF CreateAccount, SetCookie
<1>2. /\ account' = (IF sealed' = key THEN new ELSE account)
      /\ wiped' = (wiped \/ sealed' # key)
      /\ scene' = scene /\ key' = key
  BY <1>1 DEF SaveAccount
<1>3. wiped' \in BOOLEAN /\ (~wiped' => ~wiped /\ sealed' = key)
  BY <1>2, Zenon DEF IndInv, Shape
<1>4. mine \in Sess /\ mine.auth = session[b].auth
  BY <1>1 DEF Sess, Acc
<1>5. Shape'
  BY <1>1, <1>2, <1>3, <1>4 DEF IndInv, Shape
<1>6. ASSUME ~wiped', NEW d \in Browsers
      PROVE  ~session'[d].auth /\ ~flight'[d].auth
  <2>1. ~account.made
    BY <1>3, <1>6, Loaded DEF CreateAccount, AdminExists
  <2>2. ~session[d].auth /\ ~flight[d].auth
    BY <1>3, <1>6, <2>1 DEF IndInv, Current
  <2>. QED
    BY <1>1, <1>4, <2>2 DEF IndInv, Shape
<1>. QED
  BY <1>1, <1>2, <1>3, <1>5, <1>6 DEF IndInv, Current

\* An edit of the cookie of one browser.
LEMMA OneCookie ==
    ASSUME IndInv, scene = "account", NEW b \in Browsers, NEW t \in Sess, SetCookie(b, t),
           UNCHANGED <<vars, scene, account, era, wiped>>,
           ~wiped => Current(t, account, era)
    PROVE  IndInv'
<1>1. session' = [session EXCEPT ![b] = t] /\ flight' = flight
  BY DEF SetCookie
<1>2. session' \in [Browsers -> Sess] /\ flight' \in [Browsers -> Sess]
  BY <1>1 DEF IndInv, Shape
<1>3. ~wiped => \A d \in Browsers : Current(session'[d], account, era) /\ Current(flight'[d], account, era)
  BY <1>1 DEF IndInv, Shape
<1>. QED
  BY <1>2, <1>3, CookieStep

\* The steps that only change a cookie.
LEMMA CookieInv ==
    ASSUME IndInv, scene = "account", NEW b \in Browsers,
           \/ OpenSecurity(b) \/ ConfirmRecovery(b) \/ Login(b) \/ Logout(b) \/ ForgotPassword(b)
           \/ Refuse(b) \/ OpenMfa(b)
    PROVE  IndInv'
<1>0. session[b] \in Sess /\ (~wiped => Current(session[b], account, era))
  BY DEF IndInv, Shape
<1>1. ASSUME NEW t \in Sess, SetCookie(b, t), UNCHANGED <<vars, scene, account, era, wiped>>,
             t.auth = session[b].auth, t.ver = session[b].ver, t.era = session[b].era, t.done => session[b].done
      PROVE  IndInv'
  BY <1>0, <1>1, EditedCookie, OneCookie
<1>2. CASE OpenSecurity(b) \/ OpenMfa(b)
  <2> DEFINE t == [session[b] EXCEPT !.secret = TRUE]
  <2>1. /\ t \in Sess /\ t.auth = session[b].auth /\ t.ver = session[b].ver /\ t.era = session[b].era
        /\ t.done = session[b].done
    BY <1>0 DEF Sess
  <2>. QED
    BY <1>1, <1>2, <2>1 DEF OpenSecurity, OpenMfa
<1>3. CASE ConfirmRecovery(b)
  <2> DEFINE t == [session[b] EXCEPT !.done = FALSE, !.key = 0]
  <2>1. /\ t \in Sess /\ t.auth = session[b].auth /\ t.ver = session[b].ver /\ t.era = session[b].era /\ ~t.done
    BY <1>0 DEF Sess
  <2>. QED
    BY <1>1, <1>3, <2>1 DEF ConfirmRecovery
<1>4. CASE ForgotPassword(b)
  <2> DEFINE t == [session[b] EXCEPT !.verified = TRUE]
  <2>1. /\ t \in Sess /\ t.auth = session[b].auth /\ t.ver = session[b].ver /\ t.era = session[b].era
        /\ t.done = session[b].done
    BY <1>0 DEF Sess
  <2>. QED
    BY <1>1, <1>4, <2>1 DEF ForgotPassword
<1>5. CASE Login(b)
  <2> DEFINE t == [NoSession EXCEPT !.auth = TRUE, !.ver = LoadAccount.ver, !.era = era]
  <2>1. LoadAccount \in Acc /\ era \in Nat /\ (~wiped => LoadAccount = account)
    BY Loaded DEF IndInv, Shape
  <2>2. t \in Sess /\ t.ver = LoadAccount.ver /\ t.era = era
    BY <2>1 DEF NoSession, Sess, Acc
  <2>3. ~wiped => Current(t, account, era)
    BY <1>5, <2>1, <2>2 DEF Login, AdminExists, Current, Acc
  <2>. QED
    BY <1>5, <2>2, <2>3, OneCookie DEF Login
<1>6. CASE Logout(b) \/ Refuse(b)
  <2>1. NoSession \in Sess /\ Current(NoSession, account, era)
    BY DEF NoSession, Sess, Current
  <2>. QED
    BY <1>6, <2>1, OneCookie DEF Logout, Refuse
<1>. QED
  BY <1>2, <1>3, <1>4, <1>5, <1>6

\* A response that comes late brings back a cookie that is as current as before.
LEMMA SlowInv ==
    ASSUME IndInv, scene = "account", NEW b \in Browsers, SlowRequest(b) \/ SlowResponse(b)
    PROVE  IndInv'
<1>1. NoSession \in Sess /\ Current(NoSession, account, era)
  BY DEF NoSession, Sess, Current
<1>2. session' \in [Browsers -> Sess] /\ flight' \in [Browsers -> Sess]
  BY <1>1 DEF SlowRequest, SlowResponse, IndInv, Shape
<1>3. ~wiped => \A d \in Browsers : Current(session'[d], account, era) /\ Current(flight'[d], account, era)
  BY <1>1 DEF SlowRequest, SlowResponse, IndInv, Shape
<1>. QED
  BY <1>2, <1>3, CookieStep DEF SlowRequest, SlowResponse

\* The steps that change the password or the second factor.
LEMMA ChangeInv ==
    ASSUME IndInv, scene = "account", NEW b \in Browsers,
           SetupMfa(b) \/ ResetPassword(b) \/ ChangePassword(b) \/ EnrollMfa(b) \/ RemoveMfa(b)
    PROVE  IndInv'
<1>0. /\ session \in [Browsers -> Sess] /\ session[b] \in Sess
      /\ LoadAccount \in Acc /\ (~wiped => LoadAccount = account /\ Current(session[b], account, era))
  BY Loaded DEF IndInv, Shape
<1>1. ASSUME NEW m \in BOOLEAN
      PROVE  /\ Bumped([LoadAccount EXCEPT !.mfa = m]) \in Acc
             /\ Bumped([LoadAccount EXCEPT !.mfa = m]).made = LoadAccount.made
             /\ Bumped([LoadAccount EXCEPT !.mfa = m]).ver = LoadAccount.ver + 1
  BY <1>0, Entries
<1>2. /\ Bumped([LoadAccount EXCEPT !.made = TRUE]) \in Acc
      /\ Bumped([LoadAccount EXCEPT !.made = TRUE]).made
      /\ Bumped([LoadAccount EXCEPT !.made = TRUE]).ver = LoadAccount.ver + 1
  BY <1>0, Entries
<1>3. /\ [session[b] EXCEPT !.secret = FALSE] \in Sess
      /\ [session[b] EXCEPT !.secret = FALSE].auth = session[b].auth
      /\ [session[b] EXCEPT !.secret = FALSE].ver = session[b].ver
      /\ [session[b] EXCEPT !.secret = FALSE].done = session[b].done
      /\ [session[b] EXCEPT !.verified = FALSE] \in Sess
      /\ [session[b] EXCEPT !.verified = FALSE].auth = session[b].auth
      /\ [session[b] EXCEPT !.verified = FALSE].ver = session[b].ver
      /\ [session[b] EXCEPT !.verified = FALSE].done = session[b].done
  BY <1>0 DEF Sess
<1>4. CASE SetupMfa(b)
  <2>1. ~wiped => LoadAccount.made
    BY <1>0, <1>4 DEF SetupMfa, Current
  <2>. QED
    BY <1>0, <1>1, <1>3, <1>4, <2>1, ChangeStep DEF SetupMfa, Changes, SetCookie
<1>5. CASE ResetPassword(b)
  BY <1>0, <1>2, <1>3, <1>5, ChangeStep DEF ResetPassword, Changes, SetCookie
<1>6. CASE ChangePassword(b)
  <2>1. session' = session /\ flight' = flight
    BY <1>6 DEF ChangePassword
  <2>. QED
    BY <1>0, <1>2, <1>6, <2>1, ChangeStep DEF ChangePassword, Changes
<1>7. CASE EnrollMfa(b)
  BY <1>0, <1>1, <1>3, <1>7, ChangeStep DEF EnrollMfa, Changes, SetCookie, Accepts, AdminExists
<1>8. CASE RemoveMfa(b)
  <2>1. session' = session /\ flight' = flight
    BY <1>8 DEF RemoveMfa
  <2>. QED
    BY <1>0, <1>1, <1>8, <2>1, ChangeStep DEF RemoveMfa, Changes, Accepts, AdminExists
<1>. QED
  BY <1>4, <1>5, <1>6, <1>7, <1>8

\* A new backup key ends no session and begins none.
LEMMA KeyInv ==
    ASSUME IndInv, scene = "account", NEW b \in Browsers, RegenerateBackupKey(b)
    PROVE  IndInv'
<1> DEFINE new == [LoadAccount EXCEPT !.key = @ + 1]
<1>1. /\ new \in Acc /\ new.made = LoadAccount.made /\ new.ver = LoadAccount.ver
      /\ ~wiped => LoadAccount = account
  BY Loaded DEF Acc
<1>2. /\ account' = (IF sealed' = key THEN new ELSE account)
      /\ wiped' = (wiped \/ sealed' # key)
      /\ UNCHANGED <<scene, key, session, flight, era>>
  BY DEF RegenerateBackupKey, SaveAccount
<1>3. wiped' \in BOOLEAN /\ (~wiped' => ~wiped /\ sealed' = key)
  BY <1>2, Zenon DEF IndInv, Shape
<1>4. Shape'
  BY <1>1, <1>2, <1>3 DEF IndInv, Shape
<1>. QED
  BY <1>1, <1>2, <1>3, <1>4 DEF IndInv, Current

\* A reset, and the requests about hosts.
LEMMA OthersInv ==
    ASSUME IndInv, HostStep \/ ResetHosts \/ (scene = "account" /\ \E b \in Browsers : ResetAll(b))
    PROVE  IndInv'
<1>1. CASE HostStep
  <2>1. /\ account' = (IF sealed # key /\ sealed' = key THEN NoAccount ELSE account)
        /\ wiped' = (wiped \/ sealed' # key')
        /\ UNCHANGED <<scene, session, flight, era>>
    BY <1>1 DEF HostStep, KeepsAccount
  <2>2. wiped' \in BOOLEAN /\ (~wiped' => ~wiped /\ sealed' = key')
    BY <2>1, Zenon DEF IndInv, Shape
  <2>3. Shape'
    BY <2>1, <2>2 DEF IndInv, Shape, NoAccount, Acc
  <2>. QED
    BY <2>1, <2>2, <2>3 DEF IndInv
<1>2. CASE ResetHosts
  BY <1>2 DEF ResetHosts, accountVars, IndInv, Shape
<1>3. ASSUME scene = "account", NEW b \in Browsers, ResetAll(b)
      PROVE  IndInv'
  <2>1. NoSession \in Sess /\ NoAccount \in Acc
    BY DEF NoSession, Sess, NoAccount, Acc
  <2>2. Shape' /\ wiped' /\ scene' = "account"
    BY <1>3, <2>1 DEF ResetAll, SetCookie, IndInv, Shape
  <2>. QED
    BY <2>2 DEF IndInv
<1>. QED
  BY <1>1, <1>2, <1>3

\* Every step preserves the invariant.
LEMMA NextInv ==
    ASSUME IndInv, [AccountNext]_allVars
    PROVE  IndInv'
<1>1. CASE UNCHANGED allVars
  BY <1>1 DEF allVars, vars, accountVars, IndInv, Shape
<1>2. ASSUME scene = "account", NEW b \in Browsers, AccountStep(b)
      PROVE  IndInv'
  BY <1>2, CreateInv, CookieInv, SlowInv, ChangeInv, KeyInv, OthersInv DEF AccountStep
<1>. QED
  BY <1>1, <1>2, OthersInv DEF AccountNext

\* The invariant holds in every behaviour.
THEOREM Invariance == AccountSpec => []IndInv
<1>. QED
  BY InitInv, NextInv, PTL DEF AccountSpec

\* A session that is admitted was signed in since the last change of the password or
\* the second factor, as long as the account was not lost or reset.
THEOREM OnlyCurrentSessions == AccountSpec => []SessionsCurrent
<1>1. IndInv => SessionsCurrent
  <2>1. SUFFICES ASSUME IndInv, ~wiped, NEW b \in Browsers, Accepts(b)
                 PROVE  session[b].era = era
    BY DEF SessionsCurrent
  <2>2. scene = "account"
    BY <2>1 DEF IndInv, Shape, Accepts
  <2>. QED
    BY <2>1, <2>2, Loaded DEF IndInv, Accepts, Current
<1>. QED
  BY <1>1, Invariance, PTL

\* An account that was set up stays, and setup stays closed, unless it is reset or lost.
THEOREM AccountsStay == AccountSpec => []AccountKept
<1>1. IndInv => AccountKept
  BY Loaded DEF IndInv, Shape, AccountKept, AdminExists
<1>. QED
  BY <1>1, Invariance, PTL
-------------------------------------------------------------------------------
(***************************************************************************)
(* The secrets of the hosts.                                               *)
(***************************************************************************)

\* Nobody uses a name twice, no form is sent for a host that is gone, and the key is
\* always the same: what both properties assume.
Orderly == faults \subseteq {"cut", "torn", "email"}

\* No two entries of config.yml have a slug or a machine in common.
Distinct(hs) ==
    \A j, k \in DOMAIN hs : hs[j].slug = hs[k].slug \/ hs[j].machine = hs[k].machine => j = k

Listed(hs) == {hs[k] : k \in DOMAIN hs}

Secrets == [Slugs -> [Fields -> Machines \cup {Nobody}]]

\* A host has no secrets but its own, and no slug that is free has any.
Own(H, st) ==
    /\ \A h \in H, f \in Fields : st[h.slug][f] \in {h.machine, Nobody}
    /\ \A s \in Slugs : (\A h \in H : h.slug # s) => st[s] = NoSecrets

\* A host has the secrets it is owed.
Owed(H, st, owed) == \A h \in H : \A f \in owed[h.machine] : st[h.slug][f] = h.machine

FilesOK ==
    /\ hosts \in Seq(Host) /\ Distinct(hosts)
    /\ store \in Secrets /\ given \in [Machines -> SUBSET Fields]
    /\ key = HomeKey

SecretsInv ==
    Orderly =>
      /\ FilesOK
      /\ faults \subseteq {"torn", "email"} => Own(Listed(hosts), LoadStore)
      /\ faults \subseteq {"cut"} => sealed = key /\ Owed(Listed(hosts), store, given)

\* A host is appended.
LEMMA AddList ==
    ASSUME NEW hs \in Seq(Host), Distinct(hs), NEW h \in Host,
           h.slug \notin SlugsOf(hs), h.machine \notin MachinesOf(hs)
    PROVE  /\ Append(hs, h) \in Seq(Host) /\ Distinct(Append(hs, h))
           /\ Listed(Append(hs, h)) = Listed(hs) \cup {h}
<1> DEFINE new == Append(hs, h)
<1>1. /\ new \in Seq(Host) /\ DOMAIN new = 1..Len(hs) + 1 /\ DOMAIN hs = 1..Len(hs) /\ Len(hs) \in Nat
      /\ new[Len(hs) + 1] = h /\ \A k \in 1..Len(hs) : new[k] = hs[k]
  OBVIOUS
<1>2. \A k \in 1..Len(hs) : hs[k].slug # h.slug /\ hs[k].machine # h.machine
  BY <1>1 DEF SlugsOf, MachinesOf
<1>3. Distinct(new)
  <2> SUFFICES ASSUME NEW j \in 1..Len(hs) + 1, NEW k \in 1..Len(hs) + 1,
                      new[j].slug = new[k].slug \/ new[j].machine = new[k].machine
               PROVE  j = k
    BY <1>1 DEF Distinct
  <2>1. CASE j = Len(hs) + 1 /\ k # Len(hs) + 1
    BY <1>1, <1>2, <2>1
  <2>2. CASE k = Len(hs) + 1 /\ j # Len(hs) + 1
    BY <1>1, <1>2, <2>2
  <2>3. CASE j # Len(hs) + 1 /\ k # Len(hs) + 1
    BY <1>1, <2>3 DEF Distinct
  <2> QED BY <2>1, <2>2, <2>3
<1>4. Listed(new) = Listed(hs) \cup {h}
  <2>1. ASSUME NEW k \in DOMAIN new PROVE new[k] \in Listed(hs) \cup {h}
    BY <1>1, <2>1 DEF Listed
  <2>2. ASSUME NEW k \in DOMAIN hs PROVE hs[k] \in Listed(new)
    BY <1>1, <2>2 DEF Listed
  <2>3. h \in Listed(new)
    BY <1>1 DEF Listed
  <2> QED BY <2>1, <2>2, <2>3 DEF Listed
<1> QED BY <1>1, <1>3, <1>4

\* A host gets another slug, or keeps the one it has.
LEMMA RenameList ==
    ASSUME NEW hs \in Seq(Host), Distinct(hs), NEW k \in DOMAIN hs, NEW t \in Slugs,
           t = hs[k].slug \/ t \notin SlugsOf(hs),
           NEW new, new = [hs EXCEPT ![k].slug = t]
    PROVE  /\ new \in Seq(Host) /\ Distinct(new)
           /\ Listed(new) = {h \in Listed(hs) : h.slug # hs[k].slug} \cup {[slug |-> t, machine |-> hs[k].machine]}
<1> DEFINE it == [slug |-> t, machine |-> hs[k].machine]
<1>1. /\ Len(hs) \in Nat /\ DOMAIN hs = 1..Len(hs) /\ hs[k] \in Host /\ \A j \in DOMAIN hs : hs[j] \in Host
  OBVIOUS
<1>2. it \in Host /\ [hs[k] EXCEPT !.slug = t] = it
  BY <1>1 DEF Host
<1>3. new = [hs EXCEPT ![k] = it]
  BY <1>2
<1>4. /\ new \in Seq(Host) /\ DOMAIN new = DOMAIN hs
      /\ \A j \in DOMAIN hs : new[j] = IF j = k THEN it ELSE hs[j]
  BY <1>1, <1>2, <1>3, ExceptSeq
<1>5. \A j \in DOMAIN hs : j # k => /\ hs[j].slug # hs[k].slug /\ hs[j].machine # hs[k].machine
                                    /\ hs[j].slug # t
  BY DEF Distinct, SlugsOf
<1>6. Distinct(new)
  <2> SUFFICES ASSUME NEW i \in DOMAIN hs, NEW j \in DOMAIN hs,
                      new[i].slug = new[j].slug \/ new[i].machine = new[j].machine
               PROVE  i = j
    BY <1>4 DEF Distinct
  <2>1. CASE i = k /\ j # k
    BY <1>4, <1>5, <2>1
  <2>2. CASE i # k /\ j = k
    BY <1>4, <1>5, <2>2
  <2>3. CASE i # k /\ j # k
    BY <1>4, <2>3 DEF Distinct
  <2> QED BY <2>1, <2>2, <2>3
<1>7. Listed(new) = {h \in Listed(hs) : h.slug # hs[k].slug} \cup {it}
  <2>1. ASSUME NEW j \in DOMAIN hs PROVE new[j] \in {h \in Listed(hs) : h.slug # hs[k].slug} \cup {it}
    BY <1>4, <1>5, <2>1 DEF Listed
  <2>2. ASSUME NEW j \in DOMAIN hs, hs[j].slug # hs[k].slug PROVE hs[j] \in Listed(new)
    BY <1>4, <2>2 DEF Listed
  <2>3. it \in Listed(new)
    BY <1>4 DEF Listed
  <2> QED BY <1>4, <2>1, <2>2, <2>3 DEF Listed
<1> QED BY <1>4, <1>6, <1>7

\* new is hs without the hosts with slug s, as DeleteHost has it.
Remains(hs, s, new) ==
    LET kept == {k \in DOMAIN hs : hs[k].slug # s}
    IN  \E n \in 0..Len(hs) : \E place \in [1..n -> kept] :
          /\ \A i, j \in 1..n : i < j => place[i] < place[j]
          /\ \A k \in kept : \E i \in 1..n : place[i] = k
          /\ new = [i \in 1..n |-> hs[place[i]]]

\* The hosts with a slug are gone; the others are still there.
LEMMA DeleteList ==
    ASSUME NEW hs \in Seq(Host), Distinct(hs), NEW s, NEW new, Remains(hs, s, new)
    PROVE  /\ new \in Seq(Host) /\ Distinct(new)
           /\ Listed(new) = {h \in Listed(hs) : h.slug # s}
<1> DEFINE kept == {k \in DOMAIN hs : hs[k].slug # s}
<1>a. PICK n \in 0..Len(hs) : \E place \in [1..n -> kept] :
          /\ \A i, j \in 1..n : i < j => place[i] < place[j]
          /\ \A k \in kept : \E i \in 1..n : place[i] = k
          /\ new = [i \in 1..n |-> hs[place[i]]]
  BY DEF Remains
<1>b. PICK place \in [1..n -> kept] :
          /\ \A i, j \in 1..n : i < j => place[i] < place[j]
          /\ \A k \in kept : \E i \in 1..n : place[i] = k
          /\ new = [i \in 1..n |-> hs[place[i]]]
  BY <1>a
<1>1. /\ Len(hs) \in Nat /\ DOMAIN hs = 1..Len(hs) /\ \A j \in DOMAIN hs : hs[j] \in Host
      /\ n \in Nat /\ DOMAIN new = 1..n
  BY <1>b
<1>2. \A i \in 1..n : place[i] \in DOMAIN hs /\ hs[place[i]].slug # s /\ new[i] = hs[place[i]]
  BY <1>b
<1>3. new \in Seq(Host)
  <2>1. new \in [1..n -> Host]
    BY <1>1, <1>2, <1>b
  <2> QED BY <1>1, <2>1, SeqDef
<1>4. Distinct(new)
  <2> SUFFICES ASSUME NEW i \in 1..n, NEW j \in 1..n,
                      new[i].slug = new[j].slug \/ new[i].machine = new[j].machine
               PROVE  i = j
    BY <1>1 DEF Distinct
  <2>1. place[i] = place[j]
    BY <1>2 DEF Distinct
  <2>2. place[i] \in Nat /\ place[j] \in Nat /\ i \in Nat /\ j \in Nat
    BY <1>1, <1>2
  <2>3. ~(place[i] < place[j]) /\ ~(place[j] < place[i])
    BY <2>1, <2>2
  <2>4. ~(i < j) /\ ~(j < i)
    BY <1>b, <2>3
  <2> QED BY <2>2, <2>4
<1>5. Listed(new) = {h \in Listed(hs) : h.slug # s}
  <2>1. ASSUME NEW i \in 1..n PROVE new[i] \in {h \in Listed(hs) : h.slug # s}
    BY <1>2, <2>1 DEF Listed
  <2>2. ASSUME NEW k \in DOMAIN hs, hs[k].slug # s PROVE hs[k] \in Listed(new)
    <3>1. PICK i \in 1..n : place[i] = k
      BY <1>b, <2>2
    <3>2. new[i] = hs[k]
      BY <1>2, <3>1
    <3> QED BY <1>1, <3>2 DEF Listed
  <2>3. Listed(new) \subseteq {h \in Listed(hs) : h.slug # s}
    BY <1>1, <2>1 DEF Listed
  <2>4. {h \in Listed(hs) : h.slug # s} \subseteq Listed(new)
    BY <2>2 DEF Listed
  <2> QED BY <2>3, <2>4
<1> QED BY <1>3, <1>4, <1>5

\* What is read of the store is a store, and the file itself while nothing is torn.
LEMMA LoadedStore ==
    ASSUME FilesOK
    PROVE  /\ LoadStore \in Secrets /\ EmptyStore \in Secrets /\ key \in Keys
           /\ sealed = key => LoadStore = store
BY KeysAssumption DEF FilesOK, LoadStore, EmptyStore, NoSecrets, Secrets

\* An empty store has nobody's secrets.
LEMMA EmptyOwn == ASSUME NEW H \in SUBSET Host PROVE Own(H, EmptyStore)
<1>1. \A s \in Slugs : EmptyStore[s] = NoSecrets
  BY DEF EmptyStore
<1>2. \A h \in H : h.slug \in Slugs
  BY DEF Host
<1> QED BY <1>1, <1>2 DEF Own, NoSecrets

\* After a save the new store is read, or an empty one where the file is torn.
LEMMA Saved ==
    ASSUME FilesOK, NEW new \in Secrets, SaveStore(new), key' = key
    PROVE  /\ store' \in Secrets /\ LoadStore' \in {new, EmptyStore}
           /\ "torn" \notin faults => store' = new /\ sealed' = key'
<1>1. CASE store' = new /\ sealed' = key
  BY <1>1 DEF LoadStore
<1>2. CASE "torn" \in faults /\ sealed' = Broken /\ UNCHANGED store
  <2>1. sealed' # key'
    BY <1>2, KeysAssumption DEF FilesOK
  <2> QED BY <1>2, <2>1 DEF LoadStore, FilesOK, EmptyStore, NoSecrets
<1> QED BY <1>1, <1>2 DEF SaveStore

\* A request that saves a store in which all is well.
LEMMA SavingStep ==
    ASSUME Orderly, FilesOK, faults' = faults, key' = key,
           hosts' \in Seq(Host), Distinct(hosts'), given' \in [Machines -> SUBSET Fields],
           NEW new \in Secrets, SaveStore(new),
           faults \subseteq {"torn", "email"} => Own(Listed(hosts'), new),
           faults \subseteq {"cut"} => Owed(Listed(hosts'), new, given')
    PROVE  SecretsInv'
<1>1. /\ store' \in Secrets /\ LoadStore' \in {new, EmptyStore}
      /\ "torn" \notin faults => store' = new /\ sealed' = key'
  BY Saved
<1>2. FilesOK'
  BY <1>1 DEF FilesOK
<1>3. Listed(hosts') \subseteq Host
  BY DEF Listed
<1>4. faults \subseteq {"torn", "email"} => Own(Listed(hosts'), LoadStore')
  BY <1>1, <1>3, EmptyOwn
<1>5. faults \subseteq {"cut"} => sealed' = key' /\ Owed(Listed(hosts'), store', given')
  BY <1>1
<1> QED BY <1>2, <1>4, <1>5 DEF SecretsInv

\* A request that leaves the store alone.
LEMMA OtherStep ==
    ASSUME SecretsInv, Orderly, UNCHANGED <<faults, key, store, sealed>>,
           hosts' \in Seq(Host), Distinct(hosts'), given' \in [Machines -> SUBSET Fields],
           faults \subseteq {"torn", "email"} => Own(Listed(hosts'), LoadStore),
           faults \subseteq {"cut"} => Owed(Listed(hosts'), store, given')
    PROVE  SecretsInv'
<1>1. FilesOK' /\ LoadStore' = LoadStore
  BY DEF SecretsInv, FilesOK, LoadStore
<1> QED BY <1>1 DEF SecretsInv

\* Distinct entries have distinct slugs and machines.
LEMMA DistinctListed ==
    ASSUME FilesOK
    PROVE  /\ Listed(hosts) \subseteq Host
           /\ \A g, h \in Listed(hosts) : g.slug = h.slug \/ g.machine = h.machine => g = h
           /\ \A s : s \in SlugsOf(hosts) <=> \E h \in Listed(hosts) : h.slug = s
           /\ \A m : m \in MachinesOf(hosts) <=> \E h \in Listed(hosts) : h.machine = m
BY DEF FilesOK, Listed, Distinct, SlugsOf, MachinesOf

\* What save_credentials, delete_credentials and rename_credentials make of a store.
Put(st, h, saved, cleared) ==
    [st EXCEPT ![h.slug] =
       [f \in Fields |-> IF f \in saved THEN h.machine ELSE IF f \in cleared THEN Nobody ELSE @[f]]]
Drop(st, s) == [st EXCEPT ![s] = NoSecrets]
Move(st, s, t) == [st EXCEPT ![t] = st[s], ![s] = NoSecrets]

\* save_credentials for a host: it has its own secrets, and the others theirs.
LEMMA SavedFor ==
    ASSUME NEW H \in SUBSET Host, \A g, h \in H : g.slug = h.slug \/ g.machine = h.machine => g = h,
           NEW h \in H, NEW st \in Secrets, NEW saved \in SUBSET Fields, NEW cleared,
           NEW owed \in [Machines -> SUBSET Fields]
    PROVE  /\ Put(st, h, saved, cleared) \in Secrets
           /\ Own(H \ {h}, st) /\ st[h.slug] = NoSecrets => Own(H, Put(st, h, saved, cleared))
           /\ Own(H, st) => Own(H, Put(st, h, saved, cleared))
           /\ Owed(H \ {h}, st, owed)
                => Owed(H, Put(st, h, saved, cleared), [owed EXCEPT ![h.machine] = saved])
           /\ Owed(H, st, owed) /\ saved \cap cleared = {}
                => Owed(H, Put(st, h, saved, cleared),
                        [owed EXCEPT ![h.machine] = (owed[h.machine] \cup saved) \ cleared])
<1> DEFINE new == Put(st, h, saved, cleared)
<1>1. h.slug \in Slugs /\ h.machine \in Machines /\ \A g \in H : g.slug \in Slugs /\ g.machine \in Machines
  BY DEF Host
<1>2. new \in Secrets
  BY <1>1 DEF Secrets, Put
<1>3. /\ \A s \in Slugs : s # h.slug => new[s] = st[s]
      /\ \A f \in Fields : new[h.slug][f] = IF f \in saved THEN h.machine
                                             ELSE IF f \in cleared THEN Nobody ELSE st[h.slug][f]
  BY <1>1 DEF Secrets, Put
<1> HIDE DEF new
<1>4. \A g \in H : g # h => g.slug # h.slug /\ g.machine # h.machine
  OBVIOUS
<1>5. ASSUME Own(H \ {h}, st), \A f \in Fields : st[h.slug][f] \in {h.machine, Nobody} PROVE Own(H, new)
  <2>1. ASSUME NEW g \in H, NEW f \in Fields PROVE new[g.slug][f] \in {g.machine, Nobody}
    BY <1>1, <1>3, <1>4, <1>5 DEF Own
  <2>2. ASSUME NEW s \in Slugs, \A g \in H : g.slug # s PROVE new[s] = NoSecrets
    BY <1>3, <1>5, <2>2 DEF Own
  <2> QED BY <2>1, <2>2 DEF Own
<1>6. st[h.slug] = NoSecrets => \A f \in Fields : st[h.slug][f] \in {h.machine, Nobody}
  BY DEF NoSecrets
<1>8. ASSUME Own(H, st) PROVE Own(H, new)
  <2>1. ASSUME NEW g \in H, NEW f \in Fields PROVE new[g.slug][f] \in {g.machine, Nobody}
    BY <1>1, <1>3, <1>4, <1>8 DEF Own
  <2>2. ASSUME NEW s \in Slugs, \A g \in H : g.slug # s PROVE new[s] = NoSecrets
    BY <1>3, <1>8, <2>2 DEF Own
  <2> QED BY <2>1, <2>2 DEF Own
<1>7. ASSUME Owed(H \ {h}, st, owed) PROVE Owed(H, new, [owed EXCEPT ![h.machine] = saved])
  <2> SUFFICES ASSUME NEW g \in H, NEW f \in [owed EXCEPT ![h.machine] = saved][g.machine]
               PROVE  new[g.slug][f] = g.machine
    BY DEF Owed
  <2>1. CASE g = h
    BY <1>1, <1>3, <2>1
  <2>2. CASE g # h
    BY <1>1, <1>3, <1>4, <1>7, <2>2 DEF Owed
  <2> QED BY <2>1, <2>2
<1>9. ASSUME Owed(H, st, owed), saved \cap cleared = {}
      PROVE  Owed(H, new, [owed EXCEPT ![h.machine] = (owed[h.machine] \cup saved) \ cleared])
  <2> SUFFICES ASSUME NEW g \in H,
                      NEW f \in [owed EXCEPT ![h.machine] = (owed[h.machine] \cup saved) \ cleared][g.machine]
               PROVE  new[g.slug][f] = g.machine
    BY DEF Owed
  <2>1. CASE g = h
    BY <1>1, <1>3, <1>9, <2>1 DEF Owed
  <2>2. CASE g # h
    BY <1>1, <1>3, <1>4, <1>9, <2>2 DEF Owed
  <2> QED BY <2>1, <2>2
<1> QED BY <1>2, <1>5, <1>6, <1>7, <1>8, <1>9 DEF new

\* delete_credentials of a slug that no host has any more.
LEMMA DeletedFor ==
    ASSUME NEW H \in SUBSET Host, NEW s \in Slugs, NEW st \in Secrets,
           NEW owed \in [Machines -> SUBSET Fields],
           NEW rest, rest = {h \in H : h.slug # s}
    PROVE  /\ Drop(st, s) \in Secrets
           /\ Own(H, st) => Own(rest, Drop(st, s)) /\ Own(H, Drop(st, s))
           /\ Owed(H, st, owed) => Owed(rest, Drop(st, s), owed) /\ Owed(rest, st, owed)
<1> DEFINE new == Drop(st, s)
<1>1. NoSecrets \in [Fields -> Machines \cup {Nobody}] /\ \A f \in Fields : NoSecrets[f] = Nobody
  BY DEF NoSecrets
<1>2. new \in Secrets /\ new[s] = NoSecrets /\ \A r \in Slugs : r # s => new[r] = st[r]
  BY <1>1 DEF Secrets, Drop
<1> HIDE DEF new
<1>3. \A h \in H : h.slug \in Slugs
  BY DEF Host
<1>4. Own(H, st) => Own(rest, new)
  BY <1>1, <1>2, <1>3 DEF Own
<1>5. Own(H, st) => Own(H, new)
  BY <1>1, <1>2, <1>3 DEF Own
<1>6. Owed(H, st, owed) => Owed(rest, new, owed) /\ Owed(rest, st, owed)
  BY <1>2, <1>3 DEF Owed
<1> QED BY <1>2, <1>4, <1>5, <1>6 DEF new

\* rename_credentials: the secrets follow the host to a slug that was free.
LEMMA RenamedFor ==
    ASSUME NEW H \in SUBSET Host, \A g, h \in H : g.slug = h.slug \/ g.machine = h.machine => g = h,
           NEW h \in H, NEW t \in Slugs, t # h.slug, \A g \in H : g.slug # t,
           NEW st \in Secrets, NEW owed \in [Machines -> SUBSET Fields],
           NEW H2, H2 = {g \in H : g.slug # h.slug} \cup {[slug |-> t, machine |-> h.machine]}
    PROVE  /\ Move(st, h.slug, t) \in Secrets
           /\ Own(H, st) => Own(H2, Move(st, h.slug, t))
           /\ Own(H, st) /\ st[h.slug] = NoSecrets => Own(H2, st)
           /\ Owed(H, st, owed) => Owed(H2, Move(st, h.slug, t), owed)
           /\ Owed(H, st, owed) /\ st[h.slug] = NoSecrets => Owed(H2, st, owed)
           /\ Owed(H, st, owed) => Owed(H2, st, [owed EXCEPT ![h.machine] = {}])
<1> DEFINE new == Move(st, h.slug, t)
<1> DEFINE it == [slug |-> t, machine |-> h.machine]
<1>0. /\ h.slug \in Slugs /\ h.machine \in Machines /\ h.machine # Nobody
      /\ \A g \in H : g.slug \in Slugs /\ g.machine \in Machines
  BY KeysAssumption DEF Host
<1>1. NoSecrets \in [Fields -> Machines \cup {Nobody}] /\ \A f \in Fields : NoSecrets[f] = Nobody
  BY DEF NoSecrets
<1>2. /\ new \in Secrets /\ new[t] = st[h.slug] /\ new[h.slug] = NoSecrets
      /\ \A r \in Slugs : r \notin {t, h.slug} => new[r] = st[r]
  BY <1>0, <1>1 DEF Secrets, Move
<1> HIDE DEF new
<1>3. it.slug = t /\ it.machine = h.machine
  OBVIOUS
<1>4. \A g \in H2 : g = it \/ (g \in H /\ g.slug \notin {t, h.slug} /\ g.machine # h.machine)
  OBVIOUS
<1>5. ASSUME Own(H, st) PROVE Own(H2, new)
  <2>1. ASSUME NEW g \in H2, NEW f \in Fields PROVE new[g.slug][f] \in {g.machine, Nobody}
    <3>1. CASE g = it
      BY <1>2, <1>3, <1>5, <3>1 DEF Own
    <3>2. CASE g # it
      BY <1>0, <1>2, <1>4, <1>5, <3>2 DEF Own
    <3> QED BY <3>1, <3>2
  <2>2. ASSUME NEW r \in Slugs, \A g \in H2 : g.slug # r PROVE new[r] = NoSecrets
    <3>1. r # t
      BY <1>3, <2>2
    <3>2. r # h.slug => \A g \in H : g.slug # r
      BY <2>2
    <3> QED BY <1>2, <1>5, <3>1, <3>2 DEF Own
  <2> QED BY <2>1, <2>2 DEF Own
<1>6. ASSUME Own(H, st), st[h.slug] = NoSecrets PROVE Own(H2, st)
  <2>1. st[t] = NoSecrets
    BY <1>6 DEF Own
  <2>2. ASSUME NEW g \in H2, NEW f \in Fields PROVE st[g.slug][f] \in {g.machine, Nobody}
    BY <1>1, <1>3, <1>4, <1>6, <2>1 DEF Own
  <2>3. ASSUME NEW r \in Slugs, \A g \in H2 : g.slug # r PROVE st[r] = NoSecrets
    <3>1. r # h.slug => \A g \in H : g.slug # r
      BY <2>3
    <3> QED BY <1>6, <3>1 DEF Own
  <2> QED BY <2>2, <2>3 DEF Own
<1>7. ASSUME Owed(H, st, owed) PROVE Owed(H2, new, owed)
  <2> SUFFICES ASSUME NEW g \in H2, NEW f \in owed[g.machine] PROVE new[g.slug][f] = g.machine
    BY DEF Owed
  <2>1. CASE g = it
    BY <1>2, <1>3, <1>7, <2>1 DEF Owed
  <2>2. CASE g # it
    BY <1>0, <1>2, <1>4, <1>7, <2>2 DEF Owed
  <2> QED BY <2>1, <2>2
<1>8. ASSUME Owed(H, st, owed), st[h.slug] = NoSecrets PROVE Owed(H2, st, owed)
  <2>1. owed[h.machine] = {}
    BY <1>0, <1>1, <1>8 DEF Owed
  <2> QED BY <1>3, <1>4, <1>8, <2>1 DEF Owed
<1>9. ASSUME Owed(H, st, owed) PROVE Owed(H2, st, [owed EXCEPT ![h.machine] = {}])
  <2> SUFFICES ASSUME NEW g \in H2, NEW f \in [owed EXCEPT ![h.machine] = {}][g.machine] PROVE st[g.slug][f] = g.machine
    BY DEF Owed
  <2>1. g # it
    BY <1>0, <1>3
  <2>2. g \in H /\ f \in owed[g.machine]
    BY <1>0, <1>4, <2>1
  <2> QED BY <1>9, <2>2 DEF Owed
<1> QED BY <1>2, <1>5, <1>6, <1>7, <1>8, <1>9 DEF new

\* Adding a host.
LEMMA AddInv ==
    ASSUME SecretsInv, Orderly, NEW s \in Slugs, NEW m \in Machines,
           AddHost(s, m) \/ AddHostWithPassword(s, m)
    PROVE  SecretsInv'
<1> DEFINE h == [slug |-> s, machine |-> m]
           H == Listed(hosts)
<1>0. FilesOK
  BY DEF SecretsInv
<1>1. /\ h \in Host /\ h.slug = s /\ h.machine = m
      /\ s \notin SlugsOf(hosts) /\ m \notin MachinesOf(hosts) /\ hosts' = Append(hosts, h)
      /\ faults' = faults /\ key' = key
  BY DEF AddHost, AddHostWithPassword, FreeName, Orderly, Host
<1>2. hosts' \in Seq(Host) /\ Distinct(hosts') /\ Listed(hosts') = H \cup {h}
  BY <1>0, <1>1, AddList DEF FilesOK
<1>3. /\ H \subseteq Host /\ \A g \in H : g.slug # s /\ g.machine # m
      /\ \A g, k \in H : g.slug = k.slug \/ g.machine = k.machine => g = k
  BY <1>0, <1>1, DistinctListed
<1>4. CASE AddHost(s, m)
  <2>1. given' = [given EXCEPT ![m] = {}] /\ UNCHANGED <<store, sealed>>
    BY <1>4 DEF AddHost, Owe
  <2>2. given' \in [Machines -> SUBSET Fields]
    BY <1>0, <2>1 DEF FilesOK
  <2>3. ASSUME faults \subseteq {"torn", "email"} PROVE Own(Listed(hosts'), LoadStore)
    <3>1. Own(H, LoadStore)
      BY <2>3 DEF SecretsInv
    <3>2. LoadStore[s] = NoSecrets
      BY <1>3, <3>1 DEF Own
    <3>3. \A f \in Fields : NoSecrets[f] = Nobody
      BY DEF NoSecrets
    <3> QED BY <1>1, <1>2, <3>1, <3>2, <3>3 DEF Own
  <2>4. ASSUME faults \subseteq {"cut"} PROVE Owed(Listed(hosts'), store, given')
    <3>1. Owed(H, store, given)
      BY <2>4 DEF SecretsInv
    <3>2. given'[m] = {} /\ \A g \in H : given'[g.machine] = given[g.machine]
      BY <1>0, <1>3, <2>1 DEF FilesOK, Host
    <3> QED BY <1>1, <1>2, <3>1, <3>2 DEF Owed
  <2> QED BY <1>1, <1>2, <2>1, <2>2, <2>3, <2>4, OtherStep
<1>5. CASE AddHostWithPassword(s, m)
  <2> DEFINE new == Put(LoadStore, h, {"ssh"}, {})
             owed2 == [given EXCEPT ![m] = {"ssh"}]
             all == H \cup {h}
  <2>1. SaveStore(new) /\ given' = owed2
    BY <1>5, <1>1 DEF AddHostWithPassword, SaveCredentials, Owe, Put
  <2>2. given' \in [Machines -> SUBSET Fields] /\ {"ssh"} \in SUBSET Fields
    BY <1>0, <2>1 DEF FilesOK, Fields
  <2>3. LoadStore \in Secrets /\ given \in [Machines -> SUBSET Fields] /\ (sealed = key => LoadStore = store)
    BY <1>0, LoadedStore DEF FilesOK
  <2>4. /\ all \ {h} = H /\ all \in SUBSET Host /\ h \in all
        /\ \A g, k \in all : g.slug = k.slug \/ g.machine = k.machine => g = k
    BY <1>1, <1>3
  <2>5. /\ new \in Secrets
        /\ Own(H, LoadStore) /\ LoadStore[s] = NoSecrets => Own(all, new)
        /\ Owed(H, LoadStore, given) => Owed(all, new, owed2)
    <3> HIDE DEF all, h, H
    <3> QED BY <1>1, <2>2, <2>3, <2>4, SavedFor
  <2>6. faults \subseteq {"torn", "email"} => Own(Listed(hosts'), new)
    BY <1>2, <1>3, <2>5 DEF SecretsInv, Own
  <2>7. faults \subseteq {"cut"} => Owed(Listed(hosts'), new, given')
    BY <1>2, <2>1, <2>3, <2>5 DEF SecretsInv
  <2> QED BY <1>0, <1>1, <1>2, <2>1, <2>2, <2>5, <2>6, <2>7, SavingStep
<1> QED BY <1>4, <1>5

\* Renaming a host, and editing one that keeps its name.
LEMMA UpdateInv ==
    ASSUME SecretsInv, Orderly, NEW s \in Slugs, NEW t \in Slugs, UpdateHost(s, t)
    PROVE  SecretsInv'
<1> DEFINE H == Listed(hosts)
           first == CHOOSE k \in DOMAIN hosts :
                      hosts[k].slug = s /\ \A j \in DOMAIN hosts : hosts[j].slug = s => k <= j
<1>0. /\ FilesOK /\ LoadStore \in Secrets /\ (sealed = key => LoadStore = store)
      /\ given \in [Machines -> SUBSET Fields] /\ UNCHANGED <<faults, key>>
  BY LoadedStore DEF SecretsInv, FilesOK, UpdateHost
<1>1. first \in DOMAIN hosts /\ hosts[first].slug = s
  <2>1. PICK k \in DOMAIN hosts : hosts[k].slug = s
    BY DEF UpdateHost, SlugsOf
  <2>2. \A j \in DOMAIN hosts : hosts[j].slug = s => j = k
    BY <1>0, <2>1 DEF FilesOK, Distinct
  <2>3. k \in Nat
    BY <1>0 DEF FilesOK
  <2> QED BY <2>1, <2>2, <2>3
<1>2. /\ hosts' = [hosts EXCEPT ![first].slug = t]
      /\ \/ RenameCredentials(s, t) /\ UNCHANGED given
         \/ s # t /\ CutShort /\ Owe(hosts[first].machine, {})
      /\ t = s \/ t \notin SlugsOf(hosts)
  BY DEF UpdateHost, FreeName, Orderly
<1> HIDE DEF first
<1> DEFINE h == hosts[first]
<1>3. /\ hosts' \in Seq(Host) /\ Distinct(hosts')
      /\ Listed(hosts') = {g \in H : g.slug # h.slug} \cup {[slug |-> t, machine |-> h.machine]}
  BY <1>0, <1>1, <1>2, RenameList DEF FilesOK
<1>4. /\ H \in SUBSET Host /\ h \in H /\ h.slug = s
      /\ \A g, k \in H : g.slug = k.slug \/ g.machine = k.machine => g = k
      /\ t # s => \A g \in H : g.slug # t
  <2>1. h \in H
    BY <1>1 DEF Listed
  <2> QED BY <1>0, <1>1, <1>2, <2>1, DistinctListed
<1>5. /\ faults \subseteq {"torn", "email"} => Own(H, LoadStore)
      /\ faults \subseteq {"cut"} => LoadStore = store /\ Owed(H, store, given)
  BY <1>0 DEF SecretsInv
<1> DEFINE H2 == Listed(hosts')
<1> HIDE DEF h, H, H2
<1>6. CASE s = t
  <2>1. [slug |-> t, machine |-> h.machine] = h
    BY <1>4, <1>6 DEF Host
  <2>2. H2 = H
    BY <1>3, <1>4, <2>1 DEF H2
  <2>3. UNCHANGED <<store, sealed, given>>
    BY <1>2, <1>6 DEF RenameCredentials
  <2> QED BY <1>0, <1>3, <1>5, <2>2, <2>3, OtherStep DEF H2
<1>7. CASE s # t /\ RenameCredentials(s, t) /\ UNCHANGED given
  <2>1. /\ Move(LoadStore, s, t) \in Secrets
        /\ Own(H, LoadStore) => Own(H2, Move(LoadStore, s, t))
        /\ Own(H, LoadStore) /\ LoadStore[s] = NoSecrets => Own(H2, LoadStore)
        /\ Owed(H, LoadStore, given) => Owed(H2, Move(LoadStore, s, t), given)
        /\ Owed(H, LoadStore, given) /\ LoadStore[s] = NoSecrets => Owed(H2, LoadStore, given)
    BY <1>0, <1>3, <1>4, <1>7, RenamedFor DEF H2
  <2>2. CASE LoadStore[s] = NoSecrets
    <3>1. UNCHANGED <<store, sealed>>
      BY <1>7, <2>2 DEF RenameCredentials
    <3> QED BY <1>0, <1>3, <1>5, <1>7, <2>1, <2>2, <3>1, OtherStep DEF H2
  <2>3. CASE LoadStore[s] # NoSecrets
    <3>1. SaveStore(Move(LoadStore, s, t))
      BY <1>7, <2>3 DEF RenameCredentials, Move
    <3> QED BY <1>0, <1>3, <1>5, <1>7, <2>1, <3>1, SavingStep DEF H2
  <2> QED BY <2>2, <2>3
<1>8. CASE s # t /\ CutShort /\ Owe(hosts[first].machine, {})
  <2>1. UNCHANGED <<store, sealed>> /\ "cut" \in faults /\ given' = [given EXCEPT ![h.machine] = {}]
    BY <1>8 DEF CutShort, Owe, h
  <2>2. given' \in [Machines -> SUBSET Fields]
    BY <1>0, <2>1
  <2>3. Owed(H, LoadStore, given) => Owed(H2, LoadStore, given')
    BY <1>0, <1>3, <1>4, <1>8, <2>1, RenamedFor DEF H2
  <2>4. ~(faults \subseteq {"torn", "email"})
    BY <2>1
  <2> QED BY <1>0, <1>3, <1>5, <2>1, <2>2, <2>3, <2>4, OtherStep DEF H2
<1> QED BY <1>2, <1>6, <1>7, <1>8

\* Deleting a host, or an integration that has the name of one.
LEMMA DeleteInv ==
    ASSUME SecretsInv, Orderly, NEW s \in Slugs, DeleteHost(s) \/ DeleteEmail(s)
    PROVE  SecretsInv'
<1> DEFINE H == Listed(hosts)
           rest == {h \in H : h.slug # s}
<1>0. /\ FilesOK /\ LoadStore \in Secrets /\ (sealed = key => LoadStore = store)
      /\ given \in [Machines -> SUBSET Fields] /\ H \in SUBSET Host /\ UNCHANGED <<faults, key>>
  BY LoadedStore, DistinctListed DEF SecretsInv, FilesOK, DeleteHost, DeleteEmail
<1>1. /\ faults \subseteq {"torn", "email"} => Own(H, LoadStore)
      /\ faults \subseteq {"cut"} => LoadStore = store /\ Owed(H, store, given)
  BY <1>0 DEF SecretsInv
<1>2. /\ Drop(LoadStore, s) \in Secrets
      /\ Own(H, LoadStore) => Own(rest, Drop(LoadStore, s)) /\ Own(H, Drop(LoadStore, s))
      /\ Owed(H, LoadStore, given) => Owed(rest, Drop(LoadStore, s), given) /\ Owed(rest, LoadStore, given)
  BY <1>0, DeletedFor
<1>3. CASE DeleteHost(s)
  <2>1. Remains(hosts, s, hosts')
    BY <1>3 DEF DeleteHost, Remains
  <2>3. hosts' \in Seq(Host) /\ Distinct(hosts') /\ Listed(hosts') = rest
    BY <1>0, <2>1, DeleteList DEF FilesOK
  <2>4. /\ given' \in [Machines -> SUBSET Fields]
        /\ \A m \in Machines : given'[m] \subseteq given[m]
    BY <1>0, <1>3 DEF DeleteHost
  <2>5. \A st : Owed(rest, st, given) => Owed(rest, st, given')
    BY <1>0, <2>4 DEF Owed, Host
  <2> HIDE DEF rest, H
  <2>6. CASE DeleteCredentials(s)
    <3>1. SaveStore(Drop(LoadStore, s))
      BY <2>6 DEF DeleteCredentials, Drop
    <3> QED BY <1>0, <1>1, <1>2, <2>3, <2>4, <2>5, <3>1, SavingStep
  <2>7. CASE CutShort
    <3>1. UNCHANGED <<store, sealed>> /\ ~(faults \subseteq {"torn", "email"})
      BY <2>7 DEF CutShort
    <3> QED BY <1>0, <1>1, <1>2, <2>3, <2>4, <2>5, <3>1, OtherStep
  <2> QED BY <1>3, <2>6, <2>7 DEF DeleteHost
<1>4. CASE DeleteEmail(s)
  <2>1. /\ "email" \in faults /\ SaveStore(Drop(LoadStore, s)) /\ UNCHANGED <<hosts, given>>
    BY <1>4 DEF DeleteEmail, DeleteCredentials, Drop
  <2>2. ~(faults \subseteq {"cut"})
    BY <2>1
  <2> QED BY <1>0, <1>1, <1>2, <2>1, <2>2, SavingStep DEF FilesOK
<1> QED BY <1>3, <1>4

\* Saving the credentials form of a host.
LEMMA FormInv ==
    ASSUME SecretsInv, Orderly, NEW saved \in SUBSET Fields, NEW cleared \in SUBSET {"ssh"},
           saved \cap cleared = {}, SubmitForm(saved, cleared)
    PROVE  SecretsInv'
<1> DEFINE H == Listed(hosts)
           new == Put(LoadStore, form, saved, cleared)
<1>0. /\ FilesOK /\ LoadStore \in Secrets /\ (sealed = key => LoadStore = store)
      /\ given \in [Machines -> SUBSET Fields] /\ UNCHANGED <<faults, key, hosts>>
  BY LoadedStore DEF SecretsInv, FilesOK, SubmitForm
<1>1. /\ H \in SUBSET Host /\ form \in H /\ form.machine \in MachinesOf(hosts)
      /\ \A g, k \in H : g.slug = k.slug \/ g.machine = k.machine => g = k
  <2>1. form \in H
    BY DEF SubmitForm, Orderly, Listed
  <2> QED BY <1>0, <2>1, DistinctListed
<1>2. /\ SaveStore(new)
      /\ given' = [given EXCEPT ![form.machine] = (given[form.machine] \cup saved) \ cleared]
  BY <1>1 DEF SubmitForm, SaveCredentials, Owe, Put
<1>3. given' \in [Machines -> SUBSET Fields]
  BY <1>0, <1>1, <1>2 DEF Host
<1>4. /\ new \in Secrets /\ (Own(H, LoadStore) => Own(H, new))
      /\ Owed(H, LoadStore, given) => Owed(H, new, given')
  BY <1>0, <1>1, <1>2, SavedFor
<1>5. /\ faults \subseteq {"torn", "email"} => Own(H, LoadStore)
      /\ faults \subseteq {"cut"} => LoadStore = store /\ Owed(H, store, given)
  BY <1>0 DEF SecretsInv
<1> QED BY <1>0, <1>2, <1>3, <1>4, <1>5, SavingStep DEF FilesOK

\* Steps that save what they have read, or nothing at all.
LEMMA IdleInv ==
    ASSUME SecretsInv, Orderly, UNCHANGED <<faults, hosts, key, given>>,
           SaveStore(LoadStore) \/ UNCHANGED <<store, sealed>>
    PROVE  SecretsInv'
<1>0. FilesOK /\ LoadStore \in Secrets /\ (sealed = key => LoadStore = store)
  BY LoadedStore DEF SecretsInv
<1>1. /\ faults \subseteq {"torn", "email"} => Own(Listed(hosts), LoadStore)
      /\ faults \subseteq {"cut"} => LoadStore = store /\ Owed(Listed(hosts), store, given)
  BY <1>0 DEF SecretsInv
<1>2. CASE SaveStore(LoadStore)
  BY <1>0, <1>1, <1>2, SavingStep DEF FilesOK
<1>3. CASE UNCHANGED <<store, sealed>>
  BY <1>0, <1>1, <1>3, OtherStep DEF FilesOK
<1> QED BY <1>2, <1>3

\* A factory reset, which may lose config.yml's half of it.
LEMMA ResetInv ==
    ASSUME SecretsInv, Orderly, FactoryReset
    PROVE  SecretsInv'
<1>0. FilesOK /\ EmptyStore \in Secrets
  BY LoadedStore DEF SecretsInv
<1>1. /\ hosts' = <<>> \/ hosts' = hosts
      /\ given' = [m \in Machines |-> {}] /\ SaveStore(EmptyStore) /\ UNCHANGED <<faults, key>>
  BY DEF FactoryReset
<1>2. hosts' \in Seq(Host) /\ Distinct(hosts')
  <2>1. CASE hosts' = <<>>
    BY <2>1 DEF Distinct
  <2>2. CASE hosts' = hosts
    BY <1>0, <2>2 DEF FilesOK
  <2> QED BY <1>1, <2>1, <2>2
<1>3. Listed(hosts') \in SUBSET Host
  BY <1>2 DEF Listed
<1>4. Own(Listed(hosts'), EmptyStore)
  BY <1>3, EmptyOwn
<1>5. Owed(Listed(hosts'), EmptyStore, given')
  BY <1>1, <1>3 DEF Owed, Host
<1>6. given' \in [Machines -> SUBSET Fields]
  BY <1>1
<1> QED BY <1>0, <1>1, <1>2, <1>4, <1>5, <1>6, SavingStep

\* Every step preserves the invariant: also the account's, which save the same file.
LEMMA SecretsStep ==
    ASSUME SecretsInv, [AccountNext]_allVars
    PROVE  SecretsInv'
<1>1. CASE ~Orderly
  <2>1. faults' = faults
    BY DEF AccountNext, HostStep, ResetHosts, Request, AddHost, AddHostWithPassword, UpdateHost, DeleteHost,
           OpenForm, SubmitForm, FactoryReset, DeleteEmail, RestartWithKey, AccountStep, CreateAccount,
           OpenSecurity, SetupMfa, ConfirmRecovery, Login, Logout, ForgotPassword, ResetPassword, Refuse,
           SlowRequest, SlowResponse, ChangePassword, OpenMfa, EnrollMfa, RemoveMfa, RegenerateBackupKey,
           ResetAll, SaveAccount, vars, allVars
  <2> QED BY <1>1, <2>1 DEF SecretsInv, Orderly
<1>2. CASE Orderly /\ Request
  <2>1. ASSUME NEW k \in DOMAIN hosts, OpenForm(k) PROVE SecretsInv'
    BY <1>2, <2>1, IdleInv DEF OpenForm
  <2>2. ASSUME NEW k \in Keys, RestartWithKey(k) PROVE SecretsInv'
    <3>1. key' = key
      BY <1>2, <2>2 DEF RestartWithKey, Orderly, SecretsInv, FilesOK
    <3> QED BY <1>2, <2>2, <3>1, IdleInv DEF RestartWithKey
  <2> QED BY <1>2, <2>1, <2>2, AddInv, UpdateInv, DeleteInv, FormInv DEF Request
<1>3. CASE Orderly /\ FactoryReset
  BY <1>3, ResetInv
<1>4. ASSUME Orderly, NEW b \in Browsers, AccountStep(b), ~FactoryReset PROVE SecretsInv'
  <2>1. UNCHANGED vars \/ \E new : SaveAccount(new)
    BY <1>4 DEF AccountStep, CreateAccount, OpenSecurity, SetupMfa, ConfirmRecovery, Login, Logout,
           ForgotPassword, ResetPassword, Refuse, SlowRequest, SlowResponse, ChangePassword, OpenMfa,
           EnrollMfa, RemoveMfa, RegenerateBackupKey, ResetAll
  <2> QED BY <1>4, <2>1, IdleInv DEF SaveAccount, vars
<1>5. CASE Orderly /\ UNCHANGED allVars
  BY <1>5, IdleInv DEF allVars, vars
<1> QED BY <1>1, <1>2, <1>3, <1>4, <1>5 DEF AccountNext, HostStep, ResetHosts

\* The invariant of the two files holds in every behaviour.
THEOREM SecretsInvariance == AccountSpec => []SecretsInv
<1>1. AccountInit => SecretsInv
  <2> SUFFICES ASSUME AccountInit PROVE SecretsInv
    OBVIOUS
  <2>1. FilesOK /\ sealed = key
    BY DEF AccountInit, Init, FilesOK, Distinct, Secrets, EmptyStore, NoSecrets
  <2>2. Listed(hosts) = {} /\ LoadStore = EmptyStore
    BY DEF AccountInit, Init, Listed, LoadStore
  <2>3. Own({}, EmptyStore) /\ Owed({}, store, given)
    BY EmptyOwn DEF Owed
  <2> QED BY <2>1, <2>2, <2>3 DEF SecretsInv
<1> QED BY <1>1, SecretsStep, PTL DEF AccountSpec

\* However many hosts are added, renamed, deleted and added again, and whichever
\* writes tear the store: no host is connected to with another machine's secrets.
THEOREM OnlyOwnSecrets == AccountSpec => []RightSecrets
<1>1. SecretsInv => RightSecrets
  BY DEF SecretsInv, Orderly, RightSecrets, Own, Listed
<1> QED BY <1>1, SecretsInvariance, PTL

\* Wherever a request dies between config.yml and the store: what was entered for a
\* host is there for it until somebody deletes it.
THEOREM SecretsStay == AccountSpec => []SecretsKept
<1>1. SecretsInv => SecretsKept
  BY LoadedStore DEF SecretsInv, Orderly, SecretsKept, Owed, Listed
<1> QED BY <1>1, SecretsInvariance, PTL
===============================================================================
