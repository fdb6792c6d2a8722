-------------------------------- MODULE Accounts --------------------------------
(***************************************************************************)
(* The administrator's account and the sessions of browsers: the setup     *)
(* wizard's account pages, signing in and out and resetting a password     *)
(* (app/auth_router.py), the account page (app/admin.py), the helpers they *)
(* share (app/auth.py) and the middleware that admits requests             *)
(* (app/main.py).                                                          *)
(*                                                                         *)
(* Built on HostStore: the account is an entry of the same encrypted file  *)
(* as the hosts' secrets, so that whatever happens to the file happens to  *)
(* the account.  A session is a signed cookie: the server keeps nothing of *)
(* it but the version in the account that it has to match, every response  *)
(* sends back the whole cookie its request came with, and a response that  *)
(* comes late brings back an older one.                                    *)
(*                                                                         *)
(* Whoever fills in a form knows what it asks for; a form that is rejected *)
(* (a wrong or short password, too many attempts) changes nothing.         *)
(***************************************************************************)
EXTENDS HostStore

CONSTANTS
    Browsers,
    MaxChanges,   \* bound: changes of the account
    MaxKeys,      \* bound: backup keys
    Scenes,       \* bound: what behaviours are about, "hosts" or "account", and the faults
    OneHost       \* bound: the only host there is in behaviours about the account

ASSUME ScenesAssumption ==
    /\ Scenes \subseteq {"hosts", "account"} \X FaultSets
    /\ MaxChanges \in Nat /\ MaxKeys \in Nat
    /\ OneHost \in [slug : Slugs, machine : Machines]

VARIABLES
    scene,     \* what this behaviour is about; never changes
    account,   \* credentials.json: the entry of the administrator
    session,   \* the cookie of each browser
    flight,    \* the cookie that a response under way will bring back
    era,       \* history: how often the password or the second factor has changed
    wiped      \* history: the account was reset or has been lost

accountVars == <<scene, account, session, flight, era, wiped>>
allVars == <<vars, accountVars>>

NoAccount == [made |-> FALSE, mfa |-> FALSE, key |-> 0, ver |-> 0]

\* era: history, when the browser signed in.
NoSession ==
    [auth |-> FALSE, ver |-> 0, era |-> 0, done |-> FALSE, key |-> 0, secret |-> FALSE, verified |-> FALSE]

Account == [made : BOOLEAN, mfa : BOOLEAN, key : 0..MaxKeys, ver : 0..MaxChanges]
Session ==
    [auth : BOOLEAN, ver : 0..MaxChanges, era : 0..MaxChanges, done : BOOLEAN, key : 0..MaxKeys,
     secret : BOOLEAN, verified : BOOLEAN]

AccountTypeOK ==
    /\ TypeOK
    /\ <<scene, faults>> \in Scenes
    /\ account \in Account
    /\ session \in [Browsers -> Session] /\ flight \in [Browsers -> Session]
    /\ era \in 0..MaxChanges
    /\ wiped \in BOOLEAN

\* A fresh installation.
AccountInit ==
    /\ Init
    /\ scene \in {"hosts", "account"} /\ <<scene, faults>> \in Scenes
    /\ account = NoAccount
    /\ session = [b \in Browsers |-> NoSession]
    /\ flight = [b \in Browsers |-> NoSession]
    /\ era = 0
    /\ wiped = FALSE
-------------------------------------------------------------------------------
(***************************************************************************)
(* The entry in the store.                                                 *)
(***************************************************************************)

\* get_integration_credentials
LoadAccount == IF sealed = key THEN account ELSE NoAccount

AdminExists == LoadAccount.made

\* save_integration_credentials("admin", ...), of the whole entry.  What cannot be
\* read is lost, whoever wrote it last.
SaveAccount(new) ==
    /\ SaveStore(LoadStore)
    /\ account' = IF sealed' = key THEN new ELSE account
    /\ wiped' = (wiped \/ sealed' # key)
    /\ UNCHANGED <<scene, faults, hosts, key, form, given>>

\* Mutant: the sessions are left as they are.
BumpedNot(acc) == acc

\* session_version = get_session_version() + 1
Bumped(acc) == [acc EXCEPT !.ver = @ + 1]

Changes == era < MaxChanges /\ LoadAccount.ver < MaxChanges /\ era' = era + 1

SetCookie(b, new) == session' = [session EXCEPT ![b] = new] /\ UNCHANGED flight
-------------------------------------------------------------------------------
(***************************************************************************)
(* Setup.                                                                  *)
(***************************************************************************)

\* setup_account_submit, create_admin: what else the entry has stays.
CreateAccount(b) ==
    /\ ~AdminExists /\ LoadAccount.key < MaxKeys
    /\ era < MaxChanges /\ era' = era + 1
    /\ LET acc == [LoadAccount EXCEPT !.made = TRUE, !.key = LoadAccount.key + 1]
       IN  /\ SaveAccount(acc)
           /\ SetCookie(b, [session[b] EXCEPT !.done = TRUE, !.key = acc.key])

\* setup_security
OpenSecurity(b) ==
    /\ session[b].done
    /\ SetCookie(b, [session[b] EXCEPT !.secret = TRUE])
    /\ UNCHANGED <<vars, scene, account, era, wiped>>

\* setup_security_submit with a second factor.
SetupMfa(b) ==
    /\ session[b].done /\ session[b].secret
    /\ Changes
    /\ SaveAccount(Bumped([LoadAccount EXCEPT !.mfa = TRUE]))
    /\ SetCookie(b, [session[b] EXCEPT !.secret = FALSE])

\* setup_recovery_code_confirm
ConfirmRecovery(b) ==
    /\ SetCookie(b, [session[b] EXCEPT !.done = FALSE, !.key = 0])
    /\ UNCHANGED <<vars, scene, account, era, wiped>>
-------------------------------------------------------------------------------
(***************************************************************************)
(* Signing in and out.                                                     *)
(***************************************************************************)

\* login_submit
Login(b) ==
    /\ AdminExists
    /\ SetCookie(b, [NoSession EXCEPT !.auth = TRUE, !.ver = LoadAccount.ver, !.era = era])
    /\ UNCHANGED <<vars, scene, account, era, wiped>>

Logout(b) ==
    /\ SetCookie(b, NoSession)
    /\ UNCHANGED <<vars, scene, account, era, wiped>>

\* forgot_password_submit
ForgotPassword(b) ==
    /\ LoadAccount.key # 0
    /\ SetCookie(b, [session[b] EXCEPT !.verified = TRUE])
    /\ UNCHANGED <<vars, scene, account, era, wiped>>

\* forgot_password_reset
ResetPassword(b) ==
    /\ session[b].verified
    /\ Changes
    /\ SaveAccount(Bumped([LoadAccount EXCEPT !.made = TRUE]))
    /\ SetCookie(b, [session[b] EXCEPT !.verified = FALSE])

\* AuthMiddleware
Accepts(b) == AdminExists /\ session[b].auth /\ session[b].ver = LoadAccount.ver

\* A session of an earlier version is cleared.
Refuse(b) ==
    /\ AdminExists /\ session[b].auth /\ ~Accepts(b)
    /\ SetCookie(b, NoSession)
    /\ UNCHANGED <<vars, scene, account, era, wiped>>

\* A request that takes its time, as the polls of the dashboard, and its response.
SlowRequest(b) ==
    /\ Accepts(b) /\ flight[b] = NoSession
    /\ flight' = [flight EXCEPT ![b] = session[b]]
    /\ UNCHANGED <<vars, scene, account, session, era, wiped>>

SlowResponse(b) ==
    /\ flight[b] # NoSession
    /\ session' = [session EXCEPT ![b] = flight[b]]
    /\ flight' = [flight EXCEPT ![b] = NoSession]
    /\ UNCHANGED <<vars, scene, account, era, wiped>>
-------------------------------------------------------------------------------
(***************************************************************************)
(* The account page.                                                       *)
(***************************************************************************)

\* admin_change_password
ChangePassword(b) ==
    /\ Accepts(b)
    /\ Changes
    /\ SaveAccount(Bumped([LoadAccount EXCEPT !.made = TRUE]))
    /\ UNCHANGED <<session, flight>>

\* admin_mfa_setup_page
OpenMfa(b) ==
    /\ Accepts(b)
    /\ SetCookie(b, [session[b] EXCEPT !.secret = TRUE])
    /\ UNCHANGED <<vars, scene, account, era, wiped>>

\* admin_mfa_setup_submit
EnrollMfa(b) ==
    /\ Accepts(b) /\ session[b].secret
    /\ Changes
    /\ SaveAccount(Bumped([LoadAccount EXCEPT !.mfa = TRUE]))
    /\ SetCookie(b, [session[b] EXCEPT !.secret = FALSE])

\* admin_mfa_remove
RemoveMfa(b) ==
    /\ Accepts(b) /\ LoadAccount.mfa
    /\ Changes
    /\ SaveAccount(Bumped([LoadAccount EXCEPT !.mfa = FALSE]))
    /\ UNCHANGED <<session, flight>>

\* admin_regenerate_backup_key: no session ends.
RegenerateBackupKey(b) ==
    /\ Accepts(b) /\ LoadAccount.key < MaxKeys
    /\ SaveAccount([LoadAccount EXCEPT !.key = @ + 1])
    /\ UNCHANGED <<session, flight, era>>

\* admin_factory_reset
ResetAll(b) ==
    /\ Accepts(b)
    /\ FactoryReset
    /\ account' = IF sealed' = key THEN NoAccount ELSE account
    /\ wiped' = TRUE
    /\ SetCookie(b, NoSession)
    /\ UNCHANGED <<scene, era>>
-------------------------------------------------------------------------------
(***************************************************************************)
(* The other requests, on the same file.                                   *)
(***************************************************************************)

\* Mutant: deleting a host writes a store without the account.
KeepsAccountNot == account' = IF hosts' # hosts /\ store' # store THEN NoAccount ELSE account

\* A handler that saves the store keeps what it could read of it.
KeepsAccount == account' = IF sealed # key /\ sealed' = key THEN NoAccount ELSE account

HostStep ==
    /\ Request
    /\ scene = "account" => hosts' \in {<<>>, <<OneHost>>} /\ form' = form
    /\ KeepsAccount
    /\ wiped' = (wiped \/ sealed' # key')
    /\ UNCHANGED <<scene, session, flight, era>>

AccountStep(b) ==
    \/ CreateAccount(b) \/ OpenSecurity(b) \/ SetupMfa(b) \/ ConfirmRecovery(b)
    \/ Login(b) \/ Logout(b) \/ ForgotPassword(b) \/ ResetPassword(b) \/ Refuse(b)
    \/ SlowRequest(b) \/ SlowResponse(b)
    \/ ChangePassword(b) \/ OpenMfa(b) \/ EnrollMfa(b) \/ RemoveMfa(b)
    \/ RegenerateBackupKey(b) \/ ResetAll(b)

\* The hosts alone: somebody is signed in.
ResetHosts ==
    /\ scene = "hosts"
    /\ FactoryReset
    /\ UNCHANGED accountVars

AccountNext ==
    \/ HostStep \/ ResetHosts
    \/ scene = "account" /\ \E b \in Browsers : AccountStep(b)

AccountSpec == AccountInit /\ [][AccountNext]_allVars
-------------------------------------------------------------------------------
(***************************************************************************)
(* Properties                                                              *)
(***************************************************************************)

\* "bumped on any credential change to invalidate live sessions": a session that is
\* admitted was signed in since the last change of the password or the second
\* factor, whichever of a browser's responses came last.
SessionsCurrent ==
    ~wiped => \A b \in Browsers : Accepts(b) => session[b].era = era

\* The account that was set up is there, and setup stays closed, whatever is saved
\* in the same file and wherever that is cut short, until it is reset or the file
\* is torn.
AccountKept == era > 0 /\ ~wiped => AdminExists

\* The same, also for an account that was made after a reset.
ResetEndsSessions == \A b \in Browsers : Accepts(b) => session[b].era = era

\* Nobody who has signed out is signed in again by a response that comes late.
LogoutSticks ==
    [][\A b \in Browsers : ~session[b].auth /\ session'[b].auth => session'[b].era = era /\ flight' = flight]_allVars
===============================================================================
