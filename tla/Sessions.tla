------------------------------ MODULE Sessions ------------------------------
(***************************************************************************)
(* The sessions of one user: SignIn, RefreshToken and SignOut of           *)
(* auth_service.go over the refresh tokens kept by UserSettings, and the   *)
(* browsers that hold the cookie (connect.ts, auth-redirect.ts,            *)
(* AuthContext.tsx).  Tabs of one browser share a cookie jar; every tab    *)
(* has its own tokenRefreshManager, which keeps one refresh in flight.     *)
(* Programs is the set of operation sequences of the three handlers; items *)
(* are refresh token ids, and a token id is never generated twice.         *)
(***************************************************************************)
EXTENDS UserSettings

CONSTANTS
  Tabs,      \* open tabs
  Jars,      \* cookie jars: one per browser
  JarOf,     \* the jar of each tab
  MaxLost    \* bound on lost replies, reloads, restarts and failed writes together

VARIABLES
  jar,       \* per jar: the refresh token in its cookie, or None
  tab,       \* per tab: mode and the request it waits for
  req,       \* per goroutine: the request it serves
  issued,    \* token ids generated so far
  lost,      \* number of lost replies and reloads
  stored,    \* history: tokens that were written to the row
  succ,      \* history: the token a rotated token was replaced by
  revoked    \* history: tokens removed by SignOut

sessionVars == <<jar, tab, req, issued, lost, stored, succ, revoked>>
allVars == <<settingVars, sessionVars>>

ASSUME SessionAssumption ==
  /\ JarOf \in [Tabs -> Jars]
  /\ MaxLost \in Nat
  /\ None \notin Tabs

NoReq == [kind |-> "none", tab |-> None, old |-> None, new |-> None]

SessionInit ==
  /\ SettingInit
  /\ jar = [j \in Jars |-> None]
  /\ tab = [t \in Tabs |-> [mode |-> "boot", waits |-> None]]
  /\ req = [p \in Procs |-> NoReq]
  /\ issued = {}
  /\ lost = 0
  /\ stored = {}
  /\ succ = [k \in Items |-> None]
  /\ revoked = {}
-----------------------------------------------------------------------------
(* The handlers, as sequences of operations on the list of tokens.         *)

\* doSignIn: a failure to store the token is only logged.
SignInOps(new) == <<Step("add", new, FALSE)>>

RefreshRemoveFirst(old, new) ==
  <<Step("need", old, TRUE), Step("remove", old, FALSE), Step("add", new, TRUE)>>

\* RefreshToken: check the old token, store the new one, remove the old one.
RefreshOps(old, new) ==
  <<Step("need", old, TRUE), Step("add", new, TRUE), Step("remove", old, FALSE)>>

\* SignOut: a failure to remove the token is ignored.
SignOutOps(old) == <<Step("remove", old, FALSE)>>

SessionPrograms ==
  {SignInOps(k) : k \in Items} \cup {SignOutOps(k) : k \in Items}
  \cup {RefreshOps(k, n) : k \in Items, n \in Items}
-----------------------------------------------------------------------------
(* Browsers.                                                               *)

\* A tab sends a request; the handler will generate a token with a new id.
Send(t, p, kind, ops, old, new) ==
  /\ tab[t].waits = None
  /\ req[p] = NoReq
  /\ Begin(p, ops)
  /\ req' = [req EXCEPT ![p] = [kind |-> kind, tab |-> t, old |-> old, new |-> new]]
  /\ tab' = [tab EXCEPT ![t].waits = p]
  /\ issued' = issued \cup ({new} \ {None})
  /\ UNCHANGED <<jar, lost, stored, succ, revoked>>

SignIn(t, p, new) ==
  /\ tab[t].mode = "out"
  /\ new \notin issued
  /\ Send(t, p, "signin", SignInOps(new), None, new)

\* AuthContext.initialize after a page load, or the expiry of the access
\* token of a signed-in tab: the cookie goes with the request.
Refresh(t, p, new) ==
  /\ tab[t].mode \in {"boot", "in"}
  /\ jar[JarOf[t]] # None
  /\ new \notin issued
  /\ Send(t, p, "refresh", RefreshOps(jar[JarOf[t]], new), jar[JarOf[t]], new)

\* Without a cookie the refresh is refused at once.
BootSignedOut(t) ==
  /\ tab[t] = [mode |-> "boot", waits |-> None]
  /\ jar[JarOf[t]] = None
  /\ tab' = [tab EXCEPT ![t].mode = "out"]
  /\ UNCHANGED <<settingVars, jar, req, issued, lost, stored, succ, revoked>>

SignOut(t, p) ==
  /\ tab[t].mode = "in"
  /\ jar[JarOf[t]] # None
  /\ Send(t, p, "signout", SignOutOps(jar[JarOf[t]]), jar[JarOf[t]], None)

Waiting(p) == req[p].tab # None /\ tab[req[p].tab].waits = p

\* A refresh that fails sends a signed-in tab to the entry page, where the
\* application starts again; one that fails there leaves the tab signed out.
AfterFailure(mode) == IF mode = "in" THEN "boot" ELSE "out"

\* The reply arrives: its Set-Cookie reaches the jar.
Reply(p) ==
  LET r == req[p]
      ok == r.kind # "refresh" \/ ~proc[p].failed
      mode == IF r.kind = "signout" THEN "out"
              ELSE IF ok THEN "in" ELSE AfterFailure(tab[r.tab].mode)
  IN /\ r # NoReq
     /\ proc[p].stage = "idle"
     /\ Waiting(p)
     /\ jar' = IF ok THEN [jar EXCEPT ![JarOf[r.tab]] = r.new] ELSE jar
     /\ tab' = [tab EXCEPT ![r.tab] = [mode |-> mode, waits |-> None]]
     /\ req' = [req EXCEPT ![p] = NoReq]
     /\ UNCHANGED <<settingVars, issued, lost, stored, succ, revoked>>

\* The handler of a request nobody waits for has finished.
Unread(p) ==
  /\ req[p] # NoReq
  /\ proc[p].stage = "idle"
  /\ ~Waiting(p)
  /\ req' = [req EXCEPT ![p] = NoReq]
  /\ UNCHANGED <<settingVars, jar, tab, issued, lost, stored, succ, revoked>>

\* The connection breaks before the reply: the handler goes on.  A sign-in
\* can be tried again, signing out forgets the access token in any case.
LoseReply(t) ==
  /\ lost + errors < MaxLost
  /\ tab[t].waits # None
  /\ lost' = lost + 1
  /\ tab' = [tab EXCEPT ![t] = [waits |-> None,
               mode |-> IF req[tab[t].waits].kind = "refresh" THEN AfterFailure(tab[t].mode) ELSE "out"]]
  /\ UNCHANGED <<settingVars, jar, req, issued, stored, succ, revoked>>

\* A page load; an access token that is still valid is taken from localStorage
\* and the tab stays signed in without a refresh.
Reload(t) ==
  /\ lost + errors < MaxLost
  /\ lost' = lost + 1
  /\ \/ tab' = [tab EXCEPT ![t] = [mode |-> "boot", waits |-> None]]
     \/ /\ tab[t].mode = "in" /\ tab[t].waits # None
        /\ tab' = [tab EXCEPT ![t].waits = None]
  /\ UNCHANGED <<settingVars, jar, req, issued, stored, succ, revoked>>
-----------------------------------------------------------------------------
(* The store steps of the handlers, with their history.                    *)

WriteTokens(p) ==
  /\ Put(p)
  /\ stored' = stored \cup (IF Op(p).op = "add" THEN {Op(p).item} ELSE {})
  /\ succ' = IF Op(p).op = "remove" /\ req[p].kind = "refresh"
               THEN [succ EXCEPT ![Op(p).item] = req[p].new] ELSE succ
  /\ revoked' = revoked \cup (IF req[p].kind = "signout" THEN {Op(p).item} ELSE {})
  /\ UNCHANGED <<jar, tab, req, issued, lost>>

OtherStoreStep(p) ==
  /\ \/ GetCached(p) \/ GetRow(p) \/ Fill(p) \/ Set(p)
     \/ lost + errors < MaxLost /\ PutFails(p)
  /\ UNCHANGED sessionVars

\* The server process restarts: its requests are gone, the tabs see an error.
Crash ==
  /\ lost + errors < MaxLost
  /\ Restart
  /\ lost' = lost + 1
  /\ req' = [p \in Procs |-> NoReq]
  /\ tab' = [t \in Tabs |-> IF tab[t].waits = None THEN tab[t]
              ELSE [waits |-> None,
                    mode |-> IF req[tab[t].waits].kind = "refresh" THEN AfterFailure(tab[t].mode) ELSE "out"]]
  /\ UNCHANGED <<jar, issued, stored, succ, revoked>>

SessionNext ==
  \/ \E t \in Tabs, p \in Procs, k \in Items : SignIn(t, p, k) \/ Refresh(t, p, k)
  \/ \E t \in Tabs, p \in Procs : SignOut(t, p)
  \/ \E t \in Tabs : BootSignedOut(t) \/ LoseReply(t) \/ Reload(t)
  \/ \E p \in Procs : Reply(p) \/ Unread(p) \/ WriteTokens(p) \/ OtherStoreStep(p)
  \/ Expire /\ UNCHANGED sessionVars
  \/ Crash

SessionSpec == SessionInit /\ [][SessionNext]_allVars
-----------------------------------------------------------------------------
(* Properties.                                                             *)

Live(k) == row # None /\ k \in ItemsOf(row)

\* Rotation never leaves a session without a token in the database: whatever
\* fails or crashes between the steps of RefreshToken, a token that left the
\* list was signed out, was dropped by an overlapping write, or has a
\* successor that was stored before ("add before remove").
RotationKeepsASession ==
  \A k \in stored : \/ Live(k)
                    \/ k \in revoked \cup overwritten
                    \/ succ[k] # None /\ succ[k] \in stored

\* A browser's cookie holds a token the database accepts, or the reply that
\* replaces it is on its way, although several tabs refresh and sign out with
\* one cookie: provided no reply or database write is lost and no two writes
\* of the list overlap.
CookieIsLive ==
  lost = 0 /\ errors = 0 /\ ~overlapped =>
    \A j \in Jars : jar[j] # None =>
      \/ Live(jar[j])
      \/ \E p \in Procs : Waiting(p) /\ req[p].old = jar[j]

(***************************************************************************)
(* Both: a session survives the rotation of its token, in the database and *)
(* in the browser (RefreshToken, connect.ts).                              *)
(***************************************************************************)
SessionSurvives == RotationKeepsASession /\ CookieIsLive
=============================================================================
