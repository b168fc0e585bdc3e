---------------------------- MODULE SignInFlow ----------------------------
(***************************************************************************)
(* Who a browser tab is signed in as: AuthContext and auth-state.ts in     *)
(* several tabs of one browser, the sign-in and sign-up forms, and the     *)
(* OAuth round trip that leaves the application for the identity provider  *)
(* and comes back to AuthCallback, to sign in or to link an external       *)
(* account.                                                                *)
(*                                                                         *)
(* A token, a cookie and a stored token are the user they belong to; their *)
(* rotation and storage are in Sessions, and what the server does for a    *)
(* first sign-on in detail in Accounts.  A document that is left loses its *)
(* memory, while sessionStorage stays with the tab and localStorage and    *)
(* the cookie are the browser's.                                           *)
(***************************************************************************)
EXTENDS Naturals, Sequences

CONSTANTS
  Users,         \* user names
  Externals,     \* accounts at the identity provider
  Tabs,          \* tabs of the browser
  Nobody,        \* no user, no account
  MaxFlows,      \* bound on OAuth round trips, failed calls, expiries and reloads together
  MaxSignIns     \* bound on sign-ins, sign-ups and sign-outs

VARIABLES
  accounts,      \* registered users
  linkOf,        \* external account -> the user it is linked to
  cookie,        \* user of the refresh token cookie
  stash,         \* user of the access token in localStorage
  tab,           \* per tab: document, memory and sessionStorage
  inbox,         \* per tab: tokens broadcast to it
  flows,         \* history: the round trips started so far
  linker,        \* history: who started the flow that linked an account
  signIns,       \* number of sign-ins, sign-ups and sign-outs
  accidents      \* number of accidents

signInVars == <<accounts, linkOf, cookie, stash, tab, inbox, flows, linker, signIns, accidents>>

ASSUME SignInAssumption ==
  /\ Nobody \notin Users \cup Externals
  /\ MaxFlows \in Nat /\ MaxSignIns \in Nat

NoUrl == [flow |-> 0, ext |-> Nobody]
NoCall == [kind |-> "none", who |-> Nobody, as |-> Nobody]

\* page is "app", "auth" (the guest-only pages), "callback" or "away" (at the
\* provider); phase is how far initialize() is; entry is the flow in
\* sessionStorage; url the flow and account in the address.
NewTab == [page |-> "app", phase |-> "load", token |-> Nobody, shown |-> Nobody, entry |-> 0,
           url |-> NoUrl, handled |-> FALSE, call |-> NoCall, switched |-> FALSE]

Ready(t) == tab[t].page # "away" /\ tab[t].phase = "ready" /\ tab[t].call = NoCall

Room == Len(flows) + accidents < MaxFlows
Happens == Room /\ accidents' = accidents + 1
Signs == signIns < MaxSignIns /\ signIns' = signIns + 1

\* A document is loaded: memory starts empty.
Document(t, page, url) ==
  [tab[t] EXCEPT !.page = page, !.url = url, !.phase = "load", !.token = Nobody,
                 !.shown = Nobody, !.handled = FALSE, !.call = NoCall, !.switched = FALSE]
-----------------------------------------------------------------------------
(* auth-state.ts.                                                          *)

\* setAccessToken: memory, localStorage and a message to the other tabs.
SetAccessToken(t, u, rest) ==
  /\ tab' = [tab EXCEPT ![t] = [rest EXCEPT !.token = u]]
  /\ stash' = u
  /\ inbox' = [s \in Tabs |-> IF s = t \/ tab[s].page = "away" THEN inbox[s] ELSE Append(inbox[s], u)]

\* onmessage: the token is adopted, what the tab shows is not asked again.
Adopt(t) ==
  /\ inbox[t] # <<>>
  /\ inbox' = [inbox EXCEPT ![t] = Tail(@)]
  /\ tab' = [tab EXCEPT ![t].token = Head(inbox[t]),
                        ![t].switched = @ \/ Head(inbox[t]) # tab[t].token]
  /\ UNCHANGED <<accounts, linkOf, cookie, stash, flows, linker, signIns, accidents>>

\* An access token has expired when a request needs it: it is refreshed with
\* the cookie, or the user is sent to the entry page.
RefreshExpired(t) ==
  /\ Ready(t)
  /\ tab[t].token # Nobody
  /\ Happens
  /\ IF cookie # Nobody
     THEN SetAccessToken(t, cookie, [tab[t] EXCEPT !.switched = @ \/ cookie # tab[t].token])
     ELSE /\ tab[t].page = "app" /\ tab[t].shown # Nobody
          /\ tab' = [tab EXCEPT ![t] = Document(t, "auth", NoUrl)]
          /\ stash' = Nobody
          /\ inbox' = [inbox EXCEPT ![t] = <<>>]
  /\ UNCHANGED <<accounts, linkOf, cookie, flows, linker, signIns>>
-----------------------------------------------------------------------------
(* AuthContext.initialize.                                                 *)

\* The token in memory or localStorage, or a refresh with the cookie.
GetToken(t) ==
  /\ tab[t].page # "away" /\ tab[t].phase = "load" /\ tab[t].call = NoCall
  /\ IF tab[t].token # Nobody \/ stash # Nobody
     THEN /\ tab' = [tab EXCEPT ![t].phase = "ask",
                                ![t].token = IF @ # Nobody THEN @ ELSE stash]
          /\ UNCHANGED <<stash, inbox>>
     ELSE IF cookie # Nobody
     THEN SetAccessToken(t, cookie, [tab[t] EXCEPT !.phase = "ask"])
     ELSE /\ tab' = [tab EXCEPT ![t].phase = "ready", ![t].shown = Nobody]
          /\ UNCHANGED <<stash, inbox>>
  /\ UNCHANGED <<accounts, linkOf, cookie, flows, linker, signIns, accidents>>

\* getCurrentUser, with the token of this moment.
AskUser(t) ==
  /\ tab[t].phase = "ask" /\ tab[t].call = NoCall
  /\ tab' = [tab EXCEPT ![t].call = [kind |-> "user", who |-> tab[t].token, as |-> tab[t].token],
                        ![t].switched = FALSE]
  /\ UNCHANGED <<accounts, linkOf, cookie, stash, inbox, flows, linker, signIns, accidents>>

\* RequireGuestRoute: a guest-only page is left once a user is known.
Guarded(page, user) == IF page = "auth" /\ user # Nobody THEN "app" ELSE page

UserReply(t) ==
  /\ tab[t].call.kind = "user"
  /\ tab' = [tab EXCEPT ![t].phase = "ready", ![t].call = NoCall,
                        ![t].shown = tab[t].call.who,
                        ![t].page = Guarded(@, tab[t].call.who)]
  /\ UNCHANGED <<accounts, linkOf, cookie, stash, inbox, flows, linker, signIns, accidents>>

\* It failed: the token goes, for every tab that has not loaded it.
UserFails(t) ==
  /\ tab[t].call.kind = "user"
  /\ Happens
  /\ tab' = [tab EXCEPT ![t].phase = "ready", ![t].call = NoCall,
                        ![t].shown = Nobody, ![t].token = Nobody]
  /\ stash' = Nobody
  /\ UNCHANGED <<accounts, linkOf, cookie, inbox, flows, linker, signIns>>
-----------------------------------------------------------------------------
(* Password forms and sign-out.                                            *)

Send(t, call) == tab' = [tab EXCEPT ![t].call = call]

\* The entry page, from a page that guests may see.
GoToAuth(t) ==
  /\ Ready(t) /\ tab[t].page = "app" /\ tab[t].shown = Nobody
  /\ tab' = [tab EXCEPT ![t].page = "auth"]
  /\ UNCHANGED <<accounts, linkOf, cookie, stash, inbox, flows, linker, signIns, accidents>>

PasswordSignIn(t, u) ==
  /\ Ready(t) /\ tab[t].page = "auth"
  /\ u \in accounts
  /\ Signs
  /\ Send(t, [kind |-> "signin", who |-> u, as |-> Nobody])
  /\ UNCHANGED <<accounts, linkOf, cookie, stash, inbox, flows, linker, accidents>>

\* SignUp: createUser, and then signIn with the same name and password.
SignUp(t, u) ==
  /\ Ready(t) /\ tab[t].page = "auth"
  /\ Signs
  /\ Send(t, [kind |-> "signup", who |-> u, as |-> Nobody])
  /\ UNCHANGED <<accounts, linkOf, cookie, stash, inbox, flows, linker, accidents>>

SignUpReply(t) ==
  LET c == tab[t].call IN
  /\ c.kind = "signup"
  /\ IF c.who \in accounts
     THEN Send(t, NoCall) /\ UNCHANGED accounts
     ELSE Send(t, [c EXCEPT !.kind = "signin"]) /\ accounts' = accounts \cup {c.who}
  /\ UNCHANGED <<linkOf, cookie, stash, inbox, flows, linker, signIns, accidents>>

\* A sign-in succeeded: cookie and token, and then initialize() again.
SignedInAs(t, u, page) ==
  /\ cookie' = u
  /\ SetAccessToken(t, u, [tab[t] EXCEPT !.phase = "load", !.call = NoCall, !.page = page])

SignInReply(t) ==
  /\ tab[t].call.kind = "signin"
  /\ SignedInAs(t, tab[t].call.who, tab[t].page)
  /\ UNCHANGED <<accounts, linkOf, flows, linker, signIns, accidents>>

\* A call of a form or of the callback fails; its page shows an error.
CallFails(t) ==
  /\ tab[t].call.kind \in {"signin", "signup", "sso", "link"}
  /\ Happens
  /\ Send(t, NoCall)
  /\ UNCHANGED <<accounts, linkOf, cookie, stash, inbox, flows, linker, signIns>>

SignOut(t) ==
  /\ Ready(t) /\ tab[t].page = "app" /\ tab[t].shown # Nobody
  /\ Signs
  /\ Send(t, [kind |-> "signout", who |-> Nobody, as |-> tab[t].token])
  /\ UNCHANGED <<accounts, linkOf, cookie, stash, inbox, flows, linker, accidents>>

\* logout and handleSignOut: whether or not the call succeeded, the token is
\* cleared and the entry page loaded.
SignOutReply(t) ==
  /\ tab[t].call.kind = "signout"
  /\ \/ cookie' = Nobody /\ UNCHANGED accidents
     \/ Happens /\ UNCHANGED cookie
  /\ stash' = Nobody
  /\ tab' = [tab EXCEPT ![t] = Document(t, "auth", NoUrl)]
  /\ inbox' = [inbox EXCEPT ![t] = <<>>]
  /\ UNCHANGED <<accounts, linkOf, flows, linker, signIns>>
-----------------------------------------------------------------------------
(* The OAuth round trip.                                                   *)

\* storeOAuthState: one entry per tab, a later flow replaces it.
StoreOAuthState(t, mode, user) ==
  /\ Room
  /\ flows' = Append(flows, [tab |-> t, mode |-> mode, by |-> user, sent |-> 0, senders |-> {}])
  /\ tab' = [tab EXCEPT ![t] = [Document(t, "away", [flow |-> Len(flows) + 1, ext |-> Nobody])
                                 EXCEPT !.entry = Len(flows) + 1]]
  /\ inbox' = [inbox EXCEPT ![t] = <<>>]

StartSso(t) ==
  /\ Ready(t) /\ tab[t].page = "auth"
  /\ StoreOAuthState(t, "signin", Nobody)
  /\ UNCHANGED <<accounts, linkOf, cookie, stash, linker, signIns, accidents>>

StartLink(t) ==
  /\ Ready(t) /\ tab[t].page = "app" /\ tab[t].shown # Nobody
  /\ StoreOAuthState(t, "link", tab[t].shown)
  /\ UNCHANGED <<accounts, linkOf, cookie, stash, linker, signIns, accidents>>

\* The provider sends the browser back with a code for the account used there.
Authorize(t, x) ==
  /\ tab[t].page = "away"
  /\ tab' = [tab EXCEPT ![t] = Document(t, "callback", [tab[t].url EXCEPT !.ext = x])]
  /\ UNCHANGED <<accounts, linkOf, cookie, stash, inbox, flows, linker, signIns, accidents>>

\* The user turns back or the provider reports an error.
Abandon(t) ==
  /\ tab[t].page = "away"
  /\ tab' = [tab EXCEPT ![t] = Document(t, "app", NoUrl)]
  /\ UNCHANGED <<accounts, linkOf, cookie, stash, inbox, flows, linker, signIns, accidents>>

\* A tab is loaded again, leaves the callback, or opens the address another tab
\* was sent back to.
Reload(t) ==
  /\ Happens
  /\ \/ tab[t].page = "callback" /\ tab' = [tab EXCEPT ![t] = Document(t, "app", NoUrl)]
     \/ tab[t].page # "away" /\ tab' = [tab EXCEPT ![t] = Document(t, tab[t].page, tab[t].url)]
     \/ \E s \in Tabs \ {t} :
          /\ tab[s].page = "callback"
          /\ tab' = [tab EXCEPT ![t] = Document(t, "callback", tab[s].url)]
  /\ inbox' = [inbox EXCEPT ![t] = <<>>]
  /\ UNCHANGED <<accounts, linkOf, cookie, stash, flows, linker, signIns>>

\* cleanupExpiredOAuthState, or an entry that is too old when validated.
ExpireState(t) ==
  /\ tab[t].entry # 0
  /\ Happens
  /\ tab' = [tab EXCEPT ![t].entry = 0]
  /\ UNCHANGED <<accounts, linkOf, cookie, stash, inbox, flows, linker, signIns>>

KeepEntry(t) == tab[t].entry

\* validateOAuthState: the entry must be that of the address, and it is removed
\* whether it is or not.
EntryAfter(t) == 0
ValidState(t) == tab[t].entry # 0 /\ tab[t].entry = tab[t].url.flow

\* A flow is linked only for the user who started it.
MayLink(t, f) == tab[t].shown # Nobody /\ tab[t].shown = f.by

\* The effect of AuthCallback, once per document: run again after a refusal it
\* would find no entry.
Callback(t) ==
  LET i == tab[t].url.flow
      f == flows[i]
      goes == ValidState(t) /\ (f.mode = "link" => MayLink(t, f))
      call == IF f.mode = "link" THEN [kind |-> "link", who |-> tab[t].shown, as |-> tab[t].token]
              ELSE [kind |-> "sso", who |-> Nobody, as |-> Nobody]
  IN
  /\ Ready(t) /\ tab[t].page = "callback" /\ i # 0 /\ ~tab[t].handled
  /\ tab' = [tab EXCEPT ![t].handled = TRUE, ![t].entry = EntryAfter(t),
                        ![t].call = IF goes THEN call ELSE NoCall]
  /\ flows' = IF goes THEN [flows EXCEPT ![i].sent = @ + 1, ![i].senders = @ \cup {t}] ELSE flows
  /\ UNCHANGED <<accounts, linkOf, cookie, stash, inbox, linker, signIns, accidents>>

\* CreateLinkedIdentity: the caller must be the parent, and an account that is
\* linked to somebody else is refused.
LinkReply(t) ==
  LET c == tab[t].call
      x == tab[t].url.ext
  IN
  /\ c.kind = "link"
  /\ IF c.as = c.who /\ linkOf[x] \in {Nobody, c.who}
     THEN /\ linkOf' = [linkOf EXCEPT ![x] = c.who]
          /\ linker' = [linker EXCEPT ![x] = flows[tab[t].url.flow].by]
          /\ tab' = [tab EXCEPT ![t].call = NoCall, ![t].phase = "load", ![t].page = "app"]
     ELSE Send(t, NoCall) /\ UNCHANGED <<linkOf, linker>>
  /\ UNCHANGED <<accounts, cookie, stash, inbox, flows, signIns, accidents>>

\* SignIn with an external account; an unknown one is registered.
SsoReply(t) ==
  LET x == tab[t].url.ext IN
  /\ tab[t].call.kind = "sso"
  /\ \/ /\ linkOf[x] # Nobody
        /\ SignedInAs(t, linkOf[x], "app")
        /\ UNCHANGED <<accounts, linkOf>>
     \/ /\ linkOf[x] = Nobody
        /\ \E u \in Users \ accounts :
             /\ accounts' = accounts \cup {u}
             /\ linkOf' = [linkOf EXCEPT ![x] = u]
             /\ SignedInAs(t, u, "app")
  /\ UNCHANGED <<flows, linker, signIns, accidents>>

\* handleUnlinkIdentityProvider: refused unless the caller is the owner.
Unlink(t, x) ==
  /\ Ready(t) /\ tab[t].page = "app" /\ tab[t].shown # Nobody
  /\ linkOf[x] = tab[t].shown /\ tab[t].token = linkOf[x]
  /\ linkOf' = [linkOf EXCEPT ![x] = Nobody]
  /\ linker' = [linker EXCEPT ![x] = Nobody]
  /\ UNCHANGED <<accounts, cookie, stash, tab, inbox, flows, signIns, accidents>>
-----------------------------------------------------------------------------
SignInInit ==
  /\ accounts \in SUBSET Users \ {{}}
  /\ linkOf \in [Externals -> accounts \cup {Nobody}]
  /\ cookie \in accounts \cup {Nobody}
  /\ stash \in {cookie, Nobody}
  /\ tab = [t \in Tabs |-> NewTab]
  /\ inbox = [t \in Tabs |-> <<>>]
  /\ flows = <<>>
  /\ linker = [x \in Externals |-> Nobody]
  /\ signIns = 0 /\ accidents = 0

SignInNext ==
  \E t \in Tabs :
    \/ Adopt(t) \/ RefreshExpired(t)
    \/ GetToken(t) \/ AskUser(t) \/ UserReply(t) \/ UserFails(t)
    \/ GoToAuth(t)
    \/ \E u \in Users : PasswordSignIn(t, u) \/ SignUp(t, u)
    \/ SignUpReply(t) \/ SignInReply(t) \/ CallFails(t)
    \/ SignOut(t) \/ SignOutReply(t)
    \/ StartSso(t) \/ StartLink(t) \/ Abandon(t)
    \/ \E x \in Externals : Authorize(t, x) \/ Unlink(t, x)
    \/ Reload(t) \/ ExpireState(t)
    \/ Callback(t) \/ LinkReply(t) \/ SsoReply(t)

SignInSpec == SignInInit /\ [][SignInNext]_signInVars
-----------------------------------------------------------------------------
(***************************************************************************)
(* An external account is linked to the user who set out to link it, even  *)
(* if other tabs sign out and in as somebody else during the round trip,   *)
(* so that the callback starts, or its request is sent, under another      *)
(* user's token (AuthCallback's checks and CreateLinkedIdentity's).        *)
(***************************************************************************)
LinkedByStarter == \A x \in Externals : linker[x] # Nobody => linkOf[x] = linker[x]

(***************************************************************************)
(* A round trip is completed at most once and only by the tab that started *)
(* it, whatever is reloaded, abandoned, started again or opened in another *)
(* tab.                                                                    *)
(***************************************************************************)
FlowUsedOnce ==
  \A i \in DOMAIN flows : flows[i].sent <= 1 /\ flows[i].senders \subseteq {flows[i].tab}

(***************************************************************************)
(* What a tab does, it does as the user it shows: the requests of a tab    *)
(* that is not asking for its user carry that user's token.  The exception *)
(* is a tab that took over, from a broadcast or the shared cookie, the     *)
(* token of a user somebody signed in as in another tab.                   *)
(***************************************************************************)
ActsAsShown ==
  \A t \in Tabs :
    (Ready(t) /\ tab[t].shown # Nobody /\ ~tab[t].switched) => tab[t].token = tab[t].shown

(***************************************************************************)
(* All of it: no tab acts for another user than the one it shows or the    *)
(* one that started its round trip (AuthContext.tsx, AuthCallback.tsx,     *)
(* oauth.ts).                                                              *)
(***************************************************************************)
TabsActForTheirUser == LinkedByStarter /\ FlowUsedOnce /\ ActsAsShown
===========================================================================
