------------------------------ MODULE Accounts ------------------------------
(***************************************************************************)
(* User accounts: the first administrator, registration, single sign-on    *)
(* with linked identities, changes of a role, deletion, and the cache of   *)
(* user rows in front of the table (store/user.go).                        *)
(*                                                                         *)
(* A request is a sequence of statements that interleave with those of     *)
(* other requests; executing one decides which come next.  There is one    *)
(* identity provider, and an external account is one of Externs.  User ids *)
(* are never used again.                                                   *)
(***************************************************************************)
EXTENDS Naturals, Sequences, FiniteSets

CONSTANTS
  Uids,         \* user ids
  Externs,      \* accounts at the identity provider
  Handlers,        \* goroutines that serve requests
  MaxRequests,  \* bound on requests
  MaxMishap,    \* bound on failed statements and crashes
  NoUser

VARIABLES
  user,         \* the user table: the role, or NoUser
  identity,     \* the user_identity table: the user an external account is linked to
  userCache,    \* userCache: the role of the cached row, or NoUser
  mutex,        \* holder of userCreateMu, or NoUser
  plan,         \* per goroutine: the statements its request still has to execute
  requests,     \* number of requests so far
  mishap,       \* number of failures so far
  used,         \* user ids given out
  bootstrapped, \* history: administrators created because there were no users
  provisional,  \* history: users created by a first single sign-on
  late,         \* history: external accounts linked to a user that was gone
  unlinked,     \* history: external accounts and users whose link was removed
  cut,          \* history: provisional users whose sign-on was cut short
  misfilled     \* history: users whose cache entry was written out of order

accountVars == <<user, identity, userCache, mutex, plan, requests, mishap, used,
                 bootstrapped, provisional, late, unlinked, cut, misfilled>>

Roles == {"ADMIN", "USER"}

ASSUME AccountAssumption ==
  /\ MaxRequests \in Nat /\ MaxMishap \in Nat
  /\ NoUser \notin Uids \cup Roles \cup Handlers

\* An instance without users, or one with some of them, linked or not.
AccountInit ==
  /\ user \in [Uids -> Roles \cup {NoUser}]
  /\ identity \in [Externs -> Uids \cup {NoUser}]
  /\ \A e \in Externs : identity[e] # NoUser => user[identity[e]] # NoUser
  /\ \A e, f \in Externs : identity[e] # NoUser /\ identity[e] = identity[f] => e = f
  /\ (\E u \in Uids : user[u] # NoUser) => \E u \in Uids : user[u] = "ADMIN"
  /\ userCache = [u \in Uids |-> NoUser]
  /\ mutex = NoUser
  /\ plan = [p \in Handlers |-> <<>>]
  /\ requests = 0
  /\ mishap = 0
  /\ used = {u \in Uids : user[u] # NoUser}
  /\ bootstrapped = {}
  /\ provisional = {}
  /\ late = {}
  /\ unlinked = {}
  /\ cut = {}
  /\ misfilled = {}
-----------------------------------------------------------------------------
Exists(u) == user[u] # NoUser
NoUsers == \A u \in Uids : ~Exists(u)
IsLinked(u) == \E e \in Externs : identity[e] = u

At(p, op) == plan[p] # <<>> /\ Head(plan[p])[1] = op
Arg(p, i) == Head(plan[p])[i]
Continue(p, more) == plan' = [plan EXCEPT ![p] = more \o Tail(@)]
Return(p) == plan' = [plan EXCEPT ![p] = <<>>]
Pending(op, u) == \E p \in Handlers : \E i \in DOMAIN plan[p] : plan[p][i][1] = op /\ plan[p][i][2] = u

tables == <<user, identity, userCache, mutex>>
counters == <<requests, mishap, used>>
history == <<bootstrapped, provisional, late, unlinked, cut, misfilled>>

\* userCache.Set: an entry that is not the row of this moment is out of order.
CacheSet(u, row) ==
  /\ userCache' = [userCache EXCEPT ![u] = row]
  /\ misfilled' = IF row = user[u] THEN misfilled \ {u} ELSE misfilled \cup {u}
-----------------------------------------------------------------------------
(* Creating users.                                                         *)

\* CreateUser of the service: an instance without users gets its first one.
CheckFirst(p) ==
  /\ At(p, "signUp")
  /\ Continue(p, <<<<IF NoUsers THEN "first" ELSE "register", Arg(p, 2)>>>>)
  /\ UNCHANGED <<tables, counters, history>>

\* CreateUserIfNoUsers: under the mutex, list again.
First(p) ==
  /\ At(p, "first")
  /\ mutex = NoUser
  /\ mutex' = IF NoUsers THEN p ELSE NoUser
  /\ Continue(p, <<<<IF NoUsers THEN "insertFirst" ELSE "register", Arg(p, 2)>>>>)
  /\ UNCHANGED <<user, identity, userCache, counters, history>>

\* ... and create the administrator; the mutex is released after the cache is set.
InsertFirst(p) ==
  LET u == Arg(p, 2)
  IN /\ At(p, "insertFirst")
     /\ user' = [user EXCEPT ![u] = "ADMIN"]
     /\ bootstrapped' = bootstrapped \cup {u}
     /\ Continue(p, <<<<"set", u, "ADMIN">>>>)
     /\ UNCHANGED <<identity, userCache, mutex, counters, provisional, late, unlinked, cut, misfilled>>

\* Everyone else needs registration to be allowed.
Register(p) ==
  /\ At(p, "register")
  /\ Continue(p, <<<<"insert", Arg(p, 2), "USER">>>>) \/ Return(p)
  /\ UNCHANGED <<tables, counters, history>>

\* Store.CreateUser and Store.UpdateUser: the row, then the cache.
Insert(p) ==
  LET u == Arg(p, 2) IN
  /\ At(p, "insert")
  /\ user' = [user EXCEPT ![u] = Arg(p, 3)]
  /\ Continue(p, <<<<"set", u, Arg(p, 3)>>>>)
  /\ UNCHANGED <<identity, userCache, mutex, counters, history>>

UpdateRow(p) ==
  LET u == Arg(p, 2) IN
  /\ At(p, "update")
  /\ IF Exists(u)
       THEN /\ user' = [user EXCEPT ![u] = Arg(p, 3)]
            /\ Continue(p, <<<<"set", u, Arg(p, 3)>>>>)
       ELSE Return(p) /\ UNCHANGED user
  /\ UNCHANGED <<identity, userCache, mutex, counters, history>>

\* The cache entry of a write, or of a row that was listed.
SetCache(p) ==
  /\ At(p, "set")
  /\ CacheSet(Arg(p, 2), Arg(p, 3))
  /\ mutex' = IF mutex = p THEN NoUser ELSE mutex
  /\ Continue(p, <<>>)
  /\ UNCHANGED <<user, identity, counters, bootstrapped, provisional, late, unlinked, cut>>
-----------------------------------------------------------------------------
(* Reading and deleting users.                                             *)

\* GetUser by id, then what the caller does with a user that was found.
GetUser(p) ==
  LET u == Arg(p, 2) IN
  /\ At(p, "get")
  /\ \/ userCache[u] # NoUser /\ Continue(p, <<>>)
     \/ userCache[u] = NoUser /\ Exists(u) /\ Continue(p, <<<<"set", u, user[u]>>>>)
     \/ userCache[u] = NoUser /\ ~Exists(u) /\ Return(p)
  /\ UNCHANGED <<tables, counters, history>>

\* DeleteUser of the driver: one transaction for the row and its links.
DeleteRow(p) ==
  LET u == Arg(p, 2) IN
  /\ At(p, "delete")
  /\ user' = [user EXCEPT ![u] = NoUser]
  /\ identity' = [e \in Externs |-> IF identity[e] = u THEN NoUser ELSE identity[e]]
  /\ unlinked' = unlinked \cup {u} \cup {e \in Externs : identity[e] = u}
  /\ Continue(p, <<<<"uncache", u>>>>)
  /\ UNCHANGED <<userCache, mutex, counters, bootstrapped, provisional, late, cut, misfilled>>

UncacheNothing(p) == At(p, "uncache") /\ Continue(p, <<>>) /\ UNCHANGED <<tables, counters, history>>

\* deleteUserCache.
Uncache(p) ==
  /\ At(p, "uncache")
  /\ userCache' = [userCache EXCEPT ![Arg(p, 2)] = NoUser]
  /\ misfilled' = misfilled \ {Arg(p, 2)}
  /\ Continue(p, <<>>)
  /\ UNCHANGED <<user, identity, mutex, counters, bootstrapped, provisional, late, unlinked, cut>>
-----------------------------------------------------------------------------
(* Single sign-on and linked identities.                                   *)

\* getLinkedSSOUser, else the first login of this external account.
ResolveSSOUser(p) ==
  LET u == Arg(p, 2) e == Arg(p, 3) IN
  /\ At(p, "sso")
  /\ \/ identity[e] # NoUser /\ Continue(p, <<<<"get", identity[e]>>, <<"signedIn", identity[e], e>>>>)
     \/ identity[e] = NoUser /\ Continue(p, <<<<"provision", u>>, <<"link", u, e>>>>)
     \/ identity[e] = NoUser /\ Return(p)
  /\ UNCHANGED <<tables, counters, history>>

\* The provisional user of a first login.
Provision(p) ==
  LET u == Arg(p, 2) IN
  /\ At(p, "provision")
  /\ user' = [user EXCEPT ![u] = "USER"]
  /\ provisional' = provisional \cup {u}
  /\ Continue(p, <<<<"set", u, "USER">>>>)
  /\ UNCHANGED <<identity, userCache, mutex, counters, bootstrapped, late, unlinked, cut, misfilled>>

\* CreateUserIdentity: both the external account and the user are unique.
Link(e, u) ==
  /\ identity' = [identity EXCEPT ![e] = u]
  /\ late' = IF Exists(u) THEN late \ {e} ELSE late \cup {e}

CanLink(e, u) == identity[e] = NoUser /\ ~IsLinked(u)

LinkNoCleanup(p) ==
  LET u == Arg(p, 2) e == Arg(p, 3) IN
  /\ At(p, "link")
  /\ IF CanLink(e, u)
       THEN Link(e, u) /\ Continue(p, <<<<"signedIn", u, e>>>>)
       ELSE UNCHANGED <<identity, late>> /\ Continue(p, <<<<"winner", u, e>>>>)
  /\ UNCHANGED <<user, userCache, mutex, counters, bootstrapped, provisional, unlinked, cut, misfilled>>

\* When a concurrent first login has won, the provisional user is deleted
\* again and the winner's user signs in.
LinkProvisional(p) ==
  LET u == Arg(p, 2) e == Arg(p, 3) IN
  /\ At(p, "link")
  /\ IF CanLink(e, u)
       THEN Link(e, u) /\ Continue(p, <<<<"signedIn", u, e>>>>)
       ELSE UNCHANGED <<identity, late>> /\ Continue(p, <<<<"delete", u>>, <<"winner", u, e>>>>)
  /\ UNCHANGED <<user, userCache, mutex, counters, bootstrapped, provisional, unlinked, cut, misfilled>>

Winner(p) ==
  LET v == identity[Arg(p, 3)] IN
  /\ At(p, "winner")
  /\ IF v = NoUser THEN Return(p) ELSE Continue(p, <<<<"get", v>>, <<"signedIn", v, Arg(p, 3)>>>>)
  /\ UNCHANGED <<tables, counters, history>>

\* doSignIn with the user that was resolved.
SignedIn(p) ==
  /\ At(p, "signedIn")
  /\ Return(p)
  /\ UNCHANGED <<tables, counters, history>>

\* bindSSOIdentityToUser: a user has one account per provider.  After a
\* conflict the handler only looks up which answer to give.
Bind(p) ==
  LET u == Arg(p, 2) e == Arg(p, 3) IN
  /\ At(p, "bind")
  /\ IF IsLinked(u) THEN Return(p) ELSE Continue(p, <<<<"bindRow", u, e>>>>)
  /\ UNCHANGED <<tables, counters, history>>

BindRow(p) ==
  LET u == Arg(p, 2) e == Arg(p, 3) IN
  /\ At(p, "bindRow")
  /\ IF CanLink(e, u) THEN Link(e, u) ELSE UNCHANGED <<identity, late>>
  /\ Return(p)
  /\ UNCHANGED <<user, userCache, mutex, counters, bootstrapped, provisional, unlinked, cut, misfilled>>

\* DeleteLinkedIdentity.
UnlinkRow(p) ==
  LET u == Arg(p, 2) IN
  /\ At(p, "unlink")
  /\ identity' = [e \in Externs |-> IF identity[e] = u THEN NoUser ELSE identity[e]]
  /\ unlinked' = unlinked \cup {u} \cup {e \in Externs : identity[e] = u}
  /\ Continue(p, <<>>)
  /\ UNCHANGED <<user, userCache, mutex, counters, bootstrapped, provisional, late, cut, misfilled>>
-----------------------------------------------------------------------------
(* Failures.                                                               *)

Provisionals(p) == {plan[p][i][2] : i \in {j \in DOMAIN plan[p] : plan[p][j][1] \in {"link", "delete"}}}

\* A statement fails and the handler gives up.
StatementFails(p) ==
  /\ plan[p] # <<>> /\ ~At(p, "link") /\ ~At(p, "set") /\ ~At(p, "uncache")
  /\ mishap < MaxMishap
  /\ mishap' = mishap + 1
  /\ mutex' = IF mutex = p THEN NoUser ELSE mutex
  /\ cut' = cut \cup Provisionals(p)
  /\ Return(p)
  /\ UNCHANGED <<user, identity, userCache, requests, used, bootstrapped, provisional, late, unlinked, misfilled>>

\* The link of a first login fails for another reason: the provisional user
\* is deleted and the sign-in refused.
LinkFails(p) ==
  /\ At(p, "link")
  /\ mishap < MaxMishap
  /\ mishap' = mishap + 1
  /\ plan' = [plan EXCEPT ![p] = <<<<"delete", Arg(p, 2)>>>>]
  /\ UNCHANGED <<tables, requests, used, history>>

\* The process restarts with an empty cache.
ServerDies ==
  /\ mishap < MaxMishap
  /\ mishap' = mishap + 1
  /\ cut' = cut \cup UNION {Provisionals(p) : p \in Handlers}
  /\ plan' = [p \in Handlers |-> <<>>]
  /\ userCache' = [u \in Uids |-> NoUser]
  /\ mutex' = NoUser
  /\ misfilled' = {}
  /\ UNCHANGED <<user, identity, requests, used, bootstrapped, provisional, late, unlinked>>

\* The entry's TTL runs out or the entry is evicted.
ExpireUser(u) ==
  /\ userCache[u] # NoUser
  /\ userCache' = [userCache EXCEPT ![u] = NoUser]
  /\ misfilled' = misfilled \ {u}
  /\ UNCHANGED <<user, identity, mutex, plan, counters, bootstrapped, provisional, late, unlinked, cut>>
-----------------------------------------------------------------------------
(* Requests.                                                               *)

Start(p, ids, ops) ==
  /\ plan[p] = <<>>
  /\ requests < MaxRequests
  /\ ids \cap used = {}
  /\ plan' = [plan EXCEPT ![p] = ops]
  /\ requests' = requests + 1
  /\ used' = used \cup ids
  /\ UNCHANGED <<tables, mishap, history>>

\* An anonymous sign-up, and a user that an administrator creates.
CreateUser(p, u) ==
  \/ Start(p, {u}, <<<<"signUp", u>>>>)
  \/ \E role \in Roles, by \in Uids : user[by] = "ADMIN" /\ Start(p, {u}, <<<<"insert", u, role>>>>)

UpdateUser(p, u, role) == Exists(u) /\ Start(p, {}, <<<<"update", u, role>>>>)

DeleteUser(p, u) == Exists(u) /\ Start(p, {}, <<<<"delete", u>>>>)

\* Single sign-on; u is the id a first login would get.
SsoSignIn(p, u, e) == Start(p, {u}, <<<<"sso", u, e>>>>)

CreateLinkedIdentity(p, u, e) == Exists(u) /\ Start(p, {}, <<<<"bind", u, e>>>>)

DeleteLinkedIdentity(p, u) == IsLinked(u) /\ Start(p, {}, <<<<"unlink", u>>>>)

\* Any request that carries a token of u looks the user up.
Authenticate(p, u) == u \in used /\ Start(p, {}, <<<<"get", u>>>>)

Request(p) ==
  \E u \in Uids :
    \/ CreateUser(p, u) \/ DeleteUser(p, u) \/ DeleteLinkedIdentity(p, u) \/ Authenticate(p, u)
    \/ \E role \in Roles : UpdateUser(p, u, role)
    \/ \E e \in Externs : SsoSignIn(p, u, e) \/ CreateLinkedIdentity(p, u, e)

Statement(p) ==
  \/ CheckFirst(p) \/ First(p) \/ InsertFirst(p) \/ Register(p) \/ Insert(p) \/ UpdateRow(p)
  \/ SetCache(p) \/ GetUser(p) \/ DeleteRow(p) \/ Uncache(p)
  \/ ResolveSSOUser(p) \/ Provision(p) \/ LinkProvisional(p) \/ Winner(p) \/ SignedIn(p)
  \/ Bind(p) \/ BindRow(p) \/ UnlinkRow(p)

AccountNext ==
  \/ \E p \in Handlers : Request(p) \/ Statement(p) \/ StatementFails(p) \/ LinkFails(p)
  \/ \E u \in Uids : ExpireUser(u)
  \/ ServerDies

AccountSpec == AccountInit /\ [][AccountNext]_accountVars
-----------------------------------------------------------------------------
(* Properties.                                                             *)

\* However many sign-ups race on an instance without users, only one of them
\* creates the first administrator.
OneFirstAdmin == Cardinality({u \in bootstrapped : Exists(u)}) <= 1

\* A first single sign-on leaves no user behind that nobody can sign in as:
\* a provisional user is linked, or is about to be linked or deleted, unless
\* its sign-on was cut short or the link was removed later.
NoOrphanUser ==
  \A u \in provisional : Exists(u) =>
    IsLinked(u) \/ Pending("link", u) \/ Pending("delete", u) \/ u \in cut \cup unlinked

\* Whoever signs in with an external account becomes the user this account is
\* linked to, also when two first logins race, unless the link was removed.
SignsInAsLinked ==
  \A p \in Handlers : \A i \in DOMAIN plan[p] : plan[p][i][1] = "signedIn" =>
    identity[plan[p][i][3]] = plan[p][i][2] \/ plan[p][i][3] \in unlinked

\* A link leads to a user that exists, unless it was made while the user was
\* being deleted; such an account can neither sign in nor register again.
LinkedUserExists == \A e \in Externs : identity[e] # NoUser => Exists(identity[e]) \/ e \in late

\* All of it: whichever sign-ups, sign-ons, links and deletions race or are cut
\* short, there is one first administrator, an external account stands for one
\* user, and neither users without a link nor links without a user are left
\* (CreateUserIfNoUsers, resolveSSOUser, bindSSOIdentityToUser).
RacesSettle == OneFirstAdmin /\ NoOrphanUser /\ SignsInAsLinked /\ LinkedUserExists

\* A cached user is the row, or the write that will replace the entry is under
\* way, unless two writers, or a reader and a writer, stored their entries in
\* another order than their statements ran.
CachedUserIsCurrent ==
  \A u \in Uids : userCache[u] \in {NoUser, user[u]} \/ Pending("set", u) \/ Pending("uncache", u) \/ u \in misfilled
=============================================================================
