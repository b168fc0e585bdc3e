---------------------------- MODULE UserSettings ----------------------------
(***************************************************************************)
(* The list-valued settings of one user (refresh tokens, personal access   *)
(* tokens, webhooks) as store/user_setting.go keeps them: one row in the   *)
(* database and one entry in userSettingCache per list.  Every operation   *)
(* reads the whole list through the cache, computes a new one and writes   *)
(* the row and then the cache, without a lock: the requests of one user    *)
(* interleave between these steps.                                         *)
(*                                                                         *)
(* A list is a set of pairs <<item, version>>; version 1 is an item whose  *)
(* contents were updated (a webhook edited, last_used_at of a token).      *)
(***************************************************************************)
EXTENDS Naturals, Sequences, FiniteSets

CONSTANTS
  Procs,      \* goroutines that serve requests of this user
  Items,      \* token or webhook ids
  Programs,   \* the sequences of operations a request may perform
  MaxErrors,  \* bound on database errors
  None        \* no row, no cache entry

VARIABLES
  row,        \* the row of the setting, or None
  cache,      \* the entry of userSettingCache, or None
  proc,       \* the requests under way
  errors,     \* number of database errors so far
  overlapped, \* history: one operation's write fell between the steps of another
  dirty,      \* history: a failed write left its change in the cached object
  overwritten,\* history: items a write dropped without being asked to
  revived     \* history: removed items a write put back

settingVars == <<row, cache, proc, errors, overlapped, dirty, overwritten, revived>>

Lists == SUBSET (Items \X {0, 1})
ItemsOf(list) == {x[1] : x \in list}

\* must: a failure of this operation ends the request with an error.
Ops == [op : {"need", "add", "remove", "update"}, item : Items, must : BOOLEAN]

Idle == [todo |-> <<>>, stage |-> "idle", list |-> {}, failed |-> FALSE]

ASSUME SettingAssumption ==
  /\ \A prog \in Programs : prog # <<>> /\ prog \in Seq(Ops)
  /\ MaxErrors \in Nat
  /\ (\A list \in Lists : list # None) /\ None \notin Procs \cup Items

SettingInit ==
  /\ row = None
  /\ cache = None
  /\ proc = [p \in Procs |-> Idle]
  /\ errors = 0
  /\ overlapped = FALSE
  /\ dirty = FALSE
  /\ overwritten = {}
  /\ revived = {}
-----------------------------------------------------------------------------
(* The list operations: AddUser..., RemoveUser..., UpdatePATLastUsed and   *)
(* UpdateUserWebhook compute the list to write from the list they read.    *)

Added(list, k) == {x \in list : x[1] # k} \cup {<<k, 0>>}
Removed(list, k) == {x \in list : x[1] # k}
Updated(list, k) == {IF x[1] = k THEN <<k, 1>> ELSE x : x \in list}

Apply(o, list) ==
  CASE o.op = "add" -> Added(list, o.item)
    [] o.op = "remove" -> Removed(list, o.item)
    [] o.op = "update" -> Updated(list, o.item)
    [] OTHER -> list

Step(op, k, must) == [op |-> op, item |-> k, must |-> must]

\* The handlers on webhooks and personal access tokens.
CreateUserWebhook(k) == <<Step("add", k, TRUE)>>
UpdateUserWebhook(k) == <<Step("need", k, TRUE), Step("update", k, TRUE)>>
DeleteUserWebhook(k) == <<Step("need", k, TRUE), Step("remove", k, TRUE)>>
CreatePersonalAccessToken(k) == <<Step("add", k, TRUE)>>
DeletePersonalAccessToken(k) == <<Step("remove", k, TRUE)>>

\* ... and the goroutine that a request with such a token leaves behind.
UpdatePATLastUsed(k) == <<Step("update", k, TRUE)>>

SettingPrograms ==
  UNION {{CreateUserWebhook(k), UpdateUserWebhook(k), DeleteUserWebhook(k), CreatePersonalAccessToken(k),
          DeletePersonalAccessToken(k), UpdatePATLastUsed(k)} : k \in Items}

Op(p) == Head(proc[p].todo)

\* The request goes on with its next operation, or ends.
Proceed(p) == IF Len(proc[p].todo) = 1
              THEN [Idle EXCEPT !.failed = proc[p].failed]
              ELSE [proc[p] EXCEPT !.todo = Tail(@), !.stage = "get", !.list = {}]

\* An error reply: the rest of the request is not executed.
Fail(p) == [Idle EXCEPT !.failed = TRUE]

\* The list was read: a lookup ends here, a change goes on to write it.
Got(p, list) ==
  IF Op(p).op # "need" THEN [proc[p] EXCEPT !.stage = "put", !.list = list]
  ELSE IF Op(p).item \in ItemsOf(list) THEN Proceed(p)
  ELSE Fail(p)

Begin(p, prog) ==
  /\ proc[p].stage = "idle"
  /\ proc' = [proc EXCEPT ![p] = [Idle EXCEPT !.todo = prog, !.stage = "get"]]
  /\ UNCHANGED <<row, cache, errors, overlapped, dirty, overwritten, revived>>

\* GetUserSetting, cache hit.  An update changes the cached object in place,
\* before anything is written.
GetCached(p) ==
  /\ proc[p].stage = "get"
  /\ cache # None
  /\ proc' = [proc EXCEPT ![p] = Got(p, cache)]
  /\ cache' = IF Op(p).op = "update" THEN Apply(Op(p), cache) ELSE cache
  /\ overlapped' = (overlapped \/ \E q \in Procs \ {p} : proc[q].stage = "set")
  /\ UNCHANGED <<row, errors, dirty, overwritten, revived>>

\* GetUserSetting, cache miss: the driver lists the row.
GetRow(p) ==
  /\ proc[p].stage = "get"
  /\ cache = None
  /\ proc' = [proc EXCEPT ![p] = IF row = None THEN Got(p, {})
                                 ELSE [proc[p] EXCEPT !.stage = "fill", !.list = row]]
  /\ UNCHANGED <<row, cache, errors, overlapped, dirty, overwritten, revived>>

\* ... and what was listed goes into the cache.  An update changes that object.
Fill(p) ==
  /\ proc[p].stage = "fill"
  /\ cache' = IF Op(p).op = "update" THEN Apply(Op(p), proc[p].list) ELSE proc[p].list
  /\ proc' = [proc EXCEPT ![p] = Got(p, proc[p].list)]
  /\ UNCHANGED <<row, errors, overlapped, dirty, overwritten, revived>>

Reading(q) == proc[q].stage \in {"fill", "put", "set"}

\* UpsertUserSetting writes the row.
Put(p) ==
  LET new == Apply(Op(p), proc[p].list)
      old == IF row = None THEN {} ELSE ItemsOf(row)
  IN /\ proc[p].stage = "put"
     /\ row' = new
     /\ proc' = [proc EXCEPT ![p].stage = "set", ![p].list = new]
     /\ overlapped' = (overlapped \/ \E q \in Procs \ {p} : Reading(q))
     /\ overwritten' = overwritten \cup ((old \ ItemsOf(new)) \ {Op(p).item})
     /\ revived' = revived \cup ((ItemsOf(new) \ old) \ {Op(p).item})
     /\ UNCHANGED <<cache, errors, dirty>>

\* The driver reports an error: some callers give up, others only log it.
PutFails(p) ==
  /\ proc[p].stage = "put"
  /\ errors < MaxErrors
  /\ errors' = errors + 1
  /\ dirty' = (dirty \/ Op(p).op = "update")
  /\ proc' = [proc EXCEPT ![p] = IF Op(p).must THEN Fail(p) ELSE Proceed(p)]
  /\ UNCHANGED <<row, cache, overlapped, overwritten, revived>>

SetNothing(p) ==
  /\ proc[p].stage = "set"
  /\ proc' = [proc EXCEPT ![p] = Proceed(p)]
  /\ UNCHANGED <<row, cache, errors, overlapped, dirty, overwritten, revived>>

\* UpsertUserSetting stores what was written in the cache.
Set(p) ==
  /\ proc[p].stage = "set"
  /\ cache' = proc[p].list
  /\ proc' = [proc EXCEPT ![p] = Proceed(p)]
  /\ UNCHANGED <<row, errors, overlapped, dirty, overwritten, revived>>

\* The entry's TTL runs out or the entry is evicted.
Expire ==
  /\ cache # None
  /\ cache' = None
  /\ UNCHANGED <<row, proc, errors, overlapped, dirty, overwritten, revived>>

\* A new process has an empty cache and no requests; the row stays.
Restart ==
  /\ cache' = None
  /\ proc' = [p \in Procs |-> Idle]
  /\ UNCHANGED <<row, errors, overlapped, dirty, overwritten, revived>>

StoreStep(p) == GetCached(p) \/ GetRow(p) \/ Fill(p) \/ Put(p) \/ PutFails(p) \/ Set(p)

SettingNext ==
  \/ \E p \in Procs, prog \in Programs : Begin(p, prog)
  \/ \E p \in Procs : StoreStep(p)
  \/ Expire
  \/ Restart

SettingSpec == SettingInit /\ [][SettingNext]_settingVars
-----------------------------------------------------------------------------
(* Properties.                                                             *)

\* What the cache holds is the row, or the row as the write under way leaves
\* it.  A failed or crashed request, an eviction or a restart in the middle
\* of any operation does not change that, as long as no other request of the
\* user writes in between and no in-place update failed.
CacheIsRow ==
  ~overlapped /\ ~dirty =>
    \/ cache = None \/ cache = row
    \/ \E p \in Procs : \/ proc[p].stage = "set"
                        \/ proc[p].stage = "put" /\ Op(p).op = "update"

\* Under the same condition no write drops an item it was not asked to
\* remove, and none brings a removed item back.
NothingLostOrRevived == ~overlapped /\ ~dirty => overwritten = {} /\ revived = {}

\* Both: requests that change a list of the user one after the other neither
\* lose, nor revive, nor show an item that is not there (user_setting.go).
SettingsConsistent == CacheIsRow /\ NothingLostOrRevived
=============================================================================
