---------------------------- MODULE UsersProofs -----------------------------
(***************************************************************************)
(* Proofs about UserSettings and Sessions, for any numbers of goroutines,  *)
(* tokens, tabs and browsers and any number of errors and lost replies,    *)
(* and about Accounts, for any numbers of users, external accounts and     *)
(* goroutines and any number of requests and failures.                     *)
(***************************************************************************)
EXTENDS Sessions, Accounts, FiniteSetTheorems, SequenceTheorems, TLAPS

(***************************************************************************)
(* The list of one user.  Unless two requests overlapped or an in-place    *)
(* update failed, a request that is about to write has read the items of   *)
(* the row, and what the cache holds are these items, except while a write *)
(* is between the row and the cache.                                       *)
(***************************************************************************)
Rows == Lists \cup {None}

Goroutine == [todo : Seq(Ops), stage : {"idle", "get", "fill", "put", "set"}, list : Lists, failed : BOOLEAN]

SettingTypeOK ==
    /\ row \in Rows
    /\ cache \in Rows
    /\ proc \in [Procs -> Goroutine]
    /\ \A p \in Procs : proc[p].stage # "idle" => proc[p].todo # <<>>
    /\ overlapped \in BOOLEAN
    /\ dirty \in BOOLEAN
    /\ errors \in Nat
    /\ errors = 0 => ~dirty

RowItems == IF row = None THEN {} ELSE ItemsOf(row)

InStep(p) ==
    /\ proc[p].stage = "fill" => row # None /\ proc[p].list = row
    /\ proc[p].stage = "put" => ItemsOf(proc[p].list) = RowItems
    /\ proc[p].stage = "set" => proc[p].list = row

CacheInStep ==
    cache # None => ItemsOf(cache) = RowItems \/ \E p \in Procs : proc[p].stage = "set"

SettingInv ==
    /\ SettingTypeOK
    /\ SettingsConsistent
    /\ ~overlapped /\ ~dirty => CacheInStep /\ \A p \in Procs : InStep(p)

-----------------------------------------------------------------------------
(***************************************************************************)
(* What the list operations do to the items of a list.                     *)
(***************************************************************************)
LEMMA AddedItems ==
    ASSUME NEW list \in Lists, NEW k \in Items
    PROVE  Added(list, k) \in Lists /\ ItemsOf(Added(list, k)) = ItemsOf(list) \cup {k}
  <1>1. Added(list, k) \in Lists
    BY DEF Added, Lists
  <1>2. ItemsOf(Added(list, k)) = ItemsOf(list) \cup {k}
    <2>1. <<k, 0>> \in Added(list, k) /\ <<k, 0>>[1] = k
      BY DEF Added
    <2> QED
      BY <2>1 DEF Added, ItemsOf
  <1> QED
    BY <1>1, <1>2

LEMMA RemovedItems ==
    ASSUME NEW list \in Lists, NEW k \in Items
    PROVE  Removed(list, k) \in Lists /\ ItemsOf(Removed(list, k)) = ItemsOf(list) \ {k}
  BY DEF Removed, Lists, ItemsOf

LEMMA UpdatedItems ==
    ASSUME NEW list \in Lists, NEW k \in Items
    PROVE  Updated(list, k) \in Lists /\ ItemsOf(Updated(list, k)) = ItemsOf(list)
  <1> DEFINE f(x) == IF x[1] = k THEN <<k, 1>> ELSE x
  <1>1. \A x \in list : f(x) \in Items \X {0, 1} /\ f(x)[1] = x[1]
    BY DEF Lists
  <1>2. Updated(list, k) = {f(x) : x \in list}
    BY DEF Updated
  <1> HIDE DEF f
  <1> QED
    BY <1>1, <1>2 DEF Lists, ItemsOf

\* An operation changes no item but its own.
LEMMA ApplyItems ==
    ASSUME NEW list \in Lists, NEW o \in Ops
    PROVE  /\ Apply(o, list) \in Lists
           /\ ItemsOf(Apply(o, list)) \subseteq ItemsOf(list) \cup {o.item}
           /\ ItemsOf(list) \subseteq ItemsOf(Apply(o, list)) \cup {o.item}
           /\ o.op = "update" => ItemsOf(Apply(o, list)) = ItemsOf(list)
  <1>1. o.item \in Items /\ o.op \in {"need", "add", "remove", "update"}
    BY DEF Ops
  <1> QED
    BY <1>1, AddedItems, RemovedItems, UpdatedItems DEF Apply

\* A request stays well formed when it goes on, ends or fails.
GoesOn(p, r) ==
    /\ r \in Goroutine
    /\ r.stage \in {"idle", "get"}
    /\ r.stage = "get" => r.todo # <<>>

LEMMA NextOp ==
    ASSUME SettingTypeOK, NEW p \in Procs, proc[p].stage # "idle"
    PROVE  Op(p) \in Ops /\ GoesOn(p, Proceed(p)) /\ GoesOn(p, Fail(p))
  <1>1. proc[p].todo \in Seq(Ops) /\ proc[p].todo # <<>> /\ proc[p] \in Goroutine
    BY DEF SettingTypeOK, Goroutine
  <1>2. Op(p) \in Ops
    BY <1>1 DEF Op
  <1>3. <<>> \in Seq(Ops) /\ {} \in Lists /\ Idle \in Goroutine
    BY DEF Lists, Idle, Goroutine
  <1>4. GoesOn(p, Fail(p))
    BY <1>3 DEF GoesOn, Fail, Idle, Goroutine
  <1>5. GoesOn(p, Proceed(p))
    <2>1. CASE Len(proc[p].todo) = 1
      BY <1>1, <1>3, <2>1 DEF GoesOn, Proceed, Idle, Goroutine
    <2>2. CASE Len(proc[p].todo) # 1
      <3>1. Tail(proc[p].todo) \in Seq(Ops) /\ Tail(proc[p].todo) # <<>>
        <4>1. Len(proc[p].todo) \in Nat /\ Len(proc[p].todo) # 0
          BY <1>1
        <4>2. Tail(proc[p].todo) \in Seq(Ops) /\ Len(Tail(proc[p].todo)) = Len(proc[p].todo) - 1
          BY <1>1
        <4>3. Len(Tail(proc[p].todo)) # 0
          BY <2>2, <4>1, <4>2
        <4> QED
          BY <4>2, <4>3, EmptySeq
      <3> QED
        BY <1>1, <1>3, <2>2, <3>1 DEF GoesOn, Proceed, Goroutine
    <2> QED
      BY <2>1, <2>2
  <1> QED
    BY <1>2, <1>4, <1>5

LEMMA GotOne ==
    ASSUME SettingTypeOK, NEW p \in Procs, proc[p].stage # "idle", NEW list \in Lists
    PROVE  \/ GoesOn(p, Got(p, list)) /\ Op(p).op = "need"
           \/ /\ Got(p, list) \in Goroutine
              /\ Got(p, list).stage = "put"
              /\ Got(p, list).list = list
              /\ Got(p, list).todo = proc[p].todo
              /\ Op(p).op # "need"
  <1>1. proc[p] \in Goroutine
    BY DEF SettingTypeOK
  <1> QED
    BY <1>1, NextOp DEF Got, Goroutine

LEMMA SettingInitInv == SettingInit => SettingInv
  <1> SUFFICES ASSUME SettingInit PROVE SettingInv
    OBVIOUS
  <1>1. <<>> \in Seq(Ops) /\ {} \in Lists
    BY DEF Lists
  <1>2. SettingTypeOK
    BY <1>1 DEF SettingInit, SettingTypeOK, Rows, Idle, Goroutine
  <1> QED
    BY <1>2 DEF SettingInit, SettingInv, SettingsConsistent, CacheIsRow, NothingLostOrRevived, CacheInStep, InStep, Idle

(***************************************************************************)
(* One lemma per operation of the store.                                   *)
(***************************************************************************)
LEMMA BeginInv ==
    ASSUME SettingInv, NEW p \in Procs, NEW prog \in Seq(Ops), prog # <<>>, Begin(p, prog) PROVE SettingInv'
  <1> USE DEF SettingInv
  <1>1. {} \in Lists
    BY DEF Lists
  <1>2. SettingTypeOK'
    BY <1>1 DEF SettingTypeOK, Begin, Idle, Goroutine
  <1>3. proc'[p].stage = "get" /\ \A q \in Procs \ {p} : proc'[q] = proc[q]
    BY DEF SettingTypeOK, Begin, Idle
  <1>4. UNCHANGED <<row, cache, overlapped, dirty, overwritten, revived>> /\ proc[p].stage = "idle"
    BY DEF Begin
  <1> QED
    BY <1>2, <1>3, <1>4 DEF SettingsConsistent, CacheIsRow, NothingLostOrRevived, CacheInStep, InStep, RowItems, Op

LEMMA GetCachedInv ==
    ASSUME SettingInv, NEW p \in Procs, GetCached(p) PROVE SettingInv'
  <1> USE DEF SettingInv
  <1>1. cache \in Lists /\ proc[p].stage = "get" /\ Op(p) \in Ops
    BY NextOp DEF GetCached, SettingTypeOK, Rows
  <1>2. /\ cache' = (IF Op(p).op = "update" THEN Apply(Op(p), cache) ELSE cache)
        /\ cache' \in Lists /\ ItemsOf(cache') = ItemsOf(cache)
    BY <1>1, ApplyItems DEF GetCached
  <1>3. proc'[p] = Got(p, cache) /\ \A q \in Procs \ {p} : proc'[q] = proc[q]
    BY DEF SettingTypeOK, GetCached
  <1>4. /\ proc'[p] \in Goroutine
        /\ \/ /\ proc'[p].stage \in {"idle", "get"} /\ Op(p).op = "need"
              /\ proc'[p].stage = "get" => proc'[p].todo # <<>>
           \/ proc'[p].stage = "put" /\ proc'[p].list = cache /\ proc'[p].todo = proc[p].todo
    BY <1>1, <1>3, GotOne DEF GoesOn
  <1>5. SettingTypeOK'
    <2>1. proc' \in [Procs -> Goroutine]
      BY <1>4 DEF SettingTypeOK, GetCached
    <2> QED
      BY <1>1, <1>2, <1>3, <1>4, <2>1 DEF SettingTypeOK, GetCached, Rows
  <1>6. SUFFICES ASSUME ~overlapped', ~dirty'
                 PROVE  (SettingsConsistent /\ CacheInStep /\ \A q \in Procs : InStep(q))'
    BY <1>5 DEF SettingsConsistent, CacheIsRow, NothingLostOrRevived
  <1>7. ~overlapped /\ ~dirty /\ \A q \in Procs : proc[q].stage # "set"
    BY <1>1, <1>6 DEF GetCached, SettingTypeOK
  <1>8. row' = row /\ overwritten' = overwritten /\ revived' = revived /\ ItemsOf(cache) = RowItems
    BY <1>1, <1>7 DEF GetCached, CacheInStep
  <1>9. CacheIsRow'
    <2>1. CASE Op(p).op = "update"
      BY <1>4, <2>1 DEF CacheIsRow, Op
    <2>2. CASE Op(p).op # "update"
      <3>1. cache' = cache
        BY <1>2, <2>2
      <3>2. \A q \in Procs : proc[q].stage = "put" => proc'[q] = proc[q]
        BY <1>1, <1>3
      <3> QED
        BY <1>7, <1>8, <3>1, <3>2 DEF SettingsConsistent, CacheIsRow, Op
    <2> QED
      BY <2>1, <2>2
  <1>10. \A q \in Procs : InStep(q)'
    BY <1>3, <1>4, <1>7, <1>8 DEF InStep, RowItems
  <1> QED
    BY <1>2, <1>7, <1>8, <1>9, <1>10 DEF SettingsConsistent, NothingLostOrRevived, CacheInStep, RowItems

LEMMA GetRowInv ==
    ASSUME SettingInv, NEW p \in Procs, GetRow(p) PROVE SettingInv'
  <1> USE DEF SettingInv
  <1>1. proc[p].stage = "get" /\ proc[p] \in Goroutine /\ proc[p].todo # <<>> /\ {} \in Lists
    BY DEF GetRow, SettingTypeOK, Lists
  <1>2. /\ cache = None /\ UNCHANGED <<row, cache, errors, overlapped, dirty, overwritten, revived>>
        /\ \A q \in Procs \ {p} : proc'[q] = proc[q]
    BY DEF GetRow, SettingTypeOK
  <1>3. /\ proc'[p] \in Goroutine
        /\ proc'[p].stage # "idle" => proc'[p].todo # <<>>
        /\ \/ proc'[p].stage \in {"idle", "get"}
           \/ proc'[p].stage = "put" /\ proc'[p].list = {} /\ row = None
           \/ proc'[p].stage = "fill" /\ proc'[p].list = row /\ row # None
    <2>1. CASE row = None
      <3>1. proc'[p] = Got(p, {})
        BY <2>1 DEF GetRow, SettingTypeOK
      <3> QED
        BY <1>1, <2>1, <3>1, GotOne DEF GoesOn
    <2>2. CASE row # None
      <3>1. proc'[p] = [proc[p] EXCEPT !.stage = "fill", !.list = row] /\ row \in Lists
        BY <2>2 DEF GetRow, SettingTypeOK, Rows
      <3> QED
        BY <1>1, <2>2, <3>1 DEF Goroutine
    <2> QED
      BY <2>1, <2>2
  <1>4. SettingTypeOK'
    <2>1. proc' \in [Procs -> Goroutine]
      BY <1>3 DEF SettingTypeOK, GetRow
    <2> QED
      BY <1>2, <1>3, <2>1 DEF SettingTypeOK
  <1>5. ItemsOf({}) = {}
    BY DEF ItemsOf
  <1> QED
    BY <1>2, <1>3, <1>4, <1>5 DEF SettingsConsistent, CacheIsRow, NothingLostOrRevived, CacheInStep, InStep, RowItems

LEMMA FillInv ==
    ASSUME SettingInv, NEW p \in Procs, Fill(p) PROVE SettingInv'
  <1> USE DEF SettingInv
  <1> DEFINE l == proc[p].list
  <1>1. proc[p].stage = "fill" /\ l \in Lists /\ Op(p) \in Ops
    BY NextOp DEF Fill, SettingTypeOK, Goroutine
  <1>2. /\ cache' = (IF Op(p).op = "update" THEN Apply(Op(p), l) ELSE l)
        /\ cache' \in Lists /\ ItemsOf(cache') = ItemsOf(l)
    BY <1>1, ApplyItems DEF Fill
  <1>3. /\ proc'[p] = Got(p, l) /\ \A q \in Procs \ {p} : proc'[q] = proc[q]
        /\ UNCHANGED <<row, errors, overlapped, dirty, overwritten, revived>>
    BY DEF SettingTypeOK, Fill
  <1>4. /\ proc'[p] \in Goroutine
        /\ \/ /\ proc'[p].stage \in {"idle", "get"} /\ Op(p).op = "need"
              /\ proc'[p].stage = "get" => proc'[p].todo # <<>>
           \/ proc'[p].stage = "put" /\ proc'[p].list = l /\ proc'[p].todo = proc[p].todo
    BY <1>1, <1>3, GotOne DEF GoesOn
  <1>5. SettingTypeOK'
    <2>1. proc' \in [Procs -> Goroutine]
      BY <1>4 DEF SettingTypeOK, Fill
    <2> QED
      BY <1>1, <1>2, <1>3, <1>4, <2>1 DEF SettingTypeOK, Rows
  <1>6. SUFFICES ASSUME ~overlapped, ~dirty
                 PROVE  (SettingsConsistent /\ CacheInStep /\ \A q \in Procs : InStep(q))'
    BY <1>3, <1>5 DEF SettingsConsistent, CacheIsRow, NothingLostOrRevived
  <1>7. l = row /\ row # None
    BY <1>1, <1>6 DEF InStep
  <1>8. CacheIsRow'
    BY <1>2, <1>3, <1>4, <1>7 DEF CacheIsRow, Op
  <1>9. \A q \in Procs : InStep(q)'
    BY <1>3, <1>4, <1>6, <1>7 DEF InStep, RowItems
  <1> QED
    BY <1>2, <1>3, <1>6, <1>7, <1>8, <1>9 DEF SettingsConsistent, NothingLostOrRevived, CacheInStep, RowItems

LEMMA PutInv ==
    ASSUME SettingInv, NEW p \in Procs, Put(p) PROVE SettingInv'
  <1> USE DEF SettingInv
  <1> DEFINE new == Apply(Op(p), proc[p].list)
  <1>1. proc[p].stage = "put" /\ proc[p] \in Goroutine /\ Op(p) \in Ops /\ new \in Lists /\ new # None
    BY NextOp, ApplyItems, SettingAssumption DEF Put, SettingTypeOK, Goroutine
  <1>2. /\ row' = new /\ UNCHANGED <<cache, errors, dirty>>
        /\ proc'[p] = [proc[p] EXCEPT !.stage = "set", !.list = new]
        /\ \A q \in Procs \ {p} : proc'[q] = proc[q]
    BY DEF SettingTypeOK, Put
  <1>3. SettingTypeOK'
    <2>1. proc'[p] \in Goroutine /\ proc'[p].todo = proc[p].todo
      BY <1>1, <1>2 DEF Goroutine
    <2>2. proc' \in [Procs -> Goroutine]
      BY <2>1 DEF SettingTypeOK, Put
    <2> QED
      BY <1>1, <1>2, <2>1, <2>2 DEF SettingTypeOK, Put, Rows
  <1>4. SUFFICES ASSUME ~overlapped', ~dirty'
                 PROVE  (SettingsConsistent /\ CacheInStep /\ \A q \in Procs : InStep(q))'
    BY <1>3 DEF SettingsConsistent, CacheIsRow, NothingLostOrRevived
  <1>5. ~overlapped /\ ~dirty /\ \A q \in Procs \ {p} : ~Reading(q)
    <2>1. overlapped' = (overlapped \/ \E q \in Procs \ {p} : Reading(q))
      BY DEF Put
    <2> QED
      BY <1>2, <1>4, <2>1
  <1>6. proc'[p].stage = "set" /\ proc'[p].list = row'
    BY <1>1, <1>2 DEF Goroutine
  <1>7. \A q \in Procs : InStep(q)'
    BY <1>2, <1>5, <1>6 DEF InStep, Reading
  <1>8. overwritten' = {} /\ revived' = {}
    <2>1. ItemsOf(proc[p].list) = RowItems
      BY <1>1, <1>5 DEF InStep
    <2>2. overwritten = {} /\ revived = {}
      BY <1>5 DEF SettingsConsistent, NothingLostOrRevived
    <2>3. ItemsOf(new) \subseteq RowItems \cup {Op(p).item} /\ RowItems \subseteq ItemsOf(new) \cup {Op(p).item}
      BY <1>1, <2>1, ApplyItems DEF Goroutine
    <2> HIDE DEF new
    <2> QED
      BY <2>2, <2>3 DEF Put, RowItems, new
  <1> QED
    BY <1>6, <1>7, <1>8 DEF SettingsConsistent, CacheIsRow, NothingLostOrRevived, CacheInStep

LEMMA PutFailsInv ==
    ASSUME SettingInv, NEW p \in Procs, PutFails(p) PROVE SettingInv'
  <1> USE DEF SettingInv
  <1>1. proc[p].stage = "put" /\ GoesOn(p, Proceed(p)) /\ GoesOn(p, Fail(p))
    BY NextOp DEF PutFails
  <1>2. GoesOn(p, proc'[p]) /\ \A q \in Procs \ {p} : proc'[q] = proc[q]
    BY <1>1 DEF PutFails, SettingTypeOK
  <1>3. SettingTypeOK'
    <2>1. proc' \in [Procs -> Goroutine]
      BY <1>2 DEF SettingTypeOK, PutFails, GoesOn
    <2>2. errors' \in Nat /\ errors' # 0
      BY DEF SettingTypeOK, PutFails
    <2> QED
      BY <1>2, <2>1, <2>2 DEF SettingTypeOK, PutFails, GoesOn
  <1> QED
    BY <1>1, <1>2, <1>3 DEF PutFails, GoesOn, SettingTypeOK, SettingsConsistent, CacheIsRow, NothingLostOrRevived,
                            CacheInStep, InStep, RowItems, Op

LEMMA SetInv ==
    ASSUME SettingInv, NEW p \in Procs, Set(p) PROVE SettingInv'
  <1> USE DEF SettingInv
  <1>1. proc[p].stage = "set" /\ proc[p].list \in Lists /\ proc[p].list # None
    BY SettingAssumption DEF Set, SettingTypeOK, Goroutine
  <1>2. GoesOn(p, proc'[p]) /\ \A q \in Procs \ {p} : proc'[q] = proc[q]
    BY <1>1, NextOp DEF Set, SettingTypeOK
  <1>3. SettingTypeOK'
    <2>1. proc' \in [Procs -> Goroutine]
      BY <1>2 DEF SettingTypeOK, Set, GoesOn
    <2> QED
      BY <1>1, <1>2, <2>1 DEF SettingTypeOK, Set, GoesOn, Rows
  <1> QED
    BY <1>1, <1>2, <1>3 DEF Set, GoesOn, SettingsConsistent, CacheIsRow, NothingLostOrRevived, CacheInStep, InStep,
                            RowItems

\* An eviction or a restart: the row is all that is left.
LEMMA ForgetInv ==
    ASSUME SettingInv, Expire \/ Restart PROVE SettingInv'
  <1>1. Idle \in Goroutine
    BY DEF Idle, Goroutine, Lists
  <1>2. SettingTypeOK'
    <2>1. CASE Expire
      BY <2>1 DEF SettingInv, SettingTypeOK, Expire, Rows
    <2>2. CASE Restart
      <3>1. proc' \in [Procs -> Goroutine] /\ \A q \in Procs : proc'[q].stage = "idle"
        BY <1>1, <2>2 DEF Restart, Idle
      <3> QED
        BY <2>2, <3>1 DEF SettingInv, SettingTypeOK, Restart, Rows
    <2> QED
      BY <2>1, <2>2
  <1> QED
    BY <1>2 DEF SettingInv, Expire, Restart, SettingsConsistent, CacheIsRow, NothingLostOrRevived, CacheInStep, InStep,
                RowItems, Idle

LEMMA SettingStepInv == SettingInv /\ [SettingNext]_settingVars => SettingInv'
  <1> SUFFICES ASSUME SettingInv, [SettingNext]_settingVars PROVE SettingInv'
    OBVIOUS
  <1>1. CASE UNCHANGED settingVars
    BY <1>1 DEF settingVars, SettingInv, SettingTypeOK, SettingsConsistent, CacheIsRow, NothingLostOrRevived,
                CacheInStep, InStep, RowItems, Op
  <1>2. ASSUME NEW p \in Procs, NEW prog \in Programs, Begin(p, prog) PROVE SettingInv'
    BY <1>2, BeginInv, SettingAssumption
  <1>3. ASSUME NEW p \in Procs, StoreStep(p) PROVE SettingInv'
    BY <1>3, GetCachedInv, GetRowInv, FillInv, PutInv, PutFailsInv, SetInv DEF StoreStep
  <1> QED
    BY <1>1, <1>2, <1>3, ForgetInv DEF SettingNext

(***************************************************************************)
(* The lists of a user, for any number of concurrent requests and any list *)
(* of items: requests that do not overlap lose and revive nothing, and the *)
(* cache is the row, whatever fails, expires or restarts in between.       *)
(***************************************************************************)
THEOREM SettingsStayConsistent == SettingSpec => []SettingsConsistent
  <1>1. SettingInv => SettingsConsistent
    BY DEF SettingInv
  <1> QED
    BY <1>1, SettingInitInv, SettingStepInv, PTL DEF SettingSpec

-----------------------------------------------------------------------------
(***************************************************************************)
(* The sessions.  A handler's remaining operations are a suffix of its     *)
(* program; a rotation that goes on to remove its old token has stored the *)
(* new one.  A token id is generated once and stays with one cookie jar,   *)
(* so that no handler but its own removes a token that is still to reach   *)
(* its cookie.                                                             *)
(***************************************************************************)
Tokens == Items \cup {None}

SessionTypeOK ==
    /\ jar \in [Jars -> Tokens]
    /\ tab \in [Tabs -> [mode : {"boot", "in", "out"}, waits : Procs \cup {None}]]
    /\ req \in [Procs -> [kind : {"none", "signin", "refresh", "signout"}, tab : Tabs \cup {None},
                          old : Tokens, new : Tokens]]
    /\ issued \subseteq Items
    /\ stored \subseteq Items
    /\ succ \in [Items -> Tokens]
    /\ lost \in Nat

\* What is left of a handler's operations.
Rotate(old, new) == <<Step("add", new, TRUE), Step("remove", old, FALSE)>>
Removal(old) == <<Step("remove", old, FALSE)>>

ReqInv(p) ==
    LET r == req[p] IN
    /\ r.kind = "none" => r = NoReq
    /\ r.kind # "none" => r.tab \in Tabs
    /\ r.kind = "signin" => r.old = None /\ r.new \in Items
    /\ r.kind = "signout" => r.old \in Items /\ r.new = None
    /\ r.kind = "refresh" => r.old \in Items /\ r.new \in Items

TodoInv(p) ==
    LET r == req[p] IN
    proc[p].stage # "idle" =>
      /\ ~proc[p].failed
      /\ proc[p].stage \in {"put", "set"} => Op(p).op # "need"
      /\ \/ r.kind = "signin" /\ proc[p].todo = SignInOps(r.new)
         \/ r.kind = "signout" /\ proc[p].todo = Removal(r.old)
         \/ r.kind = "refresh" /\ proc[p].todo \in {RefreshOps(r.old, r.new), Rotate(r.old, r.new), Removal(r.old)}

\* The handler has written its new token.
AddDone(p) ==
    \/ req[p].kind = "signin" /\ proc[p].stage \in {"set", "idle"}
    \/ /\ req[p].kind = "refresh"
       /\ \/ proc[p].stage = "set" /\ proc[p].todo = Rotate(req[p].old, req[p].new)
          \/ proc[p].stage # "idle" /\ proc[p].todo = Removal(req[p].old)
          \/ proc[p].stage = "idle" /\ ~proc[p].failed

\* The handler has removed its old token.
DropDone(p) ==
    /\ req[p].kind \in {"refresh", "signout"}
    /\ \/ proc[p].stage = "set" /\ proc[p].todo = Removal(req[p].old)
       \/ proc[p].stage = "idle" /\ ~proc[p].failed

RotateInv(p) == req[p].kind = "refresh" /\ AddDone(p) => req[p].new \in stored

\* Token ids are generated once, and a token stays with one cookie jar.
FreshInv ==
    /\ \A j \in Jars : jar[j] \in issued \cup {None}
    /\ \A p \in Procs : req[p].old \in issued \cup {None} /\ req[p].new \in issued \cup {None}
    /\ \A p \in Procs : req[p].new # None =>
         /\ \A j \in Jars : jar[j] # req[p].new
         /\ \A q \in Procs : req[q].old # req[p].new /\ (q # p => req[q].new # req[p].new)
    /\ \A i, j \in Jars : jar[i] # None /\ jar[i] = jar[j] => i = j
    /\ \A p \in Procs, j \in Jars : jar[j] # None /\ req[p].old = jar[j] => j = JarOf[req[p].tab]

Quiet == lost = 0 /\ errors = 0 /\ ~overlapped

\* Without mishaps every request has a tab that waits for it, a new token
\* that was written is in the row, and so is the token of a cookie unless
\* the request that removed it still has to be answered.
QuietInv ==
    Quiet => /\ \A p \in Procs : req[p].kind # "none" => Waiting(p)
             /\ \A p \in Procs : AddDone(p) => Live(req[p].new)
             /\ \A j \in Jars : jar[j] # None =>
                  Live(jar[j]) \/ \E p \in Procs : DropDone(p) /\ req[p].old = jar[j]

SessionInv ==
    /\ SettingInv
    /\ SessionTypeOK
    /\ \A p \in Procs : ReqInv(p) /\ TodoInv(p) /\ RotateInv(p)
    /\ RotationKeepsASession
    /\ FreshInv
    /\ QuietInv
-----------------------------------------------------------------------------
LEMMA Suffixes ==
    ASSUME NEW old \in Items, NEW new \in Items
    PROVE  /\ SignInOps(new) \in Seq(Ops) /\ SignInOps(new) # <<>> /\ Len(SignInOps(new)) = 1
           /\ Head(SignInOps(new)) = Step("add", new, FALSE)
           /\ Removal(old) \in Seq(Ops) /\ Removal(old) # <<>> /\ Len(Removal(old)) = 1
           /\ Head(Removal(old)) = Step("remove", old, FALSE) /\ SignOutOps(old) = Removal(old)
           /\ Len(Rotate(old, new)) = 2 /\ Tail(Rotate(old, new)) = Removal(old)
           /\ Head(Rotate(old, new)) = Step("add", new, TRUE)
           /\ RefreshOps(old, new) \in Seq(Ops) /\ RefreshOps(old, new) # <<>> /\ Len(RefreshOps(old, new)) = 3
           /\ Tail(RefreshOps(old, new)) = Rotate(old, new)
           /\ Head(RefreshOps(old, new)) = Step("need", old, TRUE)
  <1> DEFINE add == Step("add", new, TRUE)
             logged == Step("add", new, FALSE)
             remove == Step("remove", old, FALSE)
             need == Step("need", old, TRUE)
  <1>1. add \in Ops /\ logged \in Ops /\ remove \in Ops /\ need \in Ops
    BY DEF Step, Ops
  <1> HIDE DEF add, logged, remove, need
  <1>2. <<logged>> \in Seq(Ops) /\ <<logged>> # <<>> /\ Len(<<logged>>) = 1 /\ Head(<<logged>>) = logged
    BY <1>1
  <1>3. <<remove>> \in Seq(Ops) /\ <<remove>> # <<>> /\ Len(<<remove>>) = 1 /\ Head(<<remove>>) = remove
    BY <1>1
  <1>4. Len(<<add, remove>>) = 2 /\ Head(<<add, remove>>) = add /\ Tail(<<add, remove>>) = <<remove>>
    BY <1>1
  <1>5. /\ <<need, add, remove>> \in Seq(Ops) /\ <<need, add, remove>> # <<>> /\ Len(<<need, add, remove>>) = 3
        /\ Head(<<need, add, remove>>) = need /\ Tail(<<need, add, remove>>) = <<add, remove>>
    BY <1>1
  <1> QED
    BY <1>2, <1>3, <1>4, <1>5
    DEF SignInOps, SignOutOps, Removal, Rotate, RefreshOps, add, logged, remove, need

(***************************************************************************)
(* The store under the sessions.                                           *)
(***************************************************************************)
LEMMA SendSetting ==
    ASSUME SettingInv, SessionTypeOK, NEW t \in Tabs, NEW p \in Procs, NEW k \in Items,
           SignIn(t, p, k) \/ Refresh(t, p, k) \/ SignOut(t, p)
    PROVE  SettingInv'
  <1>1. ASSUME jar[JarOf[t]] # None PROVE jar[JarOf[t]] \in Items
    BY <1>1, SessionAssumption DEF SessionTypeOK, Tokens
  <1>2. PICK prog \in Seq(Ops) : prog # <<>> /\ Begin(p, prog)
    <2>1. CASE SignIn(t, p, k)
      BY <2>1, Suffixes DEF SignIn, Send
    <2>2. CASE Refresh(t, p, k)
      BY <2>2, <1>1, Suffixes DEF Refresh, Send
    <2>3. CASE SignOut(t, p)
      BY <2>3, <1>1, Suffixes DEF SignOut, Send
    <2> QED
      BY <2>1, <2>2, <2>3
  <1> QED
    BY <1>2, BeginInv

LEMMA SessionSetting ==
    ASSUME SettingInv, SessionTypeOK, [SessionNext]_allVars PROVE SettingInv'
  <1>1. CASE UNCHANGED settingVars
    BY <1>1, SettingStepInv
  <1>2. ASSUME NEW t \in Tabs, BootSignedOut(t) \/ LoseReply(t) \/ Reload(t) PROVE UNCHANGED settingVars
    BY <1>2 DEF BootSignedOut, LoseReply, Reload
  <1>3. ASSUME NEW p \in Procs, Reply(p) \/ Unread(p) PROVE UNCHANGED settingVars
    BY <1>3 DEF Reply, Unread
  <1>4. ASSUME NEW p \in Procs, WriteTokens(p) \/ OtherStoreStep(p) PROVE SettingInv'
    BY <1>4, GetCachedInv, GetRowInv, FillInv, PutInv, PutFailsInv, SetInv DEF WriteTokens, OtherStoreStep
  <1>5. ASSUME NEW t \in Tabs, NEW p \in Procs, SignOut(t, p) PROVE SettingInv'
    <2>1. jar[JarOf[t]] \in Items
      BY <1>5, SessionAssumption DEF SignOut, SessionTypeOK, Tokens
    <2> QED
      BY <1>5, <2>1, SendSetting
  <1>6. CASE UNCHANGED allVars
    BY <1>6, <1>1 DEF allVars
  <1> QED
    BY <1>1, <1>2, <1>3, <1>4, <1>5, <1>6, SendSetting, ForgetInv DEF SessionNext, Crash

(***************************************************************************)
(* The types of the sessions.                                              *)
(***************************************************************************)
LEMMA SendType ==
    ASSUME SessionTypeOK, NEW t \in Tabs, NEW p \in Procs, NEW k \in Items,
           SignIn(t, p, k) \/ Refresh(t, p, k) \/ SignOut(t, p)
    PROVE  /\ SessionTypeOK'
           /\ \A q \in Procs \ {p} : req'[q] = req[q]
           /\ req'[p].tab = t /\ req[p] = NoReq /\ tab[t].waits = None /\ tab'[t].waits = p
           /\ \A u \in Tabs \ {t} : tab'[u] = tab[u]
           /\ UNCHANGED <<jar, lost, stored, succ, revoked>>
           /\ \/ /\ SignIn(t, p, k) /\ req'[p].kind = "signin" /\ req'[p].old = None
                 /\ req'[p].new = k /\ k \notin issued /\ issued' = issued \cup {k}
              \/ /\ Refresh(t, p, k) /\ req'[p].kind = "refresh" /\ req'[p].old = jar[JarOf[t]]
                 /\ jar[JarOf[t]] \in Items /\ req'[p].new = k /\ k \notin issued /\ issued' = issued \cup {k}
              \/ /\ SignOut(t, p) /\ req'[p].kind = "signout" /\ req'[p].old = jar[JarOf[t]]
                 /\ jar[JarOf[t]] \in Items /\ req'[p].new = None /\ issued' = issued
  <1> USE DEF SessionTypeOK, Tokens
  <1>1. k # None /\ JarOf[t] \in Jars
    BY SettingAssumption, SessionAssumption
  <1>2. CASE SignIn(t, p, k)
    BY <1>1, <1>2 DEF SignIn, Send
  <1>3. CASE Refresh(t, p, k)
    BY <1>1, <1>3 DEF Refresh, Send
  <1>4. CASE SignOut(t, p)
    BY <1>1, <1>4 DEF SignOut, Send
  <1> QED
    BY <1>2, <1>3, <1>4

\* A reply frees the goroutine and its tab; it changes the cookie unless it
\* is the reply of a failed refresh.
LEMMA ReplyType ==
    ASSUME SessionTypeOK, NEW p \in Procs, ReqInv(p), Reply(p)
    PROVE  /\ SessionTypeOK'
           /\ req[p].tab \in Tabs /\ tab[req[p].tab].waits = p
           /\ req'[p] = NoReq /\ \A q \in Procs \ {p} : req'[q] = req[q]
           /\ tab'[req[p].tab].waits = None /\ \A u \in Tabs \ {req[p].tab} : tab'[u] = tab[u]
           /\ UNCHANGED <<settingVars, issued, lost, stored, succ, revoked>>
           /\ proc[p].stage = "idle" /\ req[p].kind # "none"
           /\ \/ req[p].kind = "refresh" /\ proc[p].failed /\ jar' = jar
              \/ /\ req[p].kind # "refresh" \/ ~proc[p].failed
                 /\ jar' = [jar EXCEPT ![JarOf[req[p].tab]] = req[p].new]
  <1> USE DEF SessionTypeOK, Tokens
  <1> DEFINE r == req[p]
  <1>1. r.kind # "none" /\ r.tab \in Tabs /\ tab[r.tab].waits = p /\ JarOf[r.tab] \in Jars
    BY SessionAssumption DEF Reply, ReqInv, Waiting
  <1> DEFINE m == IF r.kind = "signout" THEN "out"
                  ELSE IF r.kind # "refresh" \/ ~proc[p].failed THEN "in" ELSE AfterFailure(tab[r.tab].mode)
  <1>2. m \in {"boot", "in", "out"} /\ tab' = [tab EXCEPT ![r.tab] = [mode |-> m, waits |-> None]]
    <2>1. m \in {"boot", "in", "out"}
      BY <1>1 DEF AfterFailure
    <2>2. tab' = [tab EXCEPT ![r.tab] = [mode |-> m, waits |-> None]]
      BY DEF Reply
    <2> QED
      BY <2>1, <2>2
  <1> HIDE DEF m
  <1>3. req' = [req EXCEPT ![p] = NoReq]
    BY DEF Reply
  <1>4. \/ r.kind = "refresh" /\ proc[p].failed /\ jar' = jar
        \/ (r.kind # "refresh" \/ ~proc[p].failed) /\ jar' = [jar EXCEPT ![JarOf[r.tab]] = r.new]
    BY DEF Reply
  <1>5. UNCHANGED <<settingVars, issued, lost, stored, succ, revoked>> /\ proc[p].stage = "idle"
    BY DEF Reply
  <1>6. jar' \in [Jars -> Items \cup {None}]
    BY <1>1, <1>4
  <1>7. tab' \in [Tabs -> [mode : {"boot", "in", "out"}, waits : Procs \cup {None}]]
    BY <1>1, <1>2
  <1>8. NoReq \in [kind : {"none", "signin", "refresh", "signout"}, tab : Tabs \cup {None},
                   old : Items \cup {None}, new : Items \cup {None}]
    BY DEF NoReq
  <1>9. SessionTypeOK'
    BY <1>3, <1>5, <1>6, <1>7, <1>8
  <1> QED
    BY <1>1, <1>2, <1>3, <1>4, <1>5, <1>9

\* Lost replies, page loads, an unread reply, an eviction and a crash.
OtherStep ==
    \/ \E t \in Tabs : BootSignedOut(t) \/ LoseReply(t) \/ Reload(t)
    \/ \E p \in Procs : Unread(p)
    \/ Crash
    \/ (Expire /\ UNCHANGED sessionVars)
    \/ UNCHANGED allVars

LEMMA OtherType ==
    ASSUME SessionTypeOK, OtherStep PROVE SessionTypeOK'
  <1> USE DEF SessionTypeOK
  <1>1. ASSUME NEW t \in Tabs, BootSignedOut(t) PROVE SessionTypeOK'
    BY <1>1 DEF BootSignedOut
  <1>2. ASSUME NEW t \in Tabs, LoseReply(t) PROVE SessionTypeOK'
    <2>1. tab' \in [Tabs -> [mode : {"boot", "in", "out"}, waits : Procs \cup {None}]]
      BY <1>2 DEF LoseReply, AfterFailure
    <2> QED
      BY <1>2, <2>1 DEF LoseReply
  <1>3. ASSUME NEW t \in Tabs, Reload(t) PROVE SessionTypeOK'
    <2>1. tab' \in [Tabs -> [mode : {"boot", "in", "out"}, waits : Procs \cup {None}]]
      BY <1>3 DEF Reload
    <2> QED
      BY <1>3, <2>1 DEF Reload
  <1>4. NoReq \in [kind : {"none", "signin", "refresh", "signout"}, tab : Tabs \cup {None},
                   old : Tokens, new : Tokens]
    BY DEF NoReq, Tokens
  <1>5. ASSUME NEW p \in Procs, Unread(p) PROVE SessionTypeOK'
    BY <1>4, <1>5 DEF Unread
  <1>6. CASE Crash
    <2>1. ASSUME NEW u \in Tabs PROVE tab'[u] \in [mode : {"boot", "in", "out"}, waits : Procs \cup {None}]
      <3>1. tab[u] \in [mode : {"boot", "in", "out"}, waits : Procs \cup {None}]
        OBVIOUS
      <3>2. tab'[u] = tab[u] \/ \E m \in {"boot", "out"} : tab'[u] = [waits |-> None, mode |-> m]
        BY <1>6 DEF Crash, AfterFailure
      <3> QED
        BY <3>1, <3>2
    <2>2. tab' \in [Tabs -> [mode : {"boot", "in", "out"}, waits : Procs \cup {None}]]
      BY <1>6, <2>1 DEF Crash
    <2> QED
      BY <1>4, <1>6, <2>2 DEF Crash
  <1> QED
    BY <1>1, <1>2, <1>3, <1>5, <1>6 DEF OtherStep, allVars, sessionVars

LEMMA WriteTokensType ==
    ASSUME SettingTypeOK, SessionTypeOK, NEW p \in Procs, WriteTokens(p)
    PROVE  SessionTypeOK' /\ UNCHANGED <<jar, tab, req, issued, lost>>
  <1>1. Op(p).item \in Items
    BY NextOp DEF WriteTokens, Put, Ops
  <1> QED
    BY <1>1 DEF SessionTypeOK, Tokens, WriteTokens

-----------------------------------------------------------------------------
(***************************************************************************)
(* Tokens are generated once and stay with one jar.                        *)
(***************************************************************************)
LEMMA SendFresh ==
    ASSUME SessionTypeOK, FreshInv, NEW t \in Tabs, NEW p \in Procs, NEW k \in Items,
           SignIn(t, p, k) \/ Refresh(t, p, k) \/ SignOut(t, p)
    PROVE  FreshInv'
  <1>1. JarOf[t] \in Jars /\ k # None
    BY SettingAssumption, SessionAssumption
  <1>2. /\ req'[p].tab = t /\ req[p] = NoReq /\ jar' = jar /\ issued \subseteq issued'
        /\ \A q \in Procs \ {p} : req'[q] = req[q]
        /\ req'[p].old = None \/ req'[p].old = jar[JarOf[t]]
        /\ req'[p].new = None \/ (req'[p].new = k /\ k \notin issued /\ k \in issued')
    BY SendType
  <1> QED
    BY <1>1, <1>2 DEF FreshInv

LEMMA ReplyFresh ==
    ASSUME SessionTypeOK, FreshInv, NEW p \in Procs, ReqInv(p), Reply(p)
    PROVE  FreshInv'
  <1> DEFINE j0 == JarOf[req[p].tab]
  <1>1. /\ req'[p].old = None /\ req'[p].new = None /\ \A q \in Procs \ {p} : req'[q] = req[q]
        /\ issued' = issued /\ j0 \in Jars
        /\ jar' = jar \/ jar' = [jar EXCEPT ![j0] = req[p].new]
    BY ReplyType, SessionAssumption DEF NoReq
  <1>2. CASE jar' = jar
    BY <1>1, <1>2 DEF FreshInv
  <1>3. CASE jar' = [jar EXCEPT ![j0] = req[p].new]
    <2>1. jar'[j0] = req[p].new /\ \A j \in Jars \ {j0} : jar'[j] = jar[j]
      BY <1>1, <1>3 DEF SessionTypeOK
    <2> HIDE DEF j0
    <2> QED
      BY <1>1, <2>1 DEF FreshInv
  <1> QED
    BY <1>1, <1>2, <1>3

LEMMA OtherFresh ==
    ASSUME FreshInv, SessionTypeOK, OtherStep PROVE FreshInv'
  <1>1. /\ UNCHANGED <<jar, issued>>
        /\ \A q \in Procs : req'[q] = req[q] \/ (req'[q].old = None /\ req'[q].new = None)
    BY DEF OtherStep, BootSignedOut, LoseReply, Reload, Unread, Crash, NoReq, SessionTypeOK, allVars, sessionVars
  <1> QED
    BY <1>1 DEF FreshInv

-----------------------------------------------------------------------------
(***************************************************************************)
(* The handlers: what a step of the store does to a request.               *)
(***************************************************************************)
Keeps(p) ==
    /\ proc[p].stage \in {"get", "fill"}
    /\ proc'[p].todo = proc[p].todo /\ proc'[p].failed = proc[p].failed
    /\ proc'[p].stage \in {"fill", "put"}
    /\ proc'[p].stage = "put" => Op(p).op # "need"

Proceeds(p) ==
    /\ proc'[p] = Proceed(p)
    /\ \/ Op(p).op = "need" /\ proc[p].stage \in {"get", "fill"}
       \/ proc[p].stage = "set"
       \/ proc[p].stage = "put" /\ ~Op(p).must /\ errors' # 0

Fails(p) ==
    /\ proc'[p] = Fail(p)
    /\ \/ Op(p).op = "need" /\ proc[p].stage \in {"get", "fill"}
       \/ Op(p).must /\ proc[p].stage = "put"

LEMMA StepShape ==
    ASSUME SettingTypeOK, NEW p \in Procs, OtherStoreStep(p)
    PROVE  /\ proc[p].stage # "idle" /\ row' = row /\ UNCHANGED sessionVars
           /\ \A q \in Procs \ {p} : proc'[q] = proc[q]
           /\ Keeps(p) \/ Proceeds(p) \/ Fails(p)
  <1> USE DEF SettingTypeOK
  <1>1. proc[p].stage # "idle" /\ row' = row /\ UNCHANGED sessionVars /\ \A q \in Procs \ {p} : proc'[q] = proc[q]
    BY DEF OtherStoreStep, GetCached, GetRow, Fill, Set, PutFails
  <1> SUFFICES Keeps(p) \/ Proceeds(p) \/ Fails(p)
    BY <1>1
  <1>2. ASSUME NEW list, proc'[p] = Got(p, list), proc[p].stage \in {"get", "fill"}
        PROVE  Keeps(p) \/ Proceeds(p) \/ Fails(p)
    <2>1. proc[p] \in Goroutine
      OBVIOUS
    <2>2. CASE Op(p).op # "need"
      <3>1. proc'[p] = [proc[p] EXCEPT !.stage = "put", !.list = list]
        BY <1>2, <2>2 DEF Got
      <3> QED
        BY <1>2, <2>1, <2>2, <3>1 DEF Keeps, Goroutine
    <2>3. CASE Op(p).op = "need"
      BY <1>2, <2>3 DEF Got, Proceeds, Fails
    <2> QED
      BY <2>2, <2>3
  <1>3. CASE GetCached(p)
    BY <1>2, <1>3 DEF GetCached
  <1>4. CASE GetRow(p)
    <2>1. proc[p].stage = "get" /\ proc[p] \in Goroutine
      BY <1>4 DEF GetRow
    <2>2. CASE row = None
      BY <1>2, <1>4, <2>1, <2>2 DEF GetRow
    <2>3. CASE row # None
      <3>1. proc'[p] = [proc[p] EXCEPT !.stage = "fill", !.list = row]
        BY <1>4, <2>3 DEF GetRow
      <3> QED
        BY <2>1, <3>1 DEF Keeps, Goroutine
    <2> QED
      BY <2>2, <2>3
  <1>5. CASE Fill(p)
    BY <1>2, <1>5 DEF Fill
  <1>6. CASE Set(p)
    BY <1>6 DEF Set, Proceeds
  <1>7. CASE PutFails(p)
    <2>1. errors' # 0 /\ proc[p].stage = "put" /\ proc'[p] = IF Op(p).must THEN Fail(p) ELSE Proceed(p)
      BY <1>7 DEF PutFails
    <2> QED
      BY <2>1 DEF Proceeds, Fails
  <1> QED
    BY <1>3, <1>4, <1>5, <1>6, <1>7 DEF OtherStoreStep

\* The operations that are left after one is done.
LEMMA ProceedOps ==
    ASSUME SettingTypeOK, NEW p \in Procs, ReqInv(p), TodoInv(p), proc[p].stage # "idle"
    PROVE  LET r == req[p]
               d == Proceed(p) IN
           \/ /\ r.kind \in {"signin", "signout"} \/ (r.kind = "refresh" /\ proc[p].todo = Removal(r.old))
              /\ d.stage = "idle" /\ ~d.failed
           \/ /\ r.kind = "refresh" /\ proc[p].todo = Rotate(r.old, r.new)
              /\ d.stage = "get" /\ ~d.failed /\ d.todo = Removal(r.old)
           \/ /\ r.kind = "refresh" /\ proc[p].todo = RefreshOps(r.old, r.new)
              /\ d.stage = "get" /\ ~d.failed /\ d.todo = Rotate(r.old, r.new)
  <1> DEFINE r == req[p]
             d == Proceed(p)
  <1>1. proc[p] \in Goroutine /\ ~proc[p].failed
    BY DEF SettingTypeOK, TodoInv
  <1>2. ASSUME Len(proc[p].todo) = 1 PROVE d.stage = "idle" /\ ~d.failed
    BY <1>1, <1>2 DEF Proceed, Idle
  <1>3. ASSUME Len(proc[p].todo) # 1 PROVE d.stage = "get" /\ ~d.failed /\ d.todo = Tail(proc[p].todo)
    BY <1>1, <1>3 DEF Proceed, Goroutine
  <1>4. CASE r.kind = "signin" /\ proc[p].todo = SignInOps(r.new)
    BY <1>2, <1>4, Suffixes DEF ReqInv
  <1>5. CASE r.kind = "signout" /\ proc[p].todo = Removal(r.old)
    BY <1>2, <1>5, Suffixes DEF ReqInv
  <1>6. CASE r.kind = "refresh" /\ proc[p].todo = Removal(r.old)
    BY <1>2, <1>6, Suffixes DEF ReqInv
  <1>7. CASE r.kind = "refresh" /\ proc[p].todo = Rotate(r.old, r.new)
    <2>1. r.old \in Items /\ r.new \in Items
      BY <1>7 DEF ReqInv
    <2>2. Len(proc[p].todo) = 2 /\ Tail(proc[p].todo) = Removal(r.old)
      BY <1>7, <2>1, Suffixes
    <2>3. d.stage = "get" /\ ~d.failed /\ d.todo = Removal(r.old)
      BY <1>3, <2>2
    <2> QED
      BY <1>7, <2>3
  <1>8. CASE r.kind = "refresh" /\ proc[p].todo = RefreshOps(r.old, r.new)
    <2>1. r.old \in Items /\ r.new \in Items
      BY <1>8 DEF ReqInv
    <2>2. Len(proc[p].todo) = 3 /\ Tail(proc[p].todo) = Rotate(r.old, r.new)
      BY <1>8, <2>1, Suffixes
    <2>3. d.stage = "get" /\ ~d.failed /\ d.todo = Rotate(r.old, r.new)
      BY <1>3, <2>2
    <2> QED
      BY <1>8, <2>3
  <1> QED
    BY <1>4, <1>5, <1>6, <1>7, <1>8 DEF TodoInv

LEMMA OtherStoreStepOps ==
    ASSUME SettingTypeOK, NEW p \in Procs, ReqInv(p), TodoInv(p), OtherStoreStep(p)
    PROVE  /\ TodoInv(p)'
           /\ AddDone(p)' => AddDone(p) \/ (errors' # 0 /\ req[p].kind = "signin")
           /\ DropDone(p) => DropDone(p)'
  <1> DEFINE r == req[p]
  <1>1. req' = req /\ proc[p].stage # "idle" /\ (Keeps(p) \/ Proceeds(p) \/ Fails(p))
    BY StepShape DEF sessionVars
  <1>2. CASE Keeps(p)
    BY <1>1, <1>2 DEF Keeps, TodoInv, AddDone, DropDone, Op
  <1>3. CASE Fails(p)
    <2>1. proc'[p].stage = "idle" /\ proc'[p].failed
      BY <1>3 DEF Fails, Fail, Idle
    <2>2. proc[p].stage # "set"
      BY <1>3 DEF Fails
    <2>3. r.kind # "signin"
      <3>1. CASE r.kind = "signin"
        <4>1. Op(p) = Step("add", r.new, FALSE)
          BY <1>1, <3>1, Suffixes DEF ReqInv, TodoInv, Op
        <4> QED
          BY <1>3, <4>1 DEF Fails, Step
      <3> QED
        BY <3>1
    <2> QED
      BY <1>1, <2>1, <2>2, <2>3 DEF TodoInv, AddDone, DropDone
  <1>4. CASE Proceeds(p)
    <2>1. proc'[p] = Proceed(p)
      BY <1>4 DEF Proceeds
    <2>2. CASE r.kind = "signin"
      <3>1. Op(p) = Step("add", r.new, FALSE)
        BY <1>1, <2>2, Suffixes DEF ReqInv, TodoInv, Op
      <3>2. proc'[p].stage = "idle"
        BY <1>1, <2>1, <2>2, ProceedOps
      <3>3. proc[p].stage = "set" \/ errors' # 0
        BY <1>4, <3>1 DEF Proceeds, Step
      <3> QED
        BY <1>1, <2>2, <3>2, <3>3 DEF TodoInv, AddDone, DropDone
    <2>3. CASE r.kind = "signout"
      <3>1. proc'[p].stage = "idle" /\ ~proc'[p].failed
        BY <1>1, <2>1, <2>3, ProceedOps
      <3> QED
        BY <1>1, <2>3, <3>1 DEF TodoInv, AddDone, DropDone
    <2>4. CASE r.kind = "refresh" /\ proc[p].todo = Removal(r.old)
      <3>1. proc'[p].stage = "idle" /\ ~proc'[p].failed
        <4>1. Len(Removal(r.old)) = 1
          BY <2>4, Suffixes DEF ReqInv
        <4>2. Len(Rotate(r.old, r.new)) = 2 /\ Len(RefreshOps(r.old, r.new)) = 3
          BY <2>4, Suffixes DEF ReqInv
        <4>3. Removal(r.old) # Rotate(r.old, r.new) /\ Removal(r.old) # RefreshOps(r.old, r.new)
          BY <4>1, <4>2
        <4> QED
          BY <1>1, <2>1, <2>4, <4>3, ProceedOps
      <3> QED
        BY <1>1, <2>4, <3>1 DEF TodoInv, AddDone, DropDone
    <2>5. CASE r.kind = "refresh" /\ proc[p].todo = Rotate(r.old, r.new)
      <3>1. r.old \in Items /\ r.new \in Items /\ Rotate(r.old, r.new) # Removal(r.old)
            /\ Rotate(r.old, r.new) # RefreshOps(r.old, r.new)
        <4>1. r.old \in Items /\ r.new \in Items
          BY <2>5 DEF ReqInv
        <4>2. Len(Removal(r.old)) = 1 /\ Len(Rotate(r.old, r.new)) = 2 /\ Len(RefreshOps(r.old, r.new)) = 3
          BY <4>1, Suffixes
        <4> QED
          BY <4>1, <4>2
      <3>2. proc'[p].stage = "get" /\ ~proc'[p].failed /\ proc'[p].todo = Removal(r.old)
        BY <1>1, <2>1, <2>5, <3>1, ProceedOps
      <3>3. Op(p) = Step("add", r.new, TRUE)
        BY <2>5, <3>1, Suffixes DEF Op
      <3>4. proc[p].stage = "set"
        BY <1>4, <3>3 DEF Proceeds, Step
      <3> QED
        BY <1>1, <2>5, <3>1, <3>2, <3>4 DEF TodoInv, AddDone, DropDone
    <2>6. CASE r.kind = "refresh" /\ proc[p].todo = RefreshOps(r.old, r.new)
      <3>1. /\ RefreshOps(r.old, r.new) # Removal(r.old) /\ Rotate(r.old, r.new) # Removal(r.old)
            /\ Rotate(r.old, r.new) # RefreshOps(r.old, r.new)
        <4>1. r.old \in Items /\ r.new \in Items
          BY <2>6 DEF ReqInv
        <4>2. Len(Removal(r.old)) = 1 /\ Len(Rotate(r.old, r.new)) = 2 /\ Len(RefreshOps(r.old, r.new)) = 3
          BY <4>1, Suffixes
        <4> QED
          BY <4>2
      <3>2. proc'[p].stage = "get" /\ ~proc'[p].failed /\ proc'[p].todo = Rotate(r.old, r.new)
        BY <1>1, <2>1, <2>6, <3>1, ProceedOps
      <3> QED
        BY <1>1, <2>6, <3>1, <3>2 DEF TodoInv, AddDone, DropDone
    <2> QED
      BY <1>1, <2>2, <2>3, <2>4, <2>5, <2>6 DEF TodoInv
  <1> QED
    BY <1>1, <1>2, <1>3, <1>4

\* A write of the row leaves the operations; the removal of a rotation comes
\* after its new token was stored.
LEMMA WriteTokensOps ==
    ASSUME SettingTypeOK, SessionTypeOK, NEW p \in Procs, ReqInv(p), TodoInv(p), RotateInv(p), WriteTokens(p)
    PROVE  /\ ReqInv(p)' /\ TodoInv(p)' /\ RotateInv(p)'
           /\ \A q \in Procs \ {p} : proc'[q] = proc[q]
           /\ req' = req /\ ~DropDone(p) /\ stored \subseteq stored'
           /\ \/ /\ Op(p).op = "add" /\ Op(p).item = req[p].new /\ req[p].kind \in {"signin", "refresh"}
                 /\ stored' = stored \cup {req[p].new} /\ succ' = succ /\ revoked' = revoked
              \/ /\ Op(p).op = "remove" /\ Op(p).item = req[p].old /\ req[p].old \in Items /\ DropDone(p)'
                 /\ stored' = stored
                 /\ \/ /\ req[p].kind = "refresh" /\ req[p].new \in stored /\ AddDone(p)
                       /\ succ' = [succ EXCEPT ![req[p].old] = req[p].new] /\ revoked' = revoked
                    \/ /\ req[p].kind = "signout"
                       /\ succ' = succ /\ revoked' = revoked \cup {req[p].old}
  <1> DEFINE r == req[p]
  <1>1. /\ proc[p].stage = "put" /\ proc[p] \in Goroutine /\ req' = req
        /\ proc'[p].stage = "set" /\ proc'[p].todo = proc[p].todo /\ proc'[p].failed = proc[p].failed
        /\ \A q \in Procs \ {p} : proc'[q] = proc[q]
    BY DEF WriteTokens, Put, SettingTypeOK, Goroutine
  <1>2. ReqInv(p)' /\ TodoInv(p)' /\ ~DropDone(p)
    BY <1>1 DEF ReqInv, TodoInv, DropDone, Op
  <1>3. CASE r.kind = "signin"
    <2>1. Op(p) = Step("add", r.new, FALSE)
      BY <1>1, <1>3, Suffixes DEF ReqInv, TodoInv, Op
    <2> QED
      BY <1>1, <1>2, <1>3, <2>1 DEF RotateInv, WriteTokens, Step
  <1>4. CASE r.kind = "refresh" /\ proc[p].todo = Rotate(r.old, r.new)
    <2>1. Op(p) = Step("add", r.new, TRUE)
      BY <1>4, Suffixes, ZenonT(30) DEF ReqInv, Op
    <2>2. stored' = stored \cup {r.new} /\ succ' = succ /\ revoked' = revoked
      BY <1>4, <2>1 DEF WriteTokens, Step
    <2> QED
      BY <1>1, <1>2, <1>4, <2>1, <2>2 DEF RotateInv, Step
  <1>5. CASE r.kind = "refresh" /\ proc[p].todo = Removal(r.old)
    <2>1. Op(p) = Step("remove", r.old, FALSE) /\ r.old \in Items
      BY <1>5, Suffixes DEF ReqInv, Op
    <2>2. AddDone(p) /\ r.new \in stored
      BY <1>1, <1>5 DEF AddDone, RotateInv
    <2>3. stored' = stored /\ revoked' = revoked /\ succ' = [succ EXCEPT ![r.old] = r.new]
      BY <1>5, <2>1 DEF WriteTokens, Step
    <2> QED
      BY <1>1, <1>2, <1>5, <2>1, <2>2, <2>3 DEF RotateInv, Step, DropDone
  <1>6. CASE r.kind = "signout"
    <2>1. Op(p) = Step("remove", r.old, FALSE) /\ r.old \in Items
      BY <1>1, <1>6, Suffixes DEF ReqInv, TodoInv, Op
    <2>2. stored' = stored /\ revoked' = revoked \cup {r.old} /\ succ' = succ
      BY <1>6, <2>1 DEF WriteTokens, Step
    <2>3. proc[p].todo = Removal(r.old)
      BY <1>1, <1>6 DEF TodoInv
    <2> QED
      BY <1>1, <1>2, <1>6, <2>1, <2>2, <2>3 DEF RotateInv, Step, DropDone
  <1>7. CASE r.kind = "refresh" /\ proc[p].todo = RefreshOps(r.old, r.new)
    <2>1. Op(p) = Step("need", r.old, TRUE)
      BY <1>7, Suffixes DEF ReqInv, Op
    <2> QED
      BY <1>1, <2>1 DEF TodoInv, Step
  <1> QED
    BY <1>1, <1>3, <1>4, <1>5, <1>6, <1>7 DEF TodoInv

-----------------------------------------------------------------------------
(***************************************************************************)
(* The handlers, over every step.                                          *)
(***************************************************************************)
HandlerInv(p) == ReqInv(p) /\ TodoInv(p) /\ RotateInv(p)

\* A handler whose request, operations and history are left alone.
LEMMA HandlerKept ==
    ASSUME NEW q \in Procs, HandlerInv(q), req'[q] = req[q], proc'[q] = proc[q], stored \subseteq stored'
    PROVE  HandlerInv(q)' /\ AddDone(q)' = AddDone(q) /\ DropDone(q)' = DropDone(q)
  BY DEF HandlerInv, ReqInv, TodoInv, RotateInv, AddDone, DropDone, Op

LEMMA NoHandler ==
    ASSUME NEW q \in Procs, req'[q] = NoReq, proc'[q].stage = "idle"
    PROVE  HandlerInv(q)' /\ ~AddDone(q)' /\ ~DropDone(q)'
  BY DEF HandlerInv, ReqInv, TodoInv, RotateInv, AddDone, DropDone, NoReq

LEMMA SendHandlers ==
    ASSUME SettingTypeOK, SessionTypeOK, \A q \in Procs : HandlerInv(q),
           NEW t \in Tabs, NEW p \in Procs, NEW k \in Items,
           SignIn(t, p, k) \/ Refresh(t, p, k) \/ SignOut(t, p)
    PROVE  /\ HandlerInv(p)' /\ ~AddDone(p)' /\ ~DropDone(p)' /\ ~DropDone(p)
           /\ \A q \in Procs \ {p} : proc'[q] = proc[q]
           /\ UNCHANGED <<row, errors, overlapped>>
  <1> DEFINE r == req'[p]
  <1>0. req[p] = NoReq /\ ~DropDone(p)
    BY SendType DEF DropDone, NoReq
  <1>1. /\ \A q \in Procs \ {p} : proc'[q] = proc[q]
        /\ UNCHANGED <<row, errors, overlapped>>
        /\ proc'[p].stage = "get" /\ ~proc'[p].failed
    BY ZenonT(30) DEF SignIn, Refresh, SignOut, Send, Begin, SettingTypeOK, Idle
  <1>2. CASE SignIn(t, p, k)
    <2>1. r.kind = "signin" /\ r.old = None /\ r.new = k /\ r.tab = t
      BY <1>2 DEF SignIn, Send, SessionTypeOK
    <2>2. proc'[p].todo = SignInOps(k)
      BY <1>2 DEF SignIn, Send, Begin, SettingTypeOK, Idle
    <2> QED
      BY <1>0, <1>1, <2>1, <2>2 DEF HandlerInv, ReqInv, TodoInv, RotateInv, AddDone, DropDone
  <1>3. CASE Refresh(t, p, k)
    <2>1. r.kind = "refresh" /\ r.old = jar[JarOf[t]] /\ r.new = k /\ r.tab = t /\ r.old \in Items
      BY <1>3, SessionAssumption DEF Refresh, Send, SessionTypeOK, Tokens
    <2>2. proc'[p].todo = RefreshOps(r.old, r.new)
      BY <1>3, <2>1 DEF Refresh, Send, Begin, SettingTypeOK, Idle
    <2>3. RefreshOps(r.old, r.new) # Removal(r.old)
      <3>1. Len(RefreshOps(r.old, r.new)) = 3 /\ Len(Removal(r.old)) = 1
        BY <2>1, Suffixes
      <3> QED
        BY <3>1
    <2> QED
      BY <1>0, <1>1, <2>1, <2>2, <2>3 DEF HandlerInv, ReqInv, TodoInv, RotateInv, AddDone, DropDone
  <1>4. CASE SignOut(t, p)
    <2>1. r.kind = "signout" /\ r.old = jar[JarOf[t]] /\ r.new = None /\ r.tab = t /\ r.old \in Items
      BY <1>4, SessionAssumption DEF SignOut, Send, SessionTypeOK, Tokens
    <2>2. proc'[p].todo = Removal(r.old)
      BY <1>4, <2>1, Suffixes DEF SignOut, Send, Begin, SettingTypeOK, Idle
    <2> QED
      BY <1>0, <1>1, <2>1, <2>2 DEF HandlerInv, ReqInv, TodoInv, RotateInv, AddDone, DropDone
  <1> QED
    BY <1>2, <1>3, <1>4

LEMMA HandlersStep ==
    ASSUME SettingTypeOK, SessionTypeOK, \A q \in Procs : HandlerInv(q), [SessionNext]_allVars
    PROVE  \A q \in Procs : HandlerInv(q)'
  <1> SUFFICES ASSUME NEW q \in Procs PROVE HandlerInv(q)'
    OBVIOUS
  <1>1. CASE UNCHANGED <<req, proc, stored>>
    BY <1>1, HandlerKept
  <1>2. ASSUME NEW t \in Tabs, NEW p \in Procs, NEW k \in Items, SignIn(t, p, k) \/ Refresh(t, p, k) \/ SignOut(t, p)
        PROVE  HandlerInv(q)'
    BY <1>2, SendType, SendHandlers, HandlerKept
  <1>3. ASSUME NEW t \in Tabs, NEW p \in Procs, SignOut(t, p) PROVE HandlerInv(q)'
    <2>1. jar[JarOf[t]] \in Items
      BY <1>3, SessionAssumption DEF SignOut, SessionTypeOK, Tokens
    <2> QED
      BY <1>2, <1>3, <2>1
  <1>4. ASSUME NEW t \in Tabs, BootSignedOut(t) \/ LoseReply(t) \/ Reload(t) PROVE HandlerInv(q)'
    BY <1>1, <1>4 DEF BootSignedOut, LoseReply, Reload, settingVars
  <1>5. ASSUME NEW p \in Procs, Reply(p) PROVE HandlerInv(q)'
    <2>1. /\ req'[p] = NoReq /\ (q # p => req'[q] = req[q]) /\ stored' = stored /\ proc' = proc
          /\ proc[p].stage = "idle"
      BY <1>5, ReplyType DEF HandlerInv, settingVars
    <2> QED
      BY <2>1, NoHandler, HandlerKept
  <1>6. ASSUME NEW p \in Procs, Unread(p) PROVE HandlerInv(q)'
    <2>1. /\ req'[p] = NoReq /\ (q # p => req'[q] = req[q]) /\ stored' = stored /\ proc' = proc
          /\ proc[p].stage = "idle"
      BY <1>6 DEF Unread, settingVars, SessionTypeOK
    <2> QED
      BY <2>1, NoHandler, HandlerKept
  <1>7. ASSUME NEW p \in Procs, WriteTokens(p) PROVE HandlerInv(q)'
    <2>1. HandlerInv(p)' /\ req' = req /\ stored \subseteq stored' /\ (q # p => proc'[q] = proc[q])
      BY <1>7, WriteTokensOps DEF HandlerInv
    <2> QED
      BY <2>1, HandlerKept
  <1>8. ASSUME NEW p \in Procs, OtherStoreStep(p) PROVE HandlerInv(q)'
    <2>1. UNCHANGED sessionVars /\ (q # p => proc'[q] = proc[q])
      BY <1>8, StepShape
    <2>2. HandlerInv(p)'
      <3>1. TodoInv(p)' /\ (AddDone(p)' => AddDone(p) \/ req[p].kind = "signin")
        BY <1>8, OtherStoreStepOps DEF HandlerInv
      <3>2. ReqInv(p)' /\ req' = req /\ stored' = stored
        BY <2>1 DEF HandlerInv, ReqInv, sessionVars
      <3> QED
        BY <3>1, <3>2 DEF HandlerInv, RotateInv
    <2> QED
      BY <2>1, <2>2, HandlerKept DEF sessionVars
  <1>9. CASE Crash
    <2>1. req'[q] = NoReq /\ proc'[q].stage = "idle"
      BY <1>9 DEF Crash, Restart, Idle
    <2> QED
      BY <2>1, NoHandler
  <1>10. CASE Expire /\ UNCHANGED sessionVars
    BY <1>1, <1>10 DEF Expire, sessionVars
  <1>11. CASE UNCHANGED allVars
    BY <1>1, <1>11 DEF allVars, settingVars, sessionVars
  <1> QED
    BY <1>2, <1>3, <1>4, <1>5, <1>6, <1>7, <1>8, <1>9, <1>10, <1>11 DEF SessionNext

-----------------------------------------------------------------------------
(***************************************************************************)
(* The row after a write.                                                  *)
(***************************************************************************)
LEMMA RowAfterPut ==
    ASSUME SettingInv, NEW p \in Procs, Put(p)
    PROVE  /\ row' # None
           /\ Op(p).op = "add" => \A k \in Items : k = Op(p).item => Live(k)'
           /\ \A k \in Items : Live(k) => Live(k)' \/ k \in overwritten' \/ k = Op(p).item
           /\ ~overlapped' /\ ~dirty' => \A k \in Items : Live(k) => Live(k)' \/ (k = Op(p).item /\ Op(p).op = "remove")
  <1> DEFINE new == Apply(Op(p), proc[p].list)
  <1>1. Op(p) \in Ops /\ Op(p).item \in Items /\ proc[p].list \in Lists /\ proc[p].stage = "put"
    BY NextOp DEF SettingInv, SettingTypeOK, Goroutine, Put, Ops
  <1>2. row' = new /\ new \in Lists /\ new # None
    BY <1>1, ApplyItems, SettingAssumption DEF Put
  <1>3. Op(p).op = "add" => ItemsOf(new) = ItemsOf(proc[p].list) \cup {Op(p).item}
    BY <1>1, AddedItems DEF Apply
  <1>4. overwritten' = overwritten \cup ((RowItems \ ItemsOf(new)) \ {Op(p).item})
    BY DEF Put, RowItems
  <1>5. \A k \in Items : Live(k) <=> k \in RowItems
    BY DEF Live, RowItems
  <1>6. \A k \in Items : Live(k)' <=> k \in ItemsOf(new)
    BY <1>2 DEF Live
  <1>7. ASSUME ~overlapped', ~dirty', NEW k \in Items, k \in RowItems
        PROVE  k \in ItemsOf(new) \/ (k = Op(p).item /\ Op(p).op = "remove")
    <2>1. ~overlapped /\ ~dirty
      <3>1. overlapped' = (overlapped \/ \E q \in Procs \ {p} : Reading(q)) /\ dirty' = dirty
        BY DEF Put
      <3> QED
        BY <1>7, <3>1
    <2>2. ItemsOf(proc[p].list) = RowItems
      BY <1>1, <2>1 DEF SettingInv, InStep
    <2>3. ItemsOf(new) = CASE Op(p).op = "add" -> RowItems \cup {Op(p).item}
                           [] Op(p).op = "remove" -> RowItems \ {Op(p).item}
                           [] OTHER -> RowItems
      BY <1>1, <2>2, AddedItems, RemovedItems, UpdatedItems DEF Apply, Ops
    <2> HIDE DEF new
    <2> QED
      BY <1>7, <2>3
  <1> HIDE DEF new
  <1>8. \A k \in Items : Live(k) => Live(k)' \/ k \in overwritten' \/ k = Op(p).item
    BY <1>4, <1>5, <1>6
  <1>9. Op(p).op = "add" => \A k \in Items : k = Op(p).item => Live(k)'
    BY <1>1, <1>3, <1>6
  <1>10. ~overlapped' /\ ~dirty' => \A k \in Items : Live(k) => Live(k)' \/ (k = Op(p).item /\ Op(p).op = "remove")
    BY <1>5, <1>6, <1>7
  <1> QED
    BY <1>2, <1>8, <1>9, <1>10

\* Rotation: the new token is stored before the old one is removed.
LEMMA RotationStep ==
    ASSUME SettingInv, SessionTypeOK, \A q \in Procs : HandlerInv(q), RotationKeepsASession, [SessionNext]_allVars
    PROVE  RotationKeepsASession'
  <1>1. CASE UNCHANGED <<row, stored, revoked, succ, overwritten>>
    BY <1>1 DEF RotationKeepsASession, Live
  <1>2. ASSUME NEW p \in Procs, WriteTokens(p) PROVE RotationKeepsASession'
    <2>1. /\ Put(p) /\ overwritten \subseteq overwritten' /\ revoked \subseteq revoked' /\ stored \subseteq stored'
      BY <1>2 DEF WriteTokens, Put
    <2>2. SUFFICES ASSUME NEW k \in stored'
                   PROVE  Live(k)' \/ k \in revoked' \cup overwritten' \/ (succ'[k] # None /\ succ'[k] \in stored')
      BY DEF RotationKeepsASession
    <2>3. SettingTypeOK /\ HandlerInv(p)
      BY DEF SettingInv
    <2>4. k \in Items
      BY <1>2, <2>3, WriteTokensType DEF SessionTypeOK
    <2>5. CASE Op(p).op = "add"
      <3>1. stored' = stored \cup {Op(p).item} /\ succ' = succ
        BY <1>2, <2>5 DEF WriteTokens
      <3>2. CASE k = Op(p).item
        BY <2>1, <2>4, <2>5, <3>2, RowAfterPut
      <3>3. CASE k # Op(p).item
        BY <2>1, <2>4, <3>1, <3>3, RowAfterPut DEF RotationKeepsASession
      <3> QED
        BY <3>2, <3>3
    <2>6. CASE Op(p).op # "add"
      <3>1. /\ Op(p).op = "remove" /\ Op(p).item = req[p].old /\ req[p].old \in Items /\ stored' = stored
            /\ \/ /\ req[p].kind = "refresh" /\ req[p].new \in stored
                  /\ succ' = [succ EXCEPT ![req[p].old] = req[p].new]
               \/ /\ req[p].kind = "signout" /\ succ' = succ /\ revoked' = revoked \cup {req[p].old}
        BY <1>2, <2>3, <2>6, WriteTokensOps DEF HandlerInv
      <3>2. CASE k = Op(p).item
        <4>1. req[p].kind = "refresh" => req[p].new # None
          BY <2>3, SettingAssumption DEF HandlerInv, ReqInv
        <4> QED
          BY <3>1, <3>2, <4>1 DEF SessionTypeOK
      <3>3. CASE k # Op(p).item
        <4>1. succ'[k] = succ[k]
          BY <2>4, <3>1, <3>3 DEF SessionTypeOK
        <4> QED
          BY <2>1, <2>4, <3>1, <3>3, <4>1, RowAfterPut DEF RotationKeepsASession
      <3> QED
        BY <3>2, <3>3
    <2> QED
      BY <2>5, <2>6
  <1>3. ASSUME NEW p \in Procs, OtherStoreStep(p) PROVE RotationKeepsASession'
    <2>1. UNCHANGED <<row, stored, revoked, succ>> /\ overwritten' = overwritten
      BY <1>3 DEF OtherStoreStep, sessionVars, GetCached, GetRow, Fill, Set, PutFails
    <2> QED
      BY <1>1, <2>1
  <1>4. ASSUME NEW t \in Tabs, NEW p \in Procs, NEW k \in Items,
               SignIn(t, p, k) \/ Refresh(t, p, k) \/ SignOut(t, p) \/ BootSignedOut(t) \/ LoseReply(t) \/ Reload(t)
               \/ Reply(p) \/ Unread(p)
        PROVE  RotationKeepsASession'
    BY <1>1, <1>4 DEF SignIn, Refresh, SignOut, Send, Begin, BootSignedOut, LoseReply, Reload, Reply, Unread, settingVars
  <1>5. CASE Crash \/ (Expire /\ UNCHANGED sessionVars) \/ UNCHANGED allVars
    BY <1>1, <1>5 DEF Crash, Restart, Expire, sessionVars, settingVars, allVars
  <1>6. ASSUME NEW t \in Tabs, NEW p \in Procs, SignOut(t, p) PROVE RotationKeepsASession'
    BY <1>1, <1>6 DEF SignOut, Send, Begin
  <1>7. ASSUME NEW t \in Tabs, BootSignedOut(t) \/ LoseReply(t) \/ Reload(t) PROVE RotationKeepsASession'
    BY <1>1, <1>7 DEF BootSignedOut, LoseReply, Reload, settingVars
  <1>8. ASSUME NEW p \in Procs, Reply(p) \/ Unread(p) PROVE RotationKeepsASession'
    BY <1>1, <1>8 DEF Reply, Unread, settingVars
  <1> QED
    BY <1>2, <1>3, <1>4, <1>5, <1>6, <1>7, <1>8 DEF SessionNext

-----------------------------------------------------------------------------
(***************************************************************************)
(* Sessions without mishaps.                                               *)
(***************************************************************************)
WaitInv == \A p \in Procs : req[p].kind # "none" => Waiting(p)
NewIsLive == \A p \in Procs : AddDone(p) => Live(req[p].new)
CookieInv == \A j \in Jars : jar[j] # None =>
    Live(jar[j]) \/ \E p \in Procs : DropDone(p) /\ req[p].old = jar[j]

LEMMA SendQuiet ==
    ASSUME SettingTypeOK, SessionTypeOK, \A q \in Procs : HandlerInv(q), QuietInv,
           NEW t \in Tabs, NEW p \in Procs, NEW k \in Items,
           SignIn(t, p, k) \/ Refresh(t, p, k) \/ SignOut(t, p)
    PROVE  QuietInv'
  <1>1. /\ ~AddDone(p)' /\ ~DropDone(p)' /\ ~DropDone(p) /\ \A q \in Procs \ {p} : proc'[q] = proc[q]
        /\ UNCHANGED <<row, errors, overlapped>>
    BY SendHandlers
  <1>2. /\ \A q \in Procs \ {p} : req'[q] = req[q]
        /\ req'[p].tab = t /\ tab[t].waits = None /\ tab'[t].waits = p
        /\ \A u \in Tabs \ {t} : tab'[u] = tab[u]
        /\ UNCHANGED <<jar, lost, stored>>
    BY SendType
  <1> SUFFICES ASSUME Quiet PROVE (WaitInv /\ NewIsLive /\ CookieInv)'
    BY <1>1, <1>2 DEF QuietInv, Quiet, WaitInv, NewIsLive, CookieInv
  <1>3. WaitInv /\ NewIsLive /\ CookieInv
    BY DEF QuietInv, WaitInv, NewIsLive, CookieInv
  <1>4. \A q \in Procs \ {p} : AddDone(q)' = AddDone(q) /\ DropDone(q)' = DropDone(q)
    BY <1>1, <1>2, HandlerKept
  <1>5. WaitInv'
    <2>1. None \notin Tabs /\ None \notin Procs
      BY SettingAssumption, SessionAssumption
    <2>2. ASSUME NEW q \in Procs, q # p, req[q].kind # "none" PROVE Waiting(q)'
      <3>1. req[q].tab \in Tabs /\ req[q].tab # None /\ tab[req[q].tab].waits = q
        BY <1>3, <2>1, <2>2 DEF WaitInv, Waiting, SessionTypeOK
      <3>2. req[q].tab # t
        BY <1>2, <2>1, <3>1
      <3> QED
        BY <1>2, <2>2, <3>1, <3>2 DEF Waiting
    <2>3. Waiting(p)'
      BY <1>2, <2>1 DEF Waiting
    <2> QED
      BY <1>2, <2>2, <2>3 DEF WaitInv
  <1>6. NewIsLive'
    BY <1>1, <1>2, <1>3, <1>4 DEF NewIsLive, Live
  <1>7. CookieInv'
    BY <1>1, <1>2, <1>3, <1>4 DEF CookieInv, Live
  <1> QED
    BY <1>5, <1>6, <1>7

\* The reply brings the cookie a token that is in the row, and takes it away
\* from no other jar.
LEMMA ReplyQuiet ==
    ASSUME SettingTypeOK, SessionTypeOK, \A q \in Procs : HandlerInv(q), FreshInv, QuietInv,
           NEW p \in Procs, Reply(p)
    PROVE  QuietInv'
  <1> DEFINE j0 == JarOf[req[p].tab]
  <1>1. /\ req[p].tab \in Tabs /\ tab[req[p].tab].waits = p
        /\ req'[p] = NoReq /\ \A q \in Procs \ {p} : req'[q] = req[q]
        /\ tab'[req[p].tab].waits = None /\ \A u \in Tabs \ {req[p].tab} : tab'[u] = tab[u]
        /\ UNCHANGED <<settingVars, lost, stored>>
        /\ proc[p].stage = "idle" /\ req[p].kind # "none"
        /\ \/ req[p].kind = "refresh" /\ proc[p].failed /\ jar' = jar
           \/ /\ req[p].kind # "refresh" \/ ~proc[p].failed
              /\ jar' = [jar EXCEPT ![j0] = req[p].new]
    BY ReplyType DEF HandlerInv
  <1> SUFFICES ASSUME Quiet PROVE (WaitInv /\ NewIsLive /\ CookieInv)'
    BY <1>1 DEF QuietInv, Quiet, WaitInv, NewIsLive, CookieInv, settingVars
  <1>2. WaitInv /\ NewIsLive /\ CookieInv
    BY DEF QuietInv, WaitInv, NewIsLive, CookieInv
  <1>3. /\ \A q \in Procs \ {p} : AddDone(q)' = AddDone(q) /\ DropDone(q)' = DropDone(q)
        /\ ~AddDone(p)' /\ ~DropDone(p)'
    BY <1>1, HandlerKept, NoHandler DEF settingVars
  <1>4. WaitInv'
    <2>1. ASSUME NEW q \in Procs, q # p, req[q].kind # "none" PROVE Waiting(q)'
      <3>1. req[q].tab \in Tabs /\ req[q].tab # None /\ tab[req[q].tab].waits = q
        BY <1>2, <2>1, SessionAssumption DEF WaitInv, Waiting, SessionTypeOK
      <3>2. req[q].tab # req[p].tab
        BY <1>1, <2>1, <3>1
      <3> QED
        BY <1>1, <2>1, <3>1, <3>2 DEF Waiting
    <2> QED
      BY <1>1, <2>1 DEF WaitInv, NoReq
  <1>5. NewIsLive'
    BY <1>1, <1>2, <1>3 DEF NewIsLive, Live, settingVars
  <1>6. CookieInv'
    <2>1. CASE jar' = jar /\ ~DropDone(p)
      BY <1>1, <1>2, <1>3, <2>1 DEF CookieInv, Live, settingVars
    <2>2. CASE jar' = jar /\ req[p].kind = "refresh" /\ proc[p].failed
      BY <1>1, <2>1, <2>2 DEF DropDone
    <2>3. CASE jar' = [jar EXCEPT ![j0] = req[p].new] /\ (req[p].kind # "refresh" \/ ~proc[p].failed)
      <3>1. ASSUME req[p].new # None PROVE Live(req[p].new)
        <4>1. req[p].kind \in {"signin", "refresh"}
          BY <1>1, <3>1 DEF HandlerInv, ReqInv, SessionTypeOK
        <4>2. AddDone(p)
          BY <1>1, <2>3, <4>1 DEF AddDone
        <4> QED
          BY <1>2, <4>2 DEF NewIsLive
      <3>2. j0 \in Jars /\ jar'[j0] = req[p].new /\ \A j \in Jars \ {j0} : jar'[j] = jar[j]
        BY <1>1, <2>3, SessionAssumption DEF SessionTypeOK
      <3>3. \A j \in Jars \ {j0} : jar[j] # None => req[p].old # jar[j]
        BY DEF FreshInv
      <3> HIDE DEF j0
      <3>4. ASSUME NEW j \in Jars, jar'[j] # None
            PROVE  Live(jar'[j]) \/ \E q \in Procs : DropDone(q)' /\ req'[q].old = jar'[j]
        <4>1. CASE j = j0
          BY <3>1, <3>2, <3>4, <4>1
        <4>2. CASE j # j0
          <5>1. jar'[j] = jar[j] /\ jar[j] # None
            BY <3>2, <3>4, <4>2
          <5>2. Live(jar[j]) \/ \E q \in Procs : DropDone(q) /\ req[q].old = jar[j]
            BY <1>2, <5>1 DEF CookieInv
          <5> QED
            BY <1>1, <1>3, <3>3, <4>2, <5>1, <5>2
        <4> QED
          BY <4>1, <4>2
      <3> QED
        BY <1>1, <3>4 DEF CookieInv, Live, settingVars
    <2> QED
      BY <1>1, <2>2, <2>3
  <1> QED
    BY <1>4, <1>5, <1>6

\* A write takes no token from the row but the one its handler removes.
LEMMA WriteTokensQuiet ==
    ASSUME SettingInv, SessionTypeOK, \A q \in Procs : HandlerInv(q), FreshInv, QuietInv,
           NEW p \in Procs, WriteTokens(p)
    PROVE  QuietInv'
  <1> USE DEF HandlerInv
  <1>1. SettingTypeOK /\ Put(p) /\ UNCHANGED <<jar, tab, req, issued, lost>>
    BY WriteTokensType DEF SettingInv, WriteTokens
  <1>2. (overlapped => overlapped') /\ errors' = errors /\ dirty' = dirty
    BY <1>1 DEF Put
  <1> SUFFICES ASSUME Quiet, Quiet' PROVE (WaitInv /\ NewIsLive /\ CookieInv)'
    BY <1>1, <1>2 DEF QuietInv, Quiet, WaitInv, NewIsLive, CookieInv
  <1>3. WaitInv /\ NewIsLive /\ CookieInv /\ ~overlapped' /\ ~dirty'
    BY <1>1, <1>2 DEF QuietInv, WaitInv, NewIsLive, CookieInv, Quiet, SettingTypeOK
  <1>4. \A k \in Items : Live(k) => Live(k)' \/ (k = Op(p).item /\ Op(p).op = "remove")
    BY <1>1, <1>3, RowAfterPut
  <1>5. /\ \A q \in Procs \ {p} : proc'[q] = proc[q]
        /\ ~DropDone(p)
        /\ \/ /\ Op(p).op = "add" /\ Op(p).item = req[p].new
           \/ /\ Op(p).op = "remove" /\ Op(p).item = req[p].old /\ req[p].old \in Items /\ DropDone(p)'
              /\ (req[p].kind = "refresh" /\ AddDone(p)) \/ req[p].kind = "signout"
    BY <1>1, WriteTokensOps
  <1>6. \A q \in Procs \ {p} : AddDone(q)' = AddDone(q) /\ DropDone(q)' = DropDone(q)
    BY <1>1, <1>5, HandlerKept DEF WriteTokens
  <1>7. \A q \in Procs : AddDone(q) => req[q].new \in Items /\ req[q].new # None
    BY SettingAssumption DEF AddDone, ReqInv
  <1>8. ASSUME NEW q \in Procs, req[q].new \in Items, Live(req[q].new) PROVE Live(req[q].new)'
    <2>1. req[q].new # None
      BY <1>8, SettingAssumption
    <2>2. req[p].old # req[q].new
      BY <2>1 DEF FreshInv
    <2>3. PICK n \in Items : n = req[q].new
      BY <1>8
    <2>4. Live(n)'
      <3>1. Op(p).op = "remove" => Op(p).item = req[p].old
        BY <1>5
      <3> QED
        BY <1>4, <1>8, <2>2, <2>3, <3>1
    <2> QED
      BY <1>1, <2>3, <2>4
  <1>9. NewIsLive'
    <2>1. SUFFICES ASSUME NEW q \in Procs, AddDone(q)' PROVE Live(req[q].new)'
      BY <1>1 DEF NewIsLive
    <2>2. CASE q # p
      BY <1>3, <1>6, <1>7, <1>8, <2>1, <2>2 DEF NewIsLive
    <2>3. CASE q = p /\ Op(p).op = "add"
      <3>1. PICK n \in Items : n = req[p].new
        BY <1>1, <1>5, <2>3, NextOp DEF Put, Ops
      <3>2. Live(n)'
        BY <1>1, <1>5, <2>3, <3>1, RowAfterPut
      <3> QED
        BY <1>1, <2>3, <3>1, <3>2
    <2>4. CASE q = p /\ Op(p).op = "remove"
      <3>1. AddDone(p)
        <4>1. CASE req[p].kind = "signout"
          BY <1>1, <2>1, <2>4, <4>1 DEF AddDone
        <4> QED
          BY <1>5, <2>4, <4>1
      <3> QED
        BY <1>3, <1>7, <1>8, <2>4, <3>1 DEF NewIsLive
    <2> QED
      BY <1>5, <2>2, <2>3, <2>4
  <1>10. CookieInv'
    <2>1. SUFFICES ASSUME NEW j \in Jars, jar[j] # None
                   PROVE  Live(jar[j])' \/ \E q \in Procs : DropDone(q)' /\ req[q].old = jar[j]
      BY <1>1 DEF CookieInv
    <2>2. PICK k \in Items : k = jar[j]
      BY <2>1 DEF SessionTypeOK, Tokens
    <2>3. CASE Live(k)
      <3>1. CASE Live(k)'
        BY <1>1, <2>2, <3>1
      <3>2. CASE k = Op(p).item /\ Op(p).op = "remove"
        BY <1>5, <2>2, <3>2
      <3> QED
        BY <1>4, <2>3, <3>1, <3>2
    <2>4. CASE ~Live(k)
      <3>1. PICK q \in Procs : DropDone(q) /\ req[q].old = jar[j]
        BY <1>3, <2>1, <2>2, <2>4 DEF CookieInv
      <3> QED
        BY <1>5, <1>6, <3>1
    <2> QED
      BY <2>3, <2>4
  <1>11. WaitInv'
    BY <1>1, <1>3 DEF WaitInv, Waiting
  <1> QED
    BY <1>9, <1>10, <1>11

LEMMA OtherStoreQuiet ==
    ASSUME SettingTypeOK, SessionTypeOK, \A q \in Procs : HandlerInv(q), QuietInv,
           NEW p \in Procs, OtherStoreStep(p)
    PROVE  QuietInv'
  <1> USE DEF HandlerInv
  <1>1. row' = row /\ UNCHANGED sessionVars /\ \A q \in Procs \ {p} : proc'[q] = proc[q]
    BY StepShape
  <1>2. (Quiet' => Quiet) /\ (Quiet' => errors' = 0)
    BY <1>1 DEF Quiet, sessionVars, OtherStoreStep, GetCached, GetRow, Fill, Set, PutFails, SettingTypeOK
  <1> SUFFICES ASSUME Quiet, Quiet' PROVE (WaitInv /\ NewIsLive /\ CookieInv)'
    BY <1>2 DEF QuietInv, WaitInv, NewIsLive, CookieInv
  <1>3. WaitInv /\ NewIsLive /\ CookieInv
    BY DEF QuietInv, WaitInv, NewIsLive, CookieInv
  <1>4. \A q \in Procs \ {p} : AddDone(q)' = AddDone(q) /\ DropDone(q)' = DropDone(q)
    BY <1>1, HandlerKept DEF sessionVars
  <1>5. (AddDone(p)' => AddDone(p)) /\ (DropDone(p) => DropDone(p)')
    BY <1>2, OtherStoreStepOps
  <1> QED
    BY <1>1, <1>3, <1>4, <1>5 DEF WaitInv, Waiting, NewIsLive, CookieInv, Live, sessionVars

LEMMA OtherQuiet ==
    ASSUME SettingTypeOK, SessionTypeOK, \A q \in Procs : HandlerInv(q), QuietInv, OtherStep
    PROVE  QuietInv'
  <1>1. CASE lost' # 0
    BY <1>1 DEF QuietInv, Quiet
  <1>2. CASE /\ UNCHANGED <<proc, req, row, errors, overlapped, jar, lost>>
             /\ \A u \in Tabs : tab'[u].waits = tab[u].waits
    <2>1. \A q \in Procs : AddDone(q)' = AddDone(q) /\ DropDone(q)' = DropDone(q)
      BY <1>2 DEF AddDone, DropDone
    <2>2. \A q \in Procs : req[q].kind # "none" /\ Waiting(q) => Waiting(q)'
      BY <1>2 DEF Waiting, HandlerInv, ReqInv
    <2>3. Quiet' = Quiet
      BY <1>2 DEF Quiet
    <2>4. WaitInv => WaitInv'
      BY <1>2, <2>2 DEF WaitInv
    <2>5. NewIsLive' = NewIsLive
      BY <1>2, <2>1 DEF NewIsLive, Live
    <2>6. CookieInv' = CookieInv
      BY <1>2, <2>1 DEF CookieInv, Live
    <2> QED
      BY <2>3, <2>4, <2>5, <2>6 DEF QuietInv, WaitInv, NewIsLive, CookieInv
  <1>3. ASSUME NEW p \in Procs, Unread(p) PROVE QuietInv'
    <2>1. req[p].kind # "none" /\ ~Waiting(p)
      BY <1>3 DEF Unread, HandlerInv, ReqInv
    <2>2. ~Quiet
      BY <2>1 DEF QuietInv
    <2> QED
      BY <1>3, <2>2 DEF QuietInv, Quiet, Unread, settingVars
  <1>4. ASSUME NEW t \in Tabs, BootSignedOut(t) PROVE QuietInv'
    BY <1>2, <1>4 DEF BootSignedOut, settingVars, SessionTypeOK
  <1>5. CASE (Expire /\ UNCHANGED sessionVars) \/ UNCHANGED allVars
    BY <1>2, <1>5 DEF Expire, allVars, settingVars, sessionVars
  <1>6. ASSUME NEW t \in Tabs, LoseReply(t) \/ Reload(t) PROVE QuietInv'
    BY <1>1, <1>6 DEF LoseReply, Reload, SessionTypeOK
  <1>7. CASE Crash
    BY <1>1, <1>7 DEF Crash, SessionTypeOK
  <1> QED
    BY <1>3, <1>4, <1>5, <1>6, <1>7 DEF OtherStep

-----------------------------------------------------------------------------
LEMMA SessionInitInv == SessionInit => SessionInv
  <1> SUFFICES ASSUME SessionInit PROVE SessionInv
    OBVIOUS
  <1>1. SettingInv
    BY SettingInitInv DEF SessionInit
  <1>2. SessionTypeOK
    BY DEF SessionInit, SessionTypeOK, Tokens, NoReq
  <1>3. ASSUME NEW p \in Procs PROVE req[p] = NoReq /\ proc[p].stage = "idle" /\ ~AddDone(p)
    BY DEF SessionInit, SettingInit, Idle, AddDone, NoReq
  <1>4. \A p \in Procs : ReqInv(p) /\ TodoInv(p) /\ RotateInv(p)
    BY <1>3 DEF ReqInv, TodoInv, RotateInv, NoReq
  <1>5. FreshInv
    BY <1>3 DEF SessionInit, FreshInv, NoReq
  <1>6. QuietInv
    BY <1>3 DEF SessionInit, QuietInv, NoReq
  <1> QED
    BY <1>1, <1>2, <1>4, <1>5, <1>6 DEF SessionInv, SessionInit, RotationKeepsASession

LEMMA SessionStepInv == SessionInv /\ [SessionNext]_allVars => SessionInv'
  <1> SUFFICES ASSUME SessionInv, [SessionNext]_allVars PROVE SessionInv'
    OBVIOUS
  <1>1. /\ SettingInv /\ SettingTypeOK /\ SessionTypeOK /\ FreshInv /\ QuietInv /\ RotationKeepsASession
        /\ \A q \in Procs : HandlerInv(q)
    BY DEF SessionInv, SettingInv, HandlerInv
  <1>2. SettingInv' /\ RotationKeepsASession' /\ \A q \in Procs : HandlerInv(q)'
    BY <1>1, SessionSetting, RotationStep, HandlersStep
  <1>3. SUFFICES SessionTypeOK' /\ FreshInv' /\ QuietInv'
    BY <1>2 DEF SessionInv, HandlerInv
  <1>4. CASE OtherStep
    BY <1>1, <1>4, OtherType, OtherFresh, OtherQuiet
  <1>6. ASSUME NEW t \in Tabs, NEW p \in Procs, NEW k \in Items, SignIn(t, p, k) \/ Refresh(t, p, k) \/ SignOut(t, p)
        PROVE  SessionTypeOK' /\ FreshInv' /\ QuietInv'
    BY <1>1, <1>6, SendType, SendFresh, SendQuiet
  <1>7. ASSUME NEW t \in Tabs, NEW p \in Procs, SignOut(t, p) PROVE SessionTypeOK' /\ FreshInv' /\ QuietInv'
    <2>1. jar[JarOf[t]] \in Items
      BY <1>1, <1>7, SessionAssumption DEF SignOut, SessionTypeOK, Tokens
    <2> QED
      BY <1>6, <1>7, <2>1
  <1>8. ASSUME NEW p \in Procs, Reply(p) PROVE SessionTypeOK' /\ FreshInv' /\ QuietInv'
    BY <1>1, <1>8, ReplyType, ReplyFresh, ReplyQuiet DEF HandlerInv
  <1>9. ASSUME NEW p \in Procs, WriteTokens(p) PROVE SessionTypeOK' /\ FreshInv' /\ QuietInv'
    <2>1. FreshInv'
      BY <1>1, <1>9, WriteTokensType DEF FreshInv
    <2> QED
      BY <1>1, <1>9, <2>1, WriteTokensType, WriteTokensQuiet
  <1>10. ASSUME NEW p \in Procs, OtherStoreStep(p) PROVE SessionTypeOK' /\ FreshInv' /\ QuietInv'
    <2>1. SessionTypeOK' /\ FreshInv'
      BY <1>1, <1>10 DEF OtherStoreStep, sessionVars, SessionTypeOK, FreshInv
    <2> QED
      BY <1>1, <1>10, <2>1, OtherStoreQuiet
  <1> QED
    BY <1>4, <1>6, <1>7, <1>8, <1>9, <1>10 DEF SessionNext, OtherStep

\* The cookie of a jar that is not live waits for the reply that replaces it.
LEMMA SessionInvSurvives == SessionInv => SessionSurvives
  <1> SUFFICES ASSUME SessionInv PROVE SessionSurvives
    OBVIOUS
  <1>1. ASSUME Quiet, NEW j \in Jars, jar[j] # None
        PROVE  Live(jar[j]) \/ \E p \in Procs : Waiting(p) /\ req[p].old = jar[j]
    <2>1. ASSUME NEW p \in Procs, DropDone(p) PROVE Waiting(p)
      BY <1>1, <2>1 DEF SessionInv, QuietInv, DropDone
    <2> QED
      BY <1>1, <2>1 DEF SessionInv, QuietInv
  <1> QED
    BY <1>1 DEF SessionInv, SessionSurvives, CookieIsLive, Quiet

(***************************************************************************)
(* Sessions, for any numbers of browsers, tabs, tokens and goroutines and  *)
(* any number of mishaps: rotation always leaves a stored token, and the   *)
(* cookie names one that is accepted, or its replacement is on its way.    *)
(***************************************************************************)
THEOREM SessionsSurvive == SessionSpec => []SessionSurvives
  BY SessionInitInv, SessionStepInv, SessionInvSurvives, PTL DEF SessionSpec

\* The requests of sessions are requests on a list of the user: what holds of
\* every such list holds of the refresh tokens.
THEOREM TokensStayConsistent == SessionSpec => []SettingsConsistent
  <1>1. SessionInv => SettingsConsistent
    BY DEF SessionInv, SettingInv
  <1> QED
    BY <1>1, SessionInitInv, SessionStepInv, PTL DEF SessionSpec

(***************************************************************************)
(* The statements a request still has to execute are one of a few shapes;  *)
(* in particular a cache entry is written by the next statement, and the   *)
(* link of a provisional user is the last one.  A user id that a request   *)
(* may still create is its own; the holder of the mutex that is about to   *)
(* create the first administrator has found no other one.                  *)
(***************************************************************************)
PlanOf(pl, u) ==
    \/ \E op \in {"signUp", "first", "register", "insertFirst", "get", "delete", "uncache", "unlink"} :
         pl = <<<<op, u>>>>
    \/ \E op \in {"insert", "update", "set"}, role \in Roles : pl = <<<<op, u, role>>>>
    \/ \E e \in Externs, op \in {"sso", "link", "winner", "signedIn", "bind", "bindRow"} : pl = <<<<op, u, e>>>>
    \/ \E e \in Externs : pl = <<<<"get", u>>, <<"signedIn", u, e>>>>
    \/ \E e \in Externs, role \in Roles : pl = <<<<"set", u, role>>, <<"signedIn", u, e>>>>
    \/ \E e \in Externs : pl = <<<<"provision", u>>, <<"link", u, e>>>>
    \/ \E e \in Externs : pl = <<<<"set", u, "USER">>, <<"link", u, e>>>>
    \/ \E e \in Externs, op \in {"delete", "uncache"} : pl = <<<<op, u>>, <<"winner", u, e>>>>

IsPlan(pl) == pl = <<>> \/ \E u \in Uids : PlanOf(pl, u)

\* What a plan has: a statement op for u, a next statement op, a sign-in of e
\* as u, the creation of u.
Has(pl, op, u) == \E i \in DOMAIN pl : pl[i][1] = op /\ pl[i][2] = u
NextIs(pl, op) == pl # <<>> /\ Head(pl)[1] = op
SignsIn(pl, u, e) == \E i \in DOMAIN pl : pl[i][1] = "signedIn" /\ pl[i][2] = u /\ pl[i][3] = e
Creates == {"signUp", "first", "register", "insertFirst", "insert", "sso", "provision"}
MayCreate(pl, u) == pl # <<>> /\ Head(pl)[1] \in Creates /\ Head(pl)[2] = u

PlanInv ==
    /\ DOMAIN plan = Handlers
    /\ \A p \in Handlers : IsPlan(plan[p])

AccountTypeOK ==
    /\ user \in [Uids -> Roles \cup {NoUser}]
    /\ identity \in [Externs -> Uids \cup {NoUser}]
    /\ userCache \in [Uids -> Roles \cup {NoUser}]
    /\ bootstrapped \subseteq Uids
    /\ provisional \subseteq Uids

FreshUserInv ==
    /\ \A p \in Handlers, u \in Uids : MayCreate(plan[p], u) =>
         /\ u \in used /\ ~Exists(u) /\ u \notin bootstrapped /\ u \notin provisional
         /\ \A q \in Handlers : MayCreate(plan[q], u) => q = p
    /\ \A u \in Uids : Exists(u) \/ u \in bootstrapped \/ u \in provisional => u \in used

FirstInv ==
    /\ \A p \in Handlers : NextIs(plan[p], "insertFirst") => mutex = p /\ \A u \in bootstrapped : ~Exists(u)
    /\ \A u, v \in bootstrapped : Exists(u) /\ Exists(v) => u = v

AccountInv ==
    /\ AccountTypeOK
    /\ PlanInv
    /\ FreshUserInv
    /\ FirstInv
    /\ NoOrphanUser
    /\ SignsInAsLinked
    /\ LinkedUserExists
    /\ CachedUserIsCurrent

-----------------------------------------------------------------------------
(***************************************************************************)
(* Plans of no, one and two statements.                                    *)
(***************************************************************************)
LEMMA NoStatement ==
    /\ \A op, u : ~Has(<<>>, op, u)
    /\ \A op : ~NextIs(<<>>, op)
    /\ \A u, e : ~SignsIn(<<>>, u, e)
    /\ \A u : ~MayCreate(<<>>, u)
  BY DEF Has, NextIs, SignsIn, MayCreate

LEMMA OneStatement ==
    ASSUME NEW s
    PROVE  /\ <<s>> # <<>> /\ Head(<<s>>) = s /\ Tail(<<s>>) = <<>>
           /\ \A op, u : Has(<<s>>, op, u) <=> s[1] = op /\ s[2] = u
           /\ \A op : NextIs(<<s>>, op) <=> s[1] = op
           /\ \A u, e : SignsIn(<<s>>, u, e) <=> s[1] = "signedIn" /\ s[2] = u /\ s[3] = e
           /\ \A u : MayCreate(<<s>>, u) <=> s[1] \in Creates /\ s[2] = u
  <1> DEFINE pl == <<s>>
  <1>1. pl # <<>> /\ Head(pl) = s /\ Tail(pl) = <<>> /\ DOMAIN pl = {1} /\ pl[1] = s
    OBVIOUS
  <1> HIDE DEF pl
  <1>2. \A op, u : Has(pl, op, u) <=> s[1] = op /\ s[2] = u
    BY <1>1 DEF Has
  <1>3. \A u, e : SignsIn(pl, u, e) <=> s[1] = "signedIn" /\ s[2] = u /\ s[3] = e
    BY <1>1 DEF SignsIn
  <1>4. (\A op : NextIs(pl, op) <=> s[1] = op) /\ \A u : MayCreate(pl, u) <=> s[1] \in Creates /\ s[2] = u
    BY <1>1 DEF NextIs, MayCreate
  <1> QED
    BY <1>1, <1>2, <1>3, <1>4 DEF pl

LEMMA TwoStatements ==
    ASSUME NEW s, NEW t
    PROVE  /\ <<s, t>> # <<>> /\ Head(<<s, t>>) = s /\ Tail(<<s, t>>) = <<t>>
           /\ \A op, u : Has(<<s, t>>, op, u) <=> (s[1] = op /\ s[2] = u) \/ (t[1] = op /\ t[2] = u)
           /\ \A op : NextIs(<<s, t>>, op) <=> s[1] = op
           /\ \A u, e : SignsIn(<<s, t>>, u, e) <=>
                (s[1] = "signedIn" /\ s[2] = u /\ s[3] = e) \/ (t[1] = "signedIn" /\ t[2] = u /\ t[3] = e)
           /\ \A u : MayCreate(<<s, t>>, u) <=> s[1] \in Creates /\ s[2] = u
  <1> DEFINE pl == <<s, t>>
  <1>1. pl # <<>> /\ Head(pl) = s /\ Tail(pl) = <<t>> /\ pl[1] = s /\ pl[2] = t
    OBVIOUS
  <1>2. DOMAIN pl = {1, 2}
    OBVIOUS
  <1> HIDE DEF pl
  <1>3. \A op, u : Has(pl, op, u) <=> (s[1] = op /\ s[2] = u) \/ (t[1] = op /\ t[2] = u)
    BY <1>1, <1>2 DEF Has
  <1>4. \A u, e : SignsIn(pl, u, e) <=>
          (s[1] = "signedIn" /\ s[2] = u /\ s[3] = e) \/ (t[1] = "signedIn" /\ t[2] = u /\ t[3] = e)
    BY <1>1, <1>2 DEF SignsIn
  <1>5. (\A op : NextIs(pl, op) <=> s[1] = op) /\ \A u : MayCreate(pl, u) <=> s[1] \in Creates /\ s[2] = u
    BY <1>1, <1>2 DEF NextIs, MayCreate
  <1> QED
    BY <1>1, <1>3, <1>4, <1>5 DEF pl

LEMMA Joined ==
    ASSUME NEW a, NEW b, NEW t
    PROVE  /\ <<>> \o <<>> = <<>> /\ <<>> \o <<t>> = <<t>>
           /\ <<a>> \o <<>> = <<a>> /\ <<a>> \o <<t>> = <<a, t>>
           /\ <<a, b>> \o <<>> = <<a, b>>
  <1>1. <<>> \o <<>> = <<>> /\ <<>> \o <<t>> = <<t>>
    OBVIOUS
  <1>2. <<a>> \o <<>> = <<a>>
    OBVIOUS
  <1>3. <<a>> \o <<t>> = <<a, t>>
    <2> DEFINE c == <<a>> \o <<t>>
    <2>1. <<a>> \in Seq({a, t}) /\ <<t>> \in Seq({a, t}) /\ Len(<<a>>) = 1 /\ Len(<<t>>) = 1
      OBVIOUS
    <2>2. c \in Seq({a, t}) /\ Len(c) = 2 /\ c[1] = a /\ c[2] = t
      BY <2>1
    <2> HIDE DEF c
    <2>3. c = <<a, t>>
      BY <2>2
    <2> QED
      BY <2>3 DEF c
  <1>4. <<a, b>> \o <<>> = <<a, b>>
    OBVIOUS
  <1> QED
    BY <1>1, <1>2, <1>3, <1>4

\* The state predicates in terms of these.
LEMMA AtNext == \A p, op : At(p, op) <=> NextIs(plan[p], op)
  BY DEF At, NextIs

LEMMA SignedInAs ==
    SignsInAsLinked <=>
      \A p \in Handlers : \A u, e : SignsIn(plan[p], u, e) => identity[e] = u \/ e \in unlinked
  BY DEF SignsInAsLinked, SignsIn

-----------------------------------------------------------------------------
(***************************************************************************)
(* The plan of a request, told by its next statement.                      *)
(***************************************************************************)
LEMMA NextOfTwo ==
    ASSUME NEW s, NEW t
    PROVE  \A op : NextIs(<<s, t>>, op) <=> s[1] = op
  BY TwoStatements

LEMMA SignsInOfTwo ==
    ASSUME NEW s, NEW t
    PROVE  \A u, e : SignsIn(<<s, t>>, u, e) <=>
             (s[1] = "signedIn" /\ s[2] = u /\ s[3] = e) \/ (t[1] = "signedIn" /\ t[2] = u /\ t[3] = e)
  BY TwoStatements

LEMMA ShapeOf ==
    ASSUME NEW pl, IsPlan(pl)
    PROVE  /\ \A op \in {"signUp", "first", "register", "insertFirst", "unlink"} : NextIs(pl, op) =>
                \E u \in Uids : pl = <<<<op, u>>>>
           /\ \A op \in {"insert", "update"} : NextIs(pl, op) =>
                \E u \in Uids, role \in Roles : pl = <<<<op, u, role>>>>
           /\ \A op \in {"sso", "link", "winner", "signedIn", "bind", "bindRow"} : NextIs(pl, op) =>
                \E u \in Uids, e \in Externs : pl = <<<<op, u, e>>>>
           /\ NextIs(pl, "provision") =>
                \E u \in Uids, e \in Externs : pl = <<<<"provision", u>>, <<"link", u, e>>>>
           /\ NextIs(pl, "get") =>
                \E u \in Uids : \/ pl = <<<<"get", u>>>>
                                \/ \E e \in Externs : pl = <<<<"get", u>>, <<"signedIn", u, e>>>>
           /\ \A op \in {"delete", "uncache"} : NextIs(pl, op) =>
                \E u \in Uids : \/ pl = <<<<op, u>>>>
                                \/ \E e \in Externs : pl = <<<<op, u>>, <<"winner", u, e>>>>
           /\ NextIs(pl, "set") =>
                \E u \in Uids, role \in Roles :
                  \/ pl = <<<<"set", u, role>>>>
                  \/ \E e \in Externs : pl = <<<<"set", u, role>>, <<"signedIn", u, e>>>>
                  \/ \E e \in Externs : role = "USER" /\ pl = <<<<"set", u, role>>, <<"link", u, e>>>>
  <1>1. CASE pl = <<>>
    BY <1>1, NoStatement
  <1>2. CASE \E u \in Uids : PlanOf(pl, u)
    <2>1. PICK u \in Uids : PlanOf(pl, u)
      BY <1>2
    <2>2. CASE \E op \in {"signUp", "first", "register", "insertFirst", "get", "delete", "uncache", "unlink"} :
                 pl = <<<<op, u>>>>
      <3>1. PICK op \in {"signUp", "first", "register", "insertFirst", "get", "delete", "uncache", "unlink"} :
              pl = <<<<op, u>>>>
        BY <2>2
      <3>2. \A o : NextIs(pl, o) <=> o = op
        BY <3>1, OneStatement
      <3> QED
        BY <3>1, <3>2
    <2>3. CASE \E op \in {"insert", "update", "set"}, role \in Roles : pl = <<<<op, u, role>>>>
      <3>1. PICK op \in {"insert", "update", "set"}, role \in Roles : pl = <<<<op, u, role>>>>
        BY <2>3
      <3>2. \A o : NextIs(pl, o) <=> o = op
        BY <3>1, OneStatement
      <3> QED
        BY <3>1, <3>2
    <2>4. CASE \E e \in Externs, op \in {"sso", "link", "winner", "signedIn", "bind", "bindRow"} : pl = <<<<op, u, e>>>>
      <3>1. PICK e \in Externs, op \in {"sso", "link", "winner", "signedIn", "bind", "bindRow"} : pl = <<<<op, u, e>>>>
        BY <2>4
      <3>2. \A o : NextIs(pl, o) <=> o = op
        BY <3>1, OneStatement
      <3> QED
        BY <3>1, <3>2
    <2>5. CASE \E e \in Externs : pl = <<<<"get", u>>, <<"signedIn", u, e>>>>
      <3>1. PICK e \in Externs : pl = <<<<"get", u>>, <<"signedIn", u, e>>>>
        BY <2>5
      <3>2. \A o : NextIs(pl, o) <=> o = "get"
        BY <3>1, NextOfTwo
      <3> QED
        BY <3>1, <3>2
    <2>6. CASE \E e \in Externs, role \in Roles : pl = <<<<"set", u, role>>, <<"signedIn", u, e>>>>
      <3>1. \A o : NextIs(pl, o) <=> o = "set"
        BY <2>6, NextOfTwo
      <3> QED
        BY <2>6, <3>1
    <2>7. CASE \E e \in Externs : pl = <<<<"provision", u>>, <<"link", u, e>>>>
      <3>1. \A o : NextIs(pl, o) <=> o = "provision"
        BY <2>7, NextOfTwo
      <3> QED
        BY <2>7, <3>1
    <2>8. CASE \E e \in Externs : pl = <<<<"set", u, "USER">>, <<"link", u, e>>>>
      <3>1. \A o : NextIs(pl, o) <=> o = "set"
        BY <2>8, NextOfTwo
      <3>2. "USER" \in Roles
        BY DEF Roles
      <3> QED
        BY <2>8, <3>1, <3>2
    <2>9. CASE \E e \in Externs, op \in {"delete", "uncache"} : pl = <<<<op, u>>, <<"winner", u, e>>>>
      <3>1. PICK e \in Externs, op \in {"delete", "uncache"} : pl = <<<<op, u>>, <<"winner", u, e>>>>
        BY <2>9
      <3>2. \A o : NextIs(pl, o) <=> o = op
        BY <3>1, NextOfTwo
      <3> QED
        BY <3>1, <3>2
    <2> QED
      BY <2>1, <2>2, <2>3, <2>4, <2>5, <2>6, <2>7, <2>8, <2>9 DEF PlanOf
  <1> QED
    BY <1>1, <1>2 DEF IsPlan

-----------------------------------------------------------------------------
(***************************************************************************)
(* What every statement guarantees.  It changes the plan of its own        *)
(* request, creates at most the user of its own id, drops a provisional    *)
(* user only when it is linked, deleted or recorded as cut short, and      *)
(* leaves the cache entry of a user it writes to its next statement.       *)
(***************************************************************************)
Created(p, u) == MayCreate(plan[p], u) /\ ~MayCreate(plan'[p], u)
Settles(pl, u) == Has(pl, "link", u) \/ Has(pl, "delete", u)
Caches(pl, u) == Has(pl, "set", u) \/ Has(pl, "uncache", u)

OwnPlan(p) ==
    /\ DOMAIN plan' = Handlers
    /\ IsPlan(plan'[p])
    /\ \A q \in Handlers \ {p} : plan'[q] = plan[q]

KeepsPlan(p) ==
    /\ cut \subseteq cut' /\ unlinked \subseteq unlinked' /\ used \subseteq used'
    /\ \A q \in Handlers \ {p} : mutex = q => mutex' = q

CreatesOwn(p) ==
    /\ \A u \in Uids : MayCreate(plan'[p], u) => u \in used' /\ (MayCreate(plan[p], u) \/ u \notin used)
    /\ \A u \in Uids : Exists(u)' => Exists(u) \/ Created(p, u)
    /\ \A u \in Uids : u \in provisional' => u \in provisional \/ (Created(p, u) /\ Settles(plan'[p], u))
    /\ \A u \in Uids : u \in bootstrapped' => u \in bootstrapped \/ (Created(p, u) /\ NextIs(plan[p], "insertFirst"))
    /\ NextIs(plan'[p], "insertFirst") => mutex' = p /\ \A u \in bootstrapped' : ~Exists(u)'

SettlesOwn(p) ==
    /\ \A u \in Uids : Settles(plan[p], u) => \/ Settles(plan'[p], u) \/ ~Exists(u)'
                                              \/ \E e \in Externs : identity'[e] = u
                                              \/ u \in cut' \cup unlinked'
    /\ \A e \in Externs : identity[e] # NoUser =>
         identity'[e] = identity[e] \/ (e \in unlinked' /\ identity[e] \in unlinked')
    /\ \A u \in Uids, e \in Externs : SignsIn(plan'[p], u, e) =>
         SignsIn(plan[p], u, e) \/ identity'[e] = u \/ e \in unlinked'

CachesOwn(p) ==
    \A u \in Uids :
      \/ userCache'[u] \in {NoUser, user'[u]} \/ Caches(plan'[p], u) \/ u \in misfilled'
      \/ /\ userCache'[u] = userCache[u] /\ user'[u] = user[u]
         /\ u \in misfilled => u \in misfilled'
         /\ ~Caches(plan[p], u)

Guarantee(p) ==
    /\ AccountTypeOK' /\ LinkedUserExists'
    /\ OwnPlan(p) /\ KeepsPlan(p) /\ CreatesOwn(p) /\ SettlesOwn(p) /\ CachesOwn(p)

\* Only users sign in, with external accounts.
LEMMA SignsInTypes ==
    ASSUME NEW pl, IsPlan(pl), NEW v, NEW f, SignsIn(pl, v, f)
    PROVE  v \in Uids /\ f \in Externs
  <1>1. PICK u \in Uids : PlanOf(pl, u)
    BY NoStatement DEF IsPlan
  <1>2. CASE \E op \in {"signUp", "first", "register", "insertFirst", "get", "delete", "uncache", "unlink"} :
               pl = <<<<op, u>>>>
    BY <1>2, OneStatement
  <1>3. CASE \E op \in {"insert", "update", "set"}, role \in Roles : pl = <<<<op, u, role>>>>
    BY <1>3, OneStatement
  <1>4. CASE \E e \in Externs, op \in {"sso", "link", "winner", "signedIn", "bind", "bindRow"} : pl = <<<<op, u, e>>>>
    BY <1>4, OneStatement
  <1>5. CASE \E s : \E e \in Externs : pl = <<s, <<"signedIn", u, e>>>> /\ s[1] # "signedIn"
    BY <1>5, SignsInOfTwo
  <1>6. CASE \E s, t : pl = <<s, t>> /\ s[1] # "signedIn" /\ t[1] # "signedIn"
    BY <1>6, SignsInOfTwo
  <1> QED
    BY <1>1, <1>2, <1>3, <1>4, <1>5, <1>6 DEF PlanOf

\* The invariant in terms of plans.
LEMMA PartsOf ==
    /\ NoOrphanUser <=>
         \A u \in provisional : Exists(u) =>
           IsLinked(u) \/ (\E p \in Handlers : Settles(plan[p], u)) \/ u \in cut \cup unlinked
    /\ CachedUserIsCurrent <=>
         \A u \in Uids :
           userCache[u] \in {NoUser, user[u]} \/ (\E p \in Handlers : Caches(plan[p], u)) \/ u \in misfilled
  BY DEF NoOrphanUser, CachedUserIsCurrent, Settles, Caches, Pending, Has

LEMMA PartsOfNext ==
    /\ NoOrphanUser' <=>
         \A u \in provisional' : Exists(u)' =>
           IsLinked(u)' \/ (\E p \in Handlers : Settles(plan'[p], u)) \/ u \in cut' \cup unlinked'
    /\ SignsInAsLinked' <=>
         \A p \in Handlers : \A u, e : SignsIn(plan'[p], u, e) => identity'[e] = u \/ e \in unlinked'
    /\ CachedUserIsCurrent' <=>
         \A u \in Uids :
           userCache'[u] \in {NoUser, user'[u]} \/ (\E p \in Handlers : Caches(plan'[p], u)) \/ u \in misfilled'
  <1>1. NoOrphanUser' <=>
          \A u \in provisional' : Exists(u)' =>
            IsLinked(u)' \/ (\E p \in Handlers : Settles(plan'[p], u)) \/ u \in cut' \cup unlinked'
    BY DEF NoOrphanUser, Settles, Pending, Has
  <1>2. SignsInAsLinked' <=>
          \A p \in Handlers : \A u, e : SignsIn(plan'[p], u, e) => identity'[e] = u \/ e \in unlinked'
    BY DEF SignsInAsLinked, SignsIn
  <1>3. CachedUserIsCurrent' <=>
          \A u \in Uids :
            userCache'[u] \in {NoUser, user'[u]} \/ (\E p \in Handlers : Caches(plan'[p], u)) \/ u \in misfilled'
    BY DEF CachedUserIsCurrent, Caches, Pending, Has
  <1> QED
    BY <1>1, <1>2, <1>3

LEMMA GuaranteeKeepsFresh ==
    ASSUME NEW p \in Handlers, PlanInv, FreshUserInv, OwnPlan(p), KeepsPlan(p), CreatesOwn(p)
    PROVE  PlanInv' /\ FreshUserInv'
  <1>1. PlanInv'
    <2> SUFFICES ASSUME NEW q \in Handlers PROVE IsPlan(plan'[q])
      BY DEF PlanInv, OwnPlan
    <2> QED
      BY DEF PlanInv, OwnPlan
  <1>2. ASSUME NEW q \in Handlers, NEW u \in Uids, MayCreate(plan'[q], u)
        PROVE  /\ u \in used' /\ ~Exists(u)' /\ u \notin bootstrapped' /\ u \notin provisional'
               /\ \A r \in Handlers : MayCreate(plan'[r], u) => r = q
    <2>1. CASE q = p
      <3>1. u \in used' /\ (MayCreate(plan[p], u) \/ u \notin used)
        BY <1>2, <2>1 DEF CreatesOwn
      <3>2. ~Exists(u) /\ u \notin bootstrapped /\ u \notin provisional
        BY <3>1 DEF FreshUserInv
      <3>3. \A r \in Handlers \ {p} : ~MayCreate(plan[r], u)
        BY <3>1 DEF FreshUserInv
      <3>4. ~Created(p, u)
        BY <1>2, <2>1 DEF Created
      <3> QED
        BY <3>1, <3>2, <3>3, <3>4, <2>1 DEF CreatesOwn, OwnPlan
    <2>2. CASE q # p
      <3>1. MayCreate(plan[q], u)
        BY <1>2, <2>2 DEF OwnPlan
      <3>2. u \in used /\ ~Exists(u) /\ u \notin bootstrapped /\ u \notin provisional /\ ~MayCreate(plan[p], u)
        BY <3>1, <2>2 DEF FreshUserInv
      <3>3. \A r \in Handlers : MayCreate(plan[r], u) => r = q
        BY <3>1 DEF FreshUserInv
      <3>4. ~MayCreate(plan'[p], u) /\ ~Created(p, u)
        BY <3>2 DEF CreatesOwn, Created
      <3>5. \A r \in Handlers : MayCreate(plan'[r], u) => r = q
        BY <3>3, <3>4 DEF OwnPlan
      <3> QED
        BY <3>2, <3>4, <3>5 DEF CreatesOwn, KeepsPlan
    <2> QED
      BY <2>1, <2>2
  <1>3. \A u \in Uids : Exists(u)' \/ u \in bootstrapped' \/ u \in provisional' => u \in used'
    BY DEF FreshUserInv, CreatesOwn, KeepsPlan, Created
  <1> QED
    BY <1>1, <1>2, <1>3 DEF FreshUserInv

LEMMA GuaranteeKeepsFirst ==
    ASSUME NEW p \in Handlers, AccountTypeOK, FreshUserInv, FirstInv, AccountTypeOK', OwnPlan(p), KeepsPlan(p), CreatesOwn(p)
    PROVE  FirstInv'
  <1>1. ASSUME NEW u \in bootstrapped', Exists(u)'
        PROVE  \/ u \in bootstrapped /\ Exists(u)
               \/ Created(p, u) /\ NextIs(plan[p], "insertFirst")
    <2>1. u \in Uids
      BY DEF AccountTypeOK
    <2>2. Created(p, u) => u \notin bootstrapped
      BY <2>1 DEF Created, FreshUserInv
    <2> QED
      BY <1>1, <2>1, <2>2 DEF CreatesOwn
  <1>2. ASSUME NEW q \in Handlers, NextIs(plan'[q], "insertFirst")
        PROVE  mutex' = q /\ \A u \in bootstrapped' : ~Exists(u)'
    <2>1. CASE q = p
      BY <1>2, <2>1 DEF CreatesOwn
    <2>2. CASE q # p
      <3>1. NextIs(plan[q], "insertFirst")
        BY <1>2, <2>2 DEF OwnPlan
      <3>2. mutex = q /\ mutex' = q /\ \A u \in bootstrapped : ~Exists(u)
        BY <3>1, <2>2 DEF FirstInv, KeepsPlan
      <3>3. ~NextIs(plan[p], "insertFirst")
        BY <3>2, <2>2 DEF FirstInv
      <3> QED
        BY <1>1, <3>2, <3>3
    <2> QED
      BY <2>1, <2>2
  <1>3. ASSUME NEW u \in bootstrapped', NEW v \in bootstrapped', Exists(u)', Exists(v)'
        PROVE  u = v
    <2>1. CASE NextIs(plan[p], "insertFirst")
      <3>1. \A w \in bootstrapped : ~Exists(w)
        BY <2>1 DEF FirstInv
      <3>2. Created(p, u) /\ Created(p, v)
        BY <1>1, <1>3, <3>1
      <3> QED
        BY <3>2 DEF Created, MayCreate
    <2>2. CASE ~NextIs(plan[p], "insertFirst")
      BY <1>1, <1>3, <2>2 DEF FirstInv
    <2> QED
      BY <2>1, <2>2
  <1> QED
    BY <1>2, <1>3 DEF FirstInv

LEMMA GuaranteeKeepsLinks ==
    ASSUME NEW p \in Handlers, AccountTypeOK, FreshUserInv, NoOrphanUser, SignsInAsLinked,
           AccountTypeOK', OwnPlan(p), KeepsPlan(p), CreatesOwn(p), SettlesOwn(p), PlanInv'
    PROVE  NoOrphanUser' /\ SignsInAsLinked'
  <1>1. NoOrphanUser'
    <2> SUFFICES ASSUME NEW u \in provisional', Exists(u)'
                 PROVE  \/ \E e \in Externs : identity'[e] = u
                        \/ \E q \in Handlers : Settles(plan'[q], u)
                        \/ u \in cut' \cup unlinked'
      BY PartsOfNext DEF IsLinked
    <2>1. u \in Uids
      BY DEF AccountTypeOK
    <2>2. CASE Created(p, u) /\ Settles(plan'[p], u)
      BY <2>2
    <2>3. CASE u \in provisional
      <3>1. Exists(u)
        BY <2>1, <2>3 DEF CreatesOwn, Created, FreshUserInv
      <3>2. IsLinked(u) \/ (\E q \in Handlers : Settles(plan[q], u)) \/ u \in cut \cup unlinked
        BY <2>3, <3>1, PartsOf
      <3>3. CASE IsLinked(u)
        <4>1. PICK e \in Externs : identity[e] = u
          BY <3>3 DEF IsLinked
        <4>2. u # NoUser
          BY <2>1, AccountAssumption
        <4> QED
          BY <4>1, <4>2 DEF SettlesOwn
      <3>4. CASE \E q \in Handlers : Settles(plan[q], u)
        <4>1. PICK q \in Handlers : Settles(plan[q], u)
          BY <3>4
        <4>2. CASE q = p
          BY <2>1, <4>1, <4>2 DEF SettlesOwn
        <4>3. CASE q # p
          BY <4>1, <4>3 DEF OwnPlan
        <4> QED
          BY <4>2, <4>3
      <3>5. CASE u \in cut \cup unlinked
        BY <3>5 DEF KeepsPlan
      <3> QED
        BY <3>2, <3>3, <3>4, <3>5
    <2> QED
      BY <2>1, <2>2, <2>3 DEF CreatesOwn
  <1>2. SignsInAsLinked'
    <2> SUFFICES ASSUME NEW q \in Handlers, NEW u, NEW e, SignsIn(plan'[q], u, e)
                 PROVE  identity'[e] = u \/ e \in unlinked'
      BY PartsOfNext
    <2>1. u \in Uids /\ e \in Externs
      BY SignsInTypes DEF PlanInv
    <2>2. SignsIn(plan[q], u, e) \/ identity'[e] = u \/ e \in unlinked'
      BY <2>1 DEF SettlesOwn, OwnPlan
    <2>3. CASE SignsIn(plan[q], u, e)
      <3>1. identity[e] = u \/ e \in unlinked
        BY <2>3, SignedInAs
      <3>2. u # NoUser
        BY <2>1, AccountAssumption
      <3> QED
        BY <2>1, <3>1, <3>2 DEF SettlesOwn, KeepsPlan
    <2> QED
      BY <2>2, <2>3
  <1> QED
    BY <1>1, <1>2

LEMMA GuaranteeKeepsCache ==
    ASSUME NEW p \in Handlers, CachedUserIsCurrent, OwnPlan(p), CachesOwn(p)
    PROVE  CachedUserIsCurrent'
  <1> SUFFICES ASSUME NEW u \in Uids
               PROVE  \/ userCache'[u] \in {NoUser, user'[u]}
                      \/ \E q \in Handlers : Caches(plan'[q], u)
                      \/ u \in misfilled'
    BY PartsOfNext
  <1>1. CASE Caches(plan'[p], u)
    BY <1>1
  <1>2. CASE /\ userCache'[u] = userCache[u] /\ user'[u] = user[u]
             /\ u \in misfilled => u \in misfilled'
             /\ ~Caches(plan[p], u)
    <2>1. userCache[u] \in {NoUser, user[u]} \/ (\E q \in Handlers : Caches(plan[q], u)) \/ u \in misfilled
      BY PartsOf
    <2>2. CASE \E q \in Handlers : Caches(plan[q], u)
      <3>1. PICK q \in Handlers : Caches(plan[q], u)
        BY <2>2
      <3>2. q # p
        BY <1>2, <3>1
      <3> QED
        BY <3>1, <3>2 DEF OwnPlan
    <2> QED
      BY <1>2, <2>1, <2>2
  <1> QED
    BY <1>1, <1>2 DEF CachesOwn

LEMMA GuaranteeKeepsInv ==
    ASSUME NEW p \in Handlers, AccountInv, Guarantee(p)
    PROVE  AccountInv'
  <1>1. PlanInv' /\ FreshUserInv'
    BY GuaranteeKeepsFresh DEF AccountInv, Guarantee
  <1>2. FirstInv'
    BY GuaranteeKeepsFirst DEF AccountInv, Guarantee
  <1>3. NoOrphanUser' /\ SignsInAsLinked'
    BY <1>1, GuaranteeKeepsLinks DEF AccountInv, Guarantee
  <1>4. CachedUserIsCurrent'
    BY GuaranteeKeepsCache DEF AccountInv, Guarantee
  <1> QED
    BY <1>1, <1>2, <1>3, <1>4 DEF AccountInv, Guarantee

-----------------------------------------------------------------------------
(***************************************************************************)
(* What plans of these shapes may still do.                                *)
(***************************************************************************)
LEMMA NothingLeft ==
    /\ \A v : ~MayCreate(<<>>, v) /\ ~Settles(<<>>, v) /\ ~Caches(<<>>, v)
    /\ \A v, f : ~SignsIn(<<>>, v, f)
    /\ \A o : ~NextIs(<<>>, o)
    /\ IsPlan(<<>>)
  BY NoStatement DEF Settles, Caches, IsPlan

LEMMA LeftOf2 ==
    ASSUME NEW op, NEW u, op # "signedIn"
    PROVE  /\ \A v : MayCreate(<<<<op, u>>>>, v) <=> op \in Creates /\ v = u
           /\ \A v : Settles(<<<<op, u>>>>, v) <=> op \in {"link", "delete"} /\ v = u
           /\ \A v : Caches(<<<<op, u>>>>, v) <=> op \in {"set", "uncache"} /\ v = u
           /\ \A v, f : ~SignsIn(<<<<op, u>>>>, v, f)
           /\ \A o : NextIs(<<<<op, u>>>>, o) <=> o = op
  <1> DEFINE s == <<op, u>>
  <1>1. s[1] = op /\ s[2] = u
    OBVIOUS
  <1> HIDE DEF s
  <1>2. /\ \A v : MayCreate(<<s>>, v) <=> op \in Creates /\ v = u
        /\ \A v : Settles(<<s>>, v) <=> op \in {"link", "delete"} /\ v = u
        /\ \A v : Caches(<<s>>, v) <=> op \in {"set", "uncache"} /\ v = u
        /\ \A v, f : ~SignsIn(<<s>>, v, f)
        /\ \A o : NextIs(<<s>>, o) <=> o = op
    BY <1>1, OneStatement DEF Settles, Caches
  <1> QED
    BY <1>2 DEF s

LEMMA LeftOf3 ==
    ASSUME NEW op, NEW u, NEW x
    PROVE  /\ \A v : MayCreate(<<<<op, u, x>>>>, v) <=> op \in Creates /\ v = u
           /\ \A v : Settles(<<<<op, u, x>>>>, v) <=> op \in {"link", "delete"} /\ v = u
           /\ \A v : Caches(<<<<op, u, x>>>>, v) <=> op \in {"set", "uncache"} /\ v = u
           /\ \A v, f : SignsIn(<<<<op, u, x>>>>, v, f) <=> op = "signedIn" /\ v = u /\ f = x
           /\ \A o : NextIs(<<<<op, u, x>>>>, o) <=> o = op
  <1> DEFINE s == <<op, u, x>>
  <1>1. s[1] = op /\ s[2] = u /\ s[3] = x
    OBVIOUS
  <1> HIDE DEF s
  <1>2. /\ \A v : MayCreate(<<s>>, v) <=> op \in Creates /\ v = u
        /\ \A v : Settles(<<s>>, v) <=> op \in {"link", "delete"} /\ v = u
        /\ \A v : Caches(<<s>>, v) <=> op \in {"set", "uncache"} /\ v = u
        /\ \A v, f : SignsIn(<<s>>, v, f) <=> op = "signedIn" /\ v = u /\ f = x
        /\ \A o : NextIs(<<s>>, o) <=> o = op
    BY <1>1, OneStatement DEF Settles, Caches
  <1> QED
    BY <1>2 DEF s

LEMMA LeftOfBoth ==
    ASSUME NEW s, NEW t
    PROVE  /\ \A v : MayCreate(<<s, t>>, v) <=> MayCreate(<<s>>, v)
           /\ \A v : Settles(<<s, t>>, v) <=> Settles(<<s>>, v) \/ Settles(<<t>>, v)
           /\ \A v : Caches(<<s, t>>, v) <=> Caches(<<s>>, v) \/ Caches(<<t>>, v)
           /\ \A v, f : SignsIn(<<s, t>>, v, f) <=> SignsIn(<<s>>, v, f) \/ SignsIn(<<t>>, v, f)
           /\ \A o : NextIs(<<s, t>>, o) <=> NextIs(<<s>>, o)
  <1>1. \A op, v : Has(<<s, t>>, op, v) <=> Has(<<s>>, op, v) \/ Has(<<t>>, op, v)
    <2>1. /\ \A op, v : Has(<<s, t>>, op, v) <=> (s[1] = op /\ s[2] = v) \/ (t[1] = op /\ t[2] = v)
          /\ \A op, v : Has(<<s>>, op, v) <=> s[1] = op /\ s[2] = v
          /\ \A op, v : Has(<<t>>, op, v) <=> t[1] = op /\ t[2] = v
      BY OneStatement, TwoStatements
    <2> QED
      BY <2>1
  <1>2. (\A v : MayCreate(<<s, t>>, v) <=> MayCreate(<<s>>, v)) /\ \A o : NextIs(<<s, t>>, o) <=> NextIs(<<s>>, o)
    BY OneStatement, TwoStatements
  <1>3. \A v, f : SignsIn(<<s, t>>, v, f) <=> SignsIn(<<s>>, v, f) \/ SignsIn(<<t>>, v, f)
    BY OneStatement, SignsInOfTwo
  <1> QED
    BY <1>1, <1>2, <1>3 DEF Settles, Caches

-----------------------------------------------------------------------------
(***************************************************************************)
(* The statements and failures that change no table.                       *)
(***************************************************************************)
\* The next statement and what follows it.
LEMMA LastLeft ==
    ASSUME NEW p, NEW s, plan[p] = <<s>>
    PROVE  Tail(plan[p]) = <<>> /\ (\A i : Arg(p, i) = s[i]) /\ \A o : At(p, o) <=> s[1] = o
  BY OneStatement, AtNext DEF Arg

LEMMA OneMore ==
    ASSUME NEW p, NEW s, NEW t, plan[p] = <<s, t>>
    PROVE  Tail(plan[p]) = <<t>> /\ (\A i : Arg(p, i) = s[i]) /\ \A o : At(p, o) <=> s[1] = o
  BY TwoStatements, AtNext DEF Arg

LEMMA PlanMoves ==
    ASSUME NEW p \in Handlers, PlanInv, NEW npl, IsPlan(npl), plan' = [plan EXCEPT ![p] = npl]
    PROVE  OwnPlan(p) /\ plan'[p] = npl
  BY DEF PlanInv, OwnPlan

LEMMA QuietStep ==
    ASSUME NEW p \in Handlers, AccountInv, NEW pl, NEW npl, plan[p] = pl, plan' = [plan EXCEPT ![p] = npl],
           UNCHANGED <<user, identity, userCache, bootstrapped, provisional, late, unlinked, misfilled>>,
           KeepsPlan(p), IsPlan(npl),
           \A u \in Uids : MayCreate(npl, u) => u \in used' /\ (MayCreate(pl, u) \/ u \notin used),
           \A u \in Uids : Settles(pl, u) => Settles(npl, u) \/ u \in cut',
           \A u \in Uids : ~Caches(pl, u),
           \A u \in Uids, e \in Externs : SignsIn(npl, u, e) => SignsIn(pl, u, e) \/ identity[e] = u \/ e \in unlinked,
           NextIs(npl, "insertFirst") => mutex' = p /\ NoUsers
    PROVE  Guarantee(p)
  <1>1. OwnPlan(p) /\ plan'[p] = npl
    BY PlanMoves DEF AccountInv
  <1>2. AccountTypeOK'
    BY DEF AccountInv, AccountTypeOK
  <1>3. LinkedUserExists'
    BY DEF AccountInv, LinkedUserExists, Exists
  <1>4. CreatesOwn(p)
    <2>1. NoUsers => \A u \in bootstrapped' : ~Exists(u)'
      BY DEF NoUsers, Exists, AccountInv, AccountTypeOK
    <2> QED
      BY <1>1, <2>1 DEF CreatesOwn, Exists
  <1>5. SettlesOwn(p)
    BY <1>1 DEF SettlesOwn
  <1>6. CachesOwn(p)
    BY <1>1 DEF CachesOwn
  <1> QED
    BY <1>1, <1>2, <1>3, <1>4, <1>5, <1>6 DEF Guarantee

LEMMA CheckFirstOK ==
    ASSUME NEW p \in Handlers, AccountInv, CheckFirst(p)
    PROVE  Guarantee(p)
  <1>1. PICK u \in Uids : plan[p] = <<<<"signUp", u>>>>
    BY ShapeOf, AtNext DEF AccountInv, PlanInv, CheckFirst
  <1>2. PICK op \in {"first", "register"} : plan' = [plan EXCEPT ![p] = <<<<op, u>>>>]
    <2>1. PICK op \in {"first", "register"} : op = IF NoUsers THEN "first" ELSE "register"
      OBVIOUS
    <2>2. Tail(plan[p]) = <<>> /\ Arg(p, 2) = u
      BY <1>1, LastLeft
    <2>3. plan' = [plan EXCEPT ![p] = <<<<op, u>>>> \o <<>>]
      BY <2>1, <2>2 DEF CheckFirst, Continue
    <2> QED
      BY <2>3, Joined
  <1>3. IsPlan(<<<<op, u>>>>)
    BY DEF IsPlan, PlanOf
  <1>4. KeepsPlan(p)
    BY DEF CheckFirst, KeepsPlan, tables, counters, history
  <1>5. \A v : MayCreate(<<<<op, u>>>>, v) => MayCreate(plan[p], v) /\ v \in Uids
    BY <1>1, LeftOf2 DEF Creates
  <1>6. \A v \in Uids : MayCreate(plan[p], v) => v \in used'
    BY DEF AccountInv, FreshUserInv, CheckFirst, counters
  <1>7. (\A v : ~Settles(plan[p], v) /\ ~Caches(plan[p], v))
    BY <1>1, LeftOf2
  <1>8. (\A v, f : ~SignsIn(<<<<op, u>>>>, v, f)) /\ ~NextIs(<<<<op, u>>>>, "insertFirst")
    BY LeftOf2
  <1> QED
    BY <1>1, <1>2, <1>3, <1>4, <1>5, <1>6, <1>7, <1>8, QuietStep DEF CheckFirst, tables, history

LEMMA FirstOK ==
    ASSUME NEW p \in Handlers, AccountInv, First(p)
    PROVE  Guarantee(p)
  <1>1. PICK u \in Uids : plan[p] = <<<<"first", u>>>>
    BY ShapeOf, AtNext DEF AccountInv, PlanInv, First
  <1>2. PICK op \in {"insertFirst", "register"} :
          op = (IF NoUsers THEN "insertFirst" ELSE "register") /\ plan' = [plan EXCEPT ![p] = <<<<op, u>>>>]
    <2>1. PICK op \in {"insertFirst", "register"} : op = IF NoUsers THEN "insertFirst" ELSE "register"
      OBVIOUS
    <2>2. Tail(plan[p]) = <<>> /\ Arg(p, 2) = u
      BY <1>1, LastLeft
    <2>3. plan' = [plan EXCEPT ![p] = <<<<op, u>>>> \o <<>>]
      BY <2>1, <2>2 DEF First, Continue
    <2> QED
      BY <2>1, <2>3, Joined
  <1>3. IsPlan(<<<<op, u>>>>)
    BY DEF IsPlan, PlanOf
  <1>4. KeepsPlan(p)
    BY AccountAssumption DEF First, KeepsPlan, counters, history
  <1>5. \A v : MayCreate(<<<<op, u>>>>, v) => MayCreate(plan[p], v) /\ v \in Uids
    BY <1>1, LeftOf2 DEF Creates
  <1>6. \A v \in Uids : MayCreate(plan[p], v) => v \in used'
    BY DEF AccountInv, FreshUserInv, First, counters
  <1>7. \A v : ~Settles(plan[p], v) /\ ~Caches(plan[p], v)
    BY <1>1, LeftOf2
  <1>8. \A v, f : ~SignsIn(<<<<op, u>>>>, v, f)
    BY LeftOf2
  <1>9. NextIs(<<<<op, u>>>>, "insertFirst") => mutex' = p /\ NoUsers
    BY <1>2, LeftOf2 DEF First
  <1> QED
    BY <1>1, <1>2, <1>3, <1>4, <1>5, <1>6, <1>7, <1>8, <1>9, QuietStep DEF First, history

\* A handler that returns before or after its last statement.
LEMMA ReturnOK ==
    ASSUME NEW p \in Handlers, AccountInv, NEW pl, plan[p] = pl, plan' = [plan EXCEPT ![p] = <<>>],
           UNCHANGED <<user, identity, userCache, bootstrapped, provisional, late, unlinked, misfilled>>, KeepsPlan(p),
           \A v \in Uids : Settles(pl, v) => v \in cut',
           \A v \in Uids : ~Caches(pl, v)
    PROVE  Guarantee(p)
  BY NothingLeft, QuietStep

\* A statement that may create no user and leaves everything as it was.
LEMMA LooksOnly ==
    ASSUME NEW p \in Handlers, AccountInv, NEW pl, NEW npl, plan[p] = pl, plan' = [plan EXCEPT ![p] = npl],
           UNCHANGED <<tables, history>>, used' = used, IsPlan(npl),
           \A v \in Uids : MayCreate(npl, v) => MayCreate(pl, v),
           \A v \in Uids : Settles(pl, v) => Settles(npl, v),
           \A v \in Uids : ~Caches(pl, v),
           \A v \in Uids, f \in Externs : SignsIn(npl, v, f) => SignsIn(pl, v, f) \/ identity[f] = v \/ f \in unlinked,
           ~NextIs(npl, "insertFirst")
    PROVE  Guarantee(p)
  <1>1. KeepsPlan(p)
    BY DEF KeepsPlan, tables, history
  <1>2. \A v \in Uids : MayCreate(pl, v) => v \in used'
    BY DEF AccountInv, FreshUserInv
  <1> QED
    BY <1>1, <1>2, QuietStep DEF tables, history

LEMMA RegisterOK ==
    ASSUME NEW p \in Handlers, AccountInv, Register(p)
    PROVE  Guarantee(p)
  <1>1. PICK u \in Uids : plan[p] = <<<<"register", u>>>>
    BY ShapeOf, AtNext DEF AccountInv, PlanInv, Register
  <1>2. Tail(plan[p]) = <<>> /\ Arg(p, 2) = u
    BY <1>1, LastLeft
  <1>3. UNCHANGED <<tables, history>> /\ used' = used
    BY DEF Register, counters
  <1>4. \A v : ~Settles(plan[p], v) /\ ~Caches(plan[p], v) /\ (MayCreate(plan[p], v) <=> v = u)
    BY <1>1, LeftOf2 DEF Creates
  <1>5. CASE Return(p)
    BY <1>3, <1>4, <1>5, NothingLeft, LooksOnly DEF Return
  <1>6. CASE Continue(p, <<<<"insert", Arg(p, 2), "USER">>>>)
    <2>1. plan' = [plan EXCEPT ![p] = <<<<"insert", u, "USER">>>>]
      BY <1>2, <1>6, Joined DEF Continue
    <2>2. IsPlan(<<<<"insert", u, "USER">>>>)
      BY DEF IsPlan, PlanOf, Roles
    <2>3. /\ \A v : MayCreate(<<<<"insert", u, "USER">>>>, v) <=> v = u
          /\ \A v, f : ~SignsIn(<<<<"insert", u, "USER">>>>, v, f)
          /\ ~NextIs(<<<<"insert", u, "USER">>>>, "insertFirst")
      BY LeftOf3 DEF Creates
    <2> QED
      BY <1>3, <1>4, <2>1, <2>2, <2>3, LooksOnly
  <1> QED
    BY <1>5, <1>6 DEF Register

LEMMA GetUserOK ==
    ASSUME NEW p \in Handlers, AccountInv, GetUser(p)
    PROVE  Guarantee(p)
  <1>1. PICK u \in Uids : \/ plan[p] = <<<<"get", u>>>>
                          \/ \E e \in Externs : plan[p] = <<<<"get", u>>, <<"signedIn", u, e>>>>
    BY ShapeOf, AtNext DEF AccountInv, PlanInv, GetUser
  <1>2. UNCHANGED <<tables, history>> /\ used' = used
    BY DEF GetUser, counters
  <1>3. \A v, f : ~Settles(<<<<"get", u>>>>, v) /\ ~Caches(<<<<"get", u>>>>, v) /\ ~MayCreate(<<<<"get", u>>>>, v)
    BY LeftOf2 DEF Creates
  <1>4. \A v : ~Settles(plan[p], v) /\ ~Caches(plan[p], v)
    <2>1. \A e : \A v : ~Settles(<<<<"signedIn", u, e>>>>, v) /\ ~Caches(<<<<"signedIn", u, e>>>>, v)
      BY LeftOf3
    <2> QED
      BY <1>1, <1>3, <2>1, LeftOfBoth
  <1>5. Arg(p, 2) = u
    BY <1>1, LastLeft, OneMore
  <1>6. CASE Return(p)
    BY <1>2, <1>4, <1>6, NothingLeft, LooksOnly DEF Return
  <1>7. CASE plan[p] = <<<<"get", u>>>> /\ ~Return(p)
    <2>1. Tail(plan[p]) = <<>>
      BY <1>7, LastLeft
    <2>2. PICK record : record = user[u]
      OBVIOUS
    <2>3. CASE Continue(p, <<>>)
      BY <1>2, <1>4, <2>1, <2>3, Joined, NothingLeft, LooksOnly DEF Continue
    <2>4. CASE Exists(u) /\ Continue(p, <<<<"set", u, user[u]>>>>)
      <3>1. plan' = [plan EXCEPT ![p] = <<<<"set", u, record>>>>] /\ record \in Roles
        BY <2>1, <2>2, <2>4, Joined DEF Continue, Exists, AccountInv, AccountTypeOK
      <3>2. IsPlan(<<<<"set", u, record>>>>)
        BY <3>1 DEF IsPlan, PlanOf
      <3>3. /\ \A v : ~MayCreate(<<<<"set", u, record>>>>, v)
            /\ \A v, f : ~SignsIn(<<<<"set", u, record>>>>, v, f)
            /\ ~NextIs(<<<<"set", u, record>>>>, "insertFirst")
        BY LeftOf3 DEF Creates
      <3> QED
        BY <1>2, <1>4, <3>1, <3>2, <3>3, LooksOnly
    <2> QED
      BY <1>5, <1>7, <2>3, <2>4 DEF GetUser
  <1>8. CASE (\E e \in Externs : plan[p] = <<<<"get", u>>, <<"signedIn", u, e>>>>) /\ ~Return(p)
    <2>1. PICK e \in Externs : plan[p] = <<<<"get", u>>, <<"signedIn", u, e>>>>
      BY <1>8
    <2>2. Tail(plan[p]) = <<<<"signedIn", u, e>>>>
      BY <2>1, OneMore
    <2>3. PICK record : record = user[u]
      OBVIOUS
    <2>4. \A v, f : SignsIn(<<<<"signedIn", u, e>>>>, v, f) => SignsIn(plan[p], v, f)
      BY <2>1, LeftOfBoth
    <2>5. CASE Continue(p, <<>>)
      <3>1. plan' = [plan EXCEPT ![p] = <<<<"signedIn", u, e>>>>]
        BY <2>2, <2>5, Joined DEF Continue
      <3>2. IsPlan(<<<<"signedIn", u, e>>>>)
        BY DEF IsPlan, PlanOf
      <3>3. /\ \A v : ~MayCreate(<<<<"signedIn", u, e>>>>, v)
            /\ ~NextIs(<<<<"signedIn", u, e>>>>, "insertFirst")
        BY LeftOf3 DEF Creates
      <3>4. PICK npl : npl = <<<<"signedIn", u, e>>>>
        OBVIOUS
      <3>5. /\ plan' = [plan EXCEPT ![p] = npl] /\ IsPlan(npl) /\ ~NextIs(npl, "insertFirst")
            /\ \A v : ~MayCreate(npl, v)
            /\ \A v, f : SignsIn(npl, v, f) => SignsIn(plan[p], v, f)
        BY <2>4, <3>1, <3>2, <3>3, <3>4
      <3> QED
        BY <1>2, <1>4, <3>5, LooksOnly
    <2>6. CASE Exists(u) /\ Continue(p, <<<<"set", u, user[u]>>>>)
      <3> DEFINE npl == <<<<"set", u, record>>, <<"signedIn", u, e>>>>
      <3>1. plan' = [plan EXCEPT ![p] = npl] /\ record \in Roles
        <4>1. record \in Roles
          BY <2>3, <2>6 DEF Exists, AccountInv, AccountTypeOK
        <4>2. plan' = [plan EXCEPT ![p] = <<<<"set", u, record>>>> \o <<<<"signedIn", u, e>>>>]
          BY <2>2, <2>3, <2>6 DEF Continue
        <4>3. <<<<"set", u, record>>>> \o <<<<"signedIn", u, e>>>> = npl
          BY Joined
        <4> QED
          BY <4>1, <4>2, <4>3
      <3>2. IsPlan(npl)
        BY <3>1 DEF IsPlan, PlanOf
      <3>3. /\ \A v : ~MayCreate(<<<<"set", u, record>>>>, v)
            /\ \A v, f : ~SignsIn(<<<<"set", u, record>>>>, v, f)
            /\ ~NextIs(<<<<"set", u, record>>>>, "insertFirst")
        BY LeftOf3 DEF Creates
      <3>4. /\ \A v : ~MayCreate(npl, v)
            /\ \A v, f : SignsIn(npl, v, f) => SignsIn(plan[p], v, f)
            /\ ~NextIs(npl, "insertFirst")
        BY <2>4, <3>3, LeftOfBoth
      <3> HIDE DEF npl
      <3> QED
        BY <1>2, <1>4, <3>1, <3>2, <3>4, LooksOnly
    <2> QED
      BY <1>5, <1>8, <2>5, <2>6 DEF GetUser
  <1> QED
    BY <1>1, <1>6, <1>7, <1>8

\* The user that an external account is linked to is looked up and signed in.
LEMMA ResolvesOK ==
    ASSUME NEW p \in Handlers, AccountInv, NEW pl, plan[p] = pl, NEW e \in Externs, NEW v \in Uids, identity[e] = v,
           plan' = [plan EXCEPT ![p] = <<<<"get", v>>, <<"signedIn", v, e>>>>],
           UNCHANGED <<tables, history>>, used' = used, \A w : ~Settles(pl, w) /\ ~Caches(pl, w)
    PROVE  Guarantee(p)
  <1> DEFINE npl == <<<<"get", v>>, <<"signedIn", v, e>>>>
  <1>1. IsPlan(npl)
    BY DEF IsPlan, PlanOf
  <1>2. /\ \A w : ~MayCreate(<<<<"get", v>>>>, w)
        /\ \A w, f : ~SignsIn(<<<<"get", v>>>>, w, f)
        /\ ~NextIs(<<<<"get", v>>>>, "insertFirst")
    BY LeftOf2 DEF Creates
  <1>3. \A w, f : SignsIn(<<<<"signedIn", v, e>>>>, w, f) => w = v /\ f = e
    BY LeftOf3
  <1>4. /\ \A w : ~MayCreate(npl, w)
        /\ \A w, f : SignsIn(npl, w, f) => identity[f] = w
        /\ ~NextIs(npl, "insertFirst")
    BY <1>2, <1>3, LeftOfBoth
  <1> HIDE DEF npl
  <1>5. plan' = [plan EXCEPT ![p] = npl]
    BY DEF npl
  <1> QED
    BY <1>1, <1>4, <1>5, LooksOnly

LEMMA ResolveSSOUserOK ==
    ASSUME NEW p \in Handlers, AccountInv, ResolveSSOUser(p)
    PROVE  Guarantee(p)
  <1>1. PICK u \in Uids, e \in Externs : plan[p] = <<<<"sso", u, e>>>>
    BY ShapeOf, AtNext DEF AccountInv, PlanInv, ResolveSSOUser
  <1>2. Tail(plan[p]) = <<>> /\ Arg(p, 2) = u /\ Arg(p, 3) = e
    BY <1>1, LastLeft
  <1>3. UNCHANGED <<tables, history>> /\ used' = used
    BY DEF ResolveSSOUser, counters
  <1>4. \A v : ~Settles(plan[p], v) /\ ~Caches(plan[p], v) /\ (MayCreate(plan[p], v) <=> v = u)
    BY <1>1, LeftOf3 DEF Creates
  <1>5. CASE Return(p)
    BY <1>3, <1>4, <1>5, NothingLeft, LooksOnly DEF Return
  <1>6. CASE identity[e] # NoUser /\ Continue(p, <<<<"get", identity[e]>>, <<"signedIn", identity[e], e>>>>)
    <2>1. PICK v \in Uids : identity[e] = v
      BY <1>6 DEF AccountInv, AccountTypeOK
    <2>2. plan' = [plan EXCEPT ![p] = <<<<"get", v>>, <<"signedIn", v, e>>>>]
      <3>1. plan' = [plan EXCEPT ![p] = <<<<"get", v>>, <<"signedIn", v, e>>>> \o <<>>]
        BY <1>2, <1>6, <2>1 DEF Continue
      <3> QED
        BY <3>1, Joined
    <2> QED
      BY <1>3, <1>4, <2>1, <2>2, ResolvesOK
  <1>7. CASE Continue(p, <<<<"provision", u>>, <<"link", u, e>>>>)
    <2> DEFINE npl == <<<<"provision", u>>, <<"link", u, e>>>>
    <2>1. plan' = [plan EXCEPT ![p] = npl]
      <3>1. plan' = [plan EXCEPT ![p] = npl \o <<>>]
        BY <1>2, <1>7 DEF Continue
      <3> QED
        BY <3>1, Joined
    <2>2. IsPlan(npl)
      BY DEF IsPlan, PlanOf
    <2>3. /\ \A w : MayCreate(<<<<"provision", u>>>>, w) <=> w = u
          /\ \A w, f : ~SignsIn(<<<<"provision", u>>>>, w, f)
          /\ ~NextIs(<<<<"provision", u>>>>, "insertFirst")
      BY LeftOf2 DEF Creates
    <2>4. \A w, f : ~SignsIn(<<<<"link", u, e>>>>, w, f)
      BY LeftOf3
    <2>5. /\ \A w : MayCreate(npl, w) <=> w = u
          /\ \A w, f : ~SignsIn(npl, w, f)
          /\ ~NextIs(npl, "insertFirst")
      BY <2>3, <2>4, LeftOfBoth
    <2> HIDE DEF npl
    <2> QED
      BY <1>3, <1>4, <2>1, <2>2, <2>5, LooksOnly
  <1> QED
    BY <1>2, <1>5, <1>6, <1>7 DEF ResolveSSOUser

LEMMA WinnerOK ==
    ASSUME NEW p \in Handlers, AccountInv, Winner(p)
    PROVE  Guarantee(p)
  <1>1. PICK u \in Uids, e \in Externs : plan[p] = <<<<"winner", u, e>>>>
    BY ShapeOf, AtNext DEF AccountInv, PlanInv, Winner
  <1>2. Tail(plan[p]) = <<>> /\ Arg(p, 3) = e
    BY <1>1, LastLeft
  <1>3. UNCHANGED <<tables, history>> /\ used' = used
    BY DEF Winner, counters
  <1>4. \A v : ~Settles(plan[p], v) /\ ~Caches(plan[p], v)
    BY <1>1, LeftOf3
  <1>5. CASE Return(p)
    BY <1>3, <1>4, <1>5, NothingLeft, LooksOnly DEF Return
  <1>6. CASE ~Return(p)
    <2>1. PICK v \in Uids : identity[e] = v
      BY <1>2, <1>6 DEF AccountInv, AccountTypeOK, Winner
    <2>2. v # NoUser
      BY AccountAssumption
    <2>3. plan' = [plan EXCEPT ![p] = <<<<"get", v>>, <<"signedIn", v, e>>>>]
      <3>1. plan' = [plan EXCEPT ![p] = <<<<"get", v>>, <<"signedIn", v, e>>>> \o <<>>]
        BY <1>2, <1>6, <2>1, <2>2 DEF Continue, Winner
      <3> QED
        BY <3>1, Joined
    <2> QED
      BY <1>3, <1>4, <2>1, <2>3, ResolvesOK
  <1> QED
    BY <1>5, <1>6

LEMMA SignedInOK ==
    ASSUME NEW p \in Handlers, AccountInv, SignedIn(p)
    PROVE  Guarantee(p)
  <1>1. PICK u \in Uids, e \in Externs : plan[p] = <<<<"signedIn", u, e>>>>
    BY ShapeOf, AtNext DEF AccountInv, PlanInv, SignedIn
  <1>2. \A v : ~Settles(plan[p], v) /\ ~Caches(plan[p], v)
    BY <1>1, LeftOf3
  <1> QED
    BY <1>2, NothingLeft, LooksOnly DEF SignedIn, Return, counters

LEMMA BindOK ==
    ASSUME NEW p \in Handlers, AccountInv, Bind(p)
    PROVE  Guarantee(p)
  <1>1. PICK u \in Uids, e \in Externs : plan[p] = <<<<"bind", u, e>>>>
    BY ShapeOf, AtNext DEF AccountInv, PlanInv, Bind
  <1>2. Tail(plan[p]) = <<>> /\ Arg(p, 2) = u /\ Arg(p, 3) = e
    BY <1>1, LastLeft
  <1>3. UNCHANGED <<tables, history>> /\ used' = used
    BY DEF Bind, counters
  <1>4. \A v : ~Settles(plan[p], v) /\ ~Caches(plan[p], v)
    BY <1>1, LeftOf3
  <1>5. CASE Return(p)
    BY <1>3, <1>4, <1>5, NothingLeft, LooksOnly DEF Return
  <1>6. CASE Continue(p, <<<<"bindRow", u, e>>>>)
    <2>1. plan' = [plan EXCEPT ![p] = <<<<"bindRow", u, e>>>>]
      BY <1>2, <1>6, Joined DEF Continue
    <2>2. IsPlan(<<<<"bindRow", u, e>>>>)
      BY DEF IsPlan, PlanOf
    <2>3. /\ \A w : ~MayCreate(<<<<"bindRow", u, e>>>>, w)
          /\ \A w, f : ~SignsIn(<<<<"bindRow", u, e>>>>, w, f)
          /\ ~NextIs(<<<<"bindRow", u, e>>>>, "insertFirst")
      BY LeftOf3 DEF Creates
    <2> QED
      BY <1>3, <1>4, <2>1, <2>2, <2>3, LooksOnly
  <1> QED
    BY <1>2, <1>5, <1>6 DEF Bind

-----------------------------------------------------------------------------
(***************************************************************************)
(* Failures and new requests.                                              *)
(***************************************************************************)
LEMMA ProvisionalsOf ==
    ASSUME NEW p, NEW v
    PROVE  Settles(plan[p], v) <=> v \in Provisionals(p)
  BY DEF Settles, Has, Provisionals

\* A cache entry is only ever the next statement.
LEMMA CachesNext ==
    ASSUME NEW pl, IsPlan(pl), NEW v, Caches(pl, v)
    PROVE  NextIs(pl, "set") \/ NextIs(pl, "uncache")
  <1>1. PICK u \in Uids : PlanOf(pl, u)
    BY NothingLeft DEF IsPlan
  <1>2. CASE \E op \in {"signUp", "first", "register", "insertFirst", "get", "delete", "uncache", "unlink"} :
               pl = <<<<op, u>>>>
    BY <1>2, LeftOf2
  <1>3. CASE \E op \in {"insert", "update", "set"}, role \in Roles : pl = <<<<op, u, role>>>>
    BY <1>3, LeftOf3
  <1>4. CASE \E e \in Externs, op \in {"sso", "link", "winner", "signedIn", "bind", "bindRow"} : pl = <<<<op, u, e>>>>
    BY <1>4, LeftOf3
  <1>5. CASE \E s : \E op \in {"signedIn", "link", "winner"}, e \in Externs : pl = <<s, <<op, u, e>>>>
    <2>1. PICK s : \E op \in {"signedIn", "link", "winner"}, e \in Externs : pl = <<s, <<op, u, e>>>>
      BY <1>5
    <2>2. PICK op \in {"signedIn", "link", "winner"}, e \in Externs : pl = <<s, <<op, u, e>>>>
      BY <2>1
    <2>3. ~Caches(<<<<op, u, e>>>>, v)
      BY LeftOf3
    <2>4. Caches(<<s>>, v) /\ (\A o : NextIs(pl, o) <=> NextIs(<<s>>, o))
      BY <2>2, <2>3, LeftOfBoth
    <2> QED
      BY <2>4, OneStatement DEF Caches
  <1> QED
    BY <1>1, <1>2, <1>3, <1>4, <1>5 DEF PlanOf

LEMMA StatementFailsOK ==
    ASSUME NEW p \in Handlers, AccountInv, StatementFails(p)
    PROVE  Guarantee(p)
  <1>1. \A v : ~Caches(plan[p], v)
    BY CachesNext, AtNext DEF AccountInv, PlanInv, StatementFails
  <1>2. \A v : Settles(plan[p], v) => v \in cut'
    BY ProvisionalsOf DEF StatementFails
  <1>3. KeepsPlan(p)
    BY DEF StatementFails, KeepsPlan
  <1> QED
    BY <1>1, <1>2, <1>3, ReturnOK DEF StatementFails, Return

LEMMA LinkFailsOK ==
    ASSUME NEW p \in Handlers, AccountInv, LinkFails(p)
    PROVE  Guarantee(p)
  <1>1. PICK u \in Uids, e \in Externs : plan[p] = <<<<"link", u, e>>>>
    BY ShapeOf, AtNext DEF AccountInv, PlanInv, LinkFails
  <1>2. Arg(p, 2) = u
    BY <1>1, LastLeft
  <1>3. plan' = [plan EXCEPT ![p] = <<<<"delete", u>>>>]
    BY <1>2 DEF LinkFails
  <1>4. IsPlan(<<<<"delete", u>>>>)
    BY DEF IsPlan, PlanOf
  <1>5. \A v : ~Caches(plan[p], v) /\ (Settles(plan[p], v) <=> v = u)
    BY <1>1, LeftOf3
  <1>6. /\ \A v : ~MayCreate(<<<<"delete", u>>>>, v)
        /\ \A v : Settles(<<<<"delete", u>>>>, v) <=> v = u
        /\ \A v, f : ~SignsIn(<<<<"delete", u>>>>, v, f)
        /\ ~NextIs(<<<<"delete", u>>>>, "insertFirst")
    BY LeftOf2 DEF Creates
  <1> QED
    BY <1>3, <1>4, <1>5, <1>6, LooksOnly DEF LinkFails

LEMMA StartOK ==
    ASSUME NEW p \in Handlers, AccountInv, NEW ids, NEW ops, Start(p, ids, ops), IsPlan(ops),
           \A v \in Uids : MayCreate(ops, v) => v \in ids,
           \A v, f : ~SignsIn(ops, v, f), ~NextIs(ops, "insertFirst")
    PROVE  Guarantee(p)
  <1>1. KeepsPlan(p)
    BY DEF Start, KeepsPlan, tables, history
  <1>2. \A v \in Uids : MayCreate(ops, v) => v \in used' /\ v \notin used
    BY DEF Start
  <1>3. plan[p] = <<>> /\ \A v : ~Settles(plan[p], v) /\ ~Caches(plan[p], v)
    BY NothingLeft DEF Start
  <1> QED
    BY <1>1, <1>2, <1>3, QuietStep DEF Start, tables, history

LEMMA RequestOK ==
    ASSUME NEW p \in Handlers, AccountInv, Request(p)
    PROVE  Guarantee(p)
  <1>1. PICK u \in Uids :
          \/ CreateUser(p, u) \/ DeleteUser(p, u) \/ DeleteLinkedIdentity(p, u) \/ Authenticate(p, u)
          \/ \E role \in Roles : UpdateUser(p, u, role)
          \/ \E e \in Externs : SsoSignIn(p, u, e) \/ CreateLinkedIdentity(p, u, e)
    BY DEF Request
  <1>2. \A op \in {"signUp", "delete", "unlink", "get"} :
          /\ IsPlan(<<<<op, u>>>>)
          /\ \A v : MayCreate(<<<<op, u>>>>, v) => v = u /\ op = "signUp"
          /\ \A v, f : ~SignsIn(<<<<op, u>>>>, v, f)
          /\ ~NextIs(<<<<op, u>>>>, "insertFirst")
    BY LeftOf2 DEF IsPlan, PlanOf, Creates
  <1>3. \A op \in {"insert", "update"}, role \in Roles :
          /\ IsPlan(<<<<op, u, role>>>>)
          /\ \A v : MayCreate(<<<<op, u, role>>>>, v) => v = u /\ op = "insert"
          /\ \A v, f : ~SignsIn(<<<<op, u, role>>>>, v, f)
          /\ ~NextIs(<<<<op, u, role>>>>, "insertFirst")
    BY LeftOf3 DEF IsPlan, PlanOf, Creates
  <1>4. \A op \in {"sso", "bind"}, e \in Externs :
          /\ IsPlan(<<<<op, u, e>>>>)
          /\ \A v : MayCreate(<<<<op, u, e>>>>, v) => v = u /\ op = "sso"
          /\ \A v, f : ~SignsIn(<<<<op, u, e>>>>, v, f)
          /\ ~NextIs(<<<<op, u, e>>>>, "insertFirst")
    BY LeftOf3 DEF IsPlan, PlanOf, Creates
  <1>5. CASE CreateUser(p, u)
    <2>1. CASE Start(p, {u}, <<<<"signUp", u>>>>)
      BY <1>2, <2>1, StartOK
    <2>2. CASE \E role \in Roles : Start(p, {u}, <<<<"insert", u, role>>>>)
      BY <1>3, <2>2, StartOK
    <2> QED
      BY <1>5, <2>1, <2>2 DEF CreateUser
  <1>6. CASE DeleteUser(p, u)
    BY <1>2, <1>6, StartOK DEF DeleteUser
  <1>7. CASE DeleteLinkedIdentity(p, u)
    BY <1>2, <1>7, StartOK DEF DeleteLinkedIdentity
  <1>8. CASE Authenticate(p, u)
    BY <1>2, <1>8, StartOK DEF Authenticate
  <1>9. CASE \E role \in Roles : UpdateUser(p, u, role)
    BY <1>3, <1>9, StartOK DEF UpdateUser
  <1>10. CASE \E e \in Externs : SsoSignIn(p, u, e) \/ CreateLinkedIdentity(p, u, e)
    BY <1>4, <1>10, StartOK DEF SsoSignIn, CreateLinkedIdentity
  <1> QED
    BY <1>1, <1>5, <1>6, <1>7, <1>8, <1>9, <1>10

-----------------------------------------------------------------------------
(***************************************************************************)
(* The statements that write a user row; the cache entry is next.          *)
(***************************************************************************)
LEMMA WriteOK ==
    ASSUME NEW p \in Handlers, AccountInv, NEW pl, NEW npl, plan[p] = pl, plan' = [plan EXCEPT ![p] = npl], IsPlan(npl),
           NEW u \in Uids, NEW role \in Roles, user' = [user EXCEPT ![u] = role],
           MayCreate(pl, u) \/ Exists(u),
           \A v : ~MayCreate(npl, v), ~NextIs(npl, "insertFirst"), Caches(npl, u), \A v, f : ~SignsIn(npl, v, f),
           \A v : ~Caches(pl, v), \A v : Settles(pl, v) => Settles(npl, v),
           UNCHANGED <<identity, userCache, mutex, used, late, unlinked, cut, misfilled>>,
           \/ bootstrapped' = bootstrapped
           \/ bootstrapped' = bootstrapped \cup {u} /\ MayCreate(pl, u) /\ NextIs(pl, "insertFirst"),
           \/ provisional' = provisional
           \/ provisional' = provisional \cup {u} /\ MayCreate(pl, u) /\ Settles(npl, u)
    PROVE  Guarantee(p)
  <1>1. OwnPlan(p) /\ plan'[p] = npl
    BY PlanMoves DEF AccountInv
  <1>2. user \in [Uids -> Roles \cup {NoUser}] /\ role # NoUser
    BY AccountAssumption DEF AccountInv, AccountTypeOK
  <1>3. user'[u] = role /\ \A v \in Uids \ {u} : user'[v] = user[v]
    BY <1>2
  <1>4. AccountTypeOK'
    <2>1. user' \in [Uids -> Roles \cup {NoUser}]
      BY <1>2
    <2> QED
      BY <2>1 DEF AccountInv, AccountTypeOK
  <1>5. LinkedUserExists'
    <2> SUFFICES ASSUME NEW e \in Externs, identity[e] # NoUser
                 PROVE  user'[identity[e]] # NoUser \/ e \in late
      BY DEF LinkedUserExists, Exists
    <2>1. identity[e] \in Uids
      BY DEF AccountInv, AccountTypeOK
    <2>2. user[identity[e]] # NoUser \/ e \in late
      BY DEF AccountInv, LinkedUserExists, Exists
    <2> QED
      BY <1>2, <1>3, <2>1, <2>2
  <1>6. KeepsPlan(p)
    BY DEF KeepsPlan
  <1>7. CreatesOwn(p)
    <2>1. \A v \in Uids : Exists(v)' => Exists(v) \/ (v = u /\ MayCreate(pl, u))
      BY <1>3 DEF Exists
    <2> QED
      BY <1>1, <2>1 DEF CreatesOwn, Created
  <1>8. SettlesOwn(p)
    BY <1>1 DEF SettlesOwn
  <1>9. CachesOwn(p)
    BY <1>1, <1>3 DEF CachesOwn
  <1> QED
    BY <1>1, <1>4, <1>5, <1>6, <1>7, <1>8, <1>9 DEF Guarantee

LEMMA SetNext ==
    ASSUME NEW u \in Uids, NEW role \in Roles
    PROVE  /\ IsPlan(<<<<"set", u, role>>>>)
           /\ \A v : ~MayCreate(<<<<"set", u, role>>>>, v)
           /\ \A v : Caches(<<<<"set", u, role>>>>, v) <=> v = u
           /\ \A v : ~Settles(<<<<"set", u, role>>>>, v)
           /\ \A v, f : ~SignsIn(<<<<"set", u, role>>>>, v, f)
           /\ ~NextIs(<<<<"set", u, role>>>>, "insertFirst")
  <1>1. IsPlan(<<<<"set", u, role>>>>)
    BY DEF IsPlan, PlanOf
  <1> QED
    BY <1>1, LeftOf3 DEF Creates

LEMMA InsertFirstOK ==
    ASSUME NEW p \in Handlers, AccountInv, InsertFirst(p)
    PROVE  Guarantee(p)
  <1>1. PICK u \in Uids : plan[p] = <<<<"insertFirst", u>>>>
    BY ShapeOf, AtNext DEF AccountInv, PlanInv, InsertFirst
  <1>2. Tail(plan[p]) = <<>> /\ Arg(p, 2) = u
    BY <1>1, LastLeft
  <1>3. plan' = [plan EXCEPT ![p] = <<<<"set", u, "ADMIN">>>>]
    <2>1. plan' = [plan EXCEPT ![p] = <<<<"set", u, "ADMIN">>>> \o <<>>]
      BY <1>2 DEF InsertFirst, Continue
    <2> QED
      BY <2>1, Joined
  <1>4. \A v : (MayCreate(plan[p], v) <=> v = u) /\ ~Settles(plan[p], v) /\ ~Caches(plan[p], v)
    BY <1>1, LeftOf2 DEF Creates
  <1>5. NextIs(plan[p], "insertFirst")
    BY AtNext DEF InsertFirst
  <1>6. "ADMIN" \in Roles
    BY DEF Roles
  <1>7. user' = [user EXCEPT ![u] = "ADMIN"] /\ bootstrapped' = bootstrapped \cup {u}
    BY <1>2 DEF InsertFirst
  <1>8. UNCHANGED <<identity, userCache, mutex, used, late, unlinked, cut, misfilled, provisional>>
    BY DEF InsertFirst, counters
  <1>9. PICK npl : npl = <<<<"set", u, "ADMIN">>>> /\ plan' = [plan EXCEPT ![p] = npl]
    BY <1>3
  <1>10. /\ IsPlan(npl)
         /\ Caches(npl, u)
         /\ \A v : ~MayCreate(npl, v)
         /\ \A v : ~Settles(npl, v)
         /\ \A v, f : ~SignsIn(npl, v, f)
         /\ ~NextIs(npl, "insertFirst")
    BY <1>6, <1>9, SetNext
  <1> QED
    BY <1>4, <1>5, <1>6, <1>7, <1>8, <1>9, <1>10, WriteOK

LEMMA InsertOK ==
    ASSUME NEW p \in Handlers, AccountInv, Insert(p)
    PROVE  Guarantee(p)
  <1>1. PICK u \in Uids, role \in Roles : plan[p] = <<<<"insert", u, role>>>>
    BY ShapeOf, AtNext DEF AccountInv, PlanInv, Insert
  <1>2. Tail(plan[p]) = <<>> /\ Arg(p, 2) = u /\ Arg(p, 3) = role
    BY <1>1, LastLeft
  <1>3. plan' = [plan EXCEPT ![p] = <<<<"set", u, role>>>>]
    <2>1. plan' = [plan EXCEPT ![p] = <<<<"set", u, role>>>> \o <<>>]
      BY <1>2 DEF Insert, Continue
    <2> QED
      BY <2>1, Joined
  <1>4. \A v : (MayCreate(plan[p], v) <=> v = u) /\ ~Settles(plan[p], v) /\ ~Caches(plan[p], v)
    BY <1>1, LeftOf3 DEF Creates
  <1>5. user' = [user EXCEPT ![u] = role]
    BY <1>2 DEF Insert
  <1>6. UNCHANGED <<identity, userCache, mutex, used, late, unlinked, cut, misfilled, bootstrapped, provisional>>
    BY DEF Insert, counters, history
  <1>7. PICK npl : npl = <<<<"set", u, role>>>> /\ plan' = [plan EXCEPT ![p] = npl]
    BY <1>3
  <1>8. /\ IsPlan(npl) /\ \A v : ~MayCreate(npl, v)
        /\ Caches(npl, u) /\ \A v : ~Settles(npl, v)
        /\ (\A v, f : ~SignsIn(npl, v, f)) /\ ~NextIs(npl, "insertFirst")
    BY <1>7, SetNext
  <1> QED
    BY <1>4, <1>5, <1>6, <1>7, <1>8, WriteOK

LEMMA UpdateRowOK ==
    ASSUME NEW p \in Handlers, AccountInv, UpdateRow(p)
    PROVE  Guarantee(p)
  <1>1. PICK u \in Uids, role \in Roles : plan[p] = <<<<"update", u, role>>>>
    BY ShapeOf, AtNext DEF AccountInv, PlanInv, UpdateRow
  <1>2. Tail(plan[p]) = <<>> /\ Arg(p, 2) = u /\ Arg(p, 3) = role
    BY <1>1, LastLeft
  <1>3. \A v : ~Settles(plan[p], v) /\ ~Caches(plan[p], v)
    BY <1>1, LeftOf3
  <1>4. UNCHANGED <<identity, userCache, mutex, used, late, unlinked, cut, misfilled, bootstrapped, provisional>>
    BY DEF UpdateRow, counters, history
  <1>5. CASE Exists(u)
    <2>1. plan' = [plan EXCEPT ![p] = <<<<"set", u, role>>>>]
      BY <1>2, <1>5, Joined DEF UpdateRow, Continue
    <2>2. user' = [user EXCEPT ![u] = role]
      BY <1>2, <1>5 DEF UpdateRow
    <2>3. PICK npl : npl = <<<<"set", u, role>>>> /\ plan' = [plan EXCEPT ![p] = npl]
      BY <2>1
    <2>4. /\ IsPlan(npl) /\ \A v : ~MayCreate(npl, v)
          /\ Caches(npl, u) /\ \A v : ~Settles(npl, v)
          /\ (\A v, f : ~SignsIn(npl, v, f)) /\ ~NextIs(npl, "insertFirst")
      BY <2>3, SetNext
    <2> QED
      BY <1>3, <1>4, <1>5, <2>2, <2>3, <2>4, WriteOK
  <1>6. CASE ~Exists(u)
    <2>1. Return(p) /\ user' = user
      BY <1>2, <1>6 DEF UpdateRow
    <2>2. KeepsPlan(p)
      BY <1>4 DEF KeepsPlan
    <2> QED
      BY <1>3, <1>4, <2>1, <2>2, ReturnOK DEF Return
  <1> QED
    BY <1>5, <1>6

LEMMA ProvisionOK ==
    ASSUME NEW p \in Handlers, AccountInv, Provision(p)
    PROVE  Guarantee(p)
  <1>1. PICK u \in Uids, e \in Externs : plan[p] = <<<<"provision", u>>, <<"link", u, e>>>>
    BY ShapeOf, AtNext DEF AccountInv, PlanInv, Provision
  <1> DEFINE npl == <<<<"set", u, "USER">>, <<"link", u, e>>>>
  <1>2. Tail(plan[p]) = <<<<"link", u, e>>>> /\ Arg(p, 2) = u
    BY <1>1, OneMore
  <1>3. plan' = [plan EXCEPT ![p] = npl]
    <2>1. plan' = [plan EXCEPT ![p] = <<<<"set", u, "USER">>>> \o <<<<"link", u, e>>>>]
      BY <1>2 DEF Provision, Continue
    <2> QED
      BY <2>1, Joined
  <1>4. \A v : (MayCreate(plan[p], v) <=> v = u) /\ (Settles(plan[p], v) <=> v = u) /\ ~Caches(plan[p], v)
    <2>1. \A v : /\ MayCreate(<<<<"provision", u>>>>, v) <=> v = u
                 /\ ~Settles(<<<<"provision", u>>>>, v) /\ ~Caches(<<<<"provision", u>>>>, v)
      BY LeftOf2 DEF Creates
    <2>2. \A v : (Settles(<<<<"link", u, e>>>>, v) <=> v = u) /\ ~Caches(<<<<"link", u, e>>>>, v)
      BY LeftOf3
    <2> QED
      BY <1>1, <2>1, <2>2, LeftOfBoth
  <1>5. "USER" \in Roles
    BY DEF Roles
  <1>6. /\ IsPlan(npl) /\ \A v : ~MayCreate(npl, v)
        /\ Caches(npl, u) /\ \A v : Settles(npl, v) <=> v = u
        /\ (\A v, f : ~SignsIn(npl, v, f)) /\ ~NextIs(npl, "insertFirst")
    <2>1. IsPlan(npl)
      BY DEF IsPlan, PlanOf
    <2>2. /\ \A v : Settles(<<<<"link", u, e>>>>, v) <=> v = u
          /\ \A v, f : ~SignsIn(<<<<"link", u, e>>>>, v, f)
      BY LeftOf3
    <2>3. /\ \A v : ~MayCreate(<<<<"set", u, "USER">>>>, v)
          /\ Caches(<<<<"set", u, "USER">>>>, u)
          /\ \A v : ~Settles(<<<<"set", u, "USER">>>>, v)
          /\ \A v, f : ~SignsIn(<<<<"set", u, "USER">>>>, v, f)
          /\ ~NextIs(<<<<"set", u, "USER">>>>, "insertFirst")
      BY <1>5, SetNext
    <2> QED
      BY <2>1, <2>2, <2>3, LeftOfBoth
  <1>7. user' = [user EXCEPT ![u] = "USER"] /\ provisional' = provisional \cup {u}
    BY <1>2 DEF Provision
  <1>8. UNCHANGED <<identity, userCache, mutex, used, late, unlinked, cut, misfilled, bootstrapped>>
    BY DEF Provision, counters
  <1> HIDE DEF npl
  <1> QED
    BY <1>3, <1>4, <1>5, <1>6, <1>7, <1>8, WriteOK

-----------------------------------------------------------------------------
(***************************************************************************)
(* The statements that write a cache entry.                                *)
(***************************************************************************)
LEMMA CacheWriteOK ==
    ASSUME NEW p \in Handlers, AccountInv, NEW pl, NEW npl, plan[p] = pl, plan' = [plan EXCEPT ![p] = npl], IsPlan(npl),
           NEW u \in Uids, NEW x \in Roles \cup {NoUser}, userCache' = [userCache EXCEPT ![u] = x],
           x = NoUser \/ x = user[u] \/ u \in misfilled',
           \A v : v # u /\ v \in misfilled => v \in misfilled',
           \A v : ~MayCreate(npl, v), ~NextIs(npl, "insertFirst"),
           \A v, f : SignsIn(npl, v, f) => SignsIn(pl, v, f),
           \A v : Settles(pl, v) => Settles(npl, v), \A v : Caches(pl, v) => v = u,
           UNCHANGED <<user, identity, used, bootstrapped, provisional, late, unlinked, cut>>, KeepsPlan(p)
    PROVE  Guarantee(p)
  <1>1. OwnPlan(p) /\ plan'[p] = npl
    BY PlanMoves DEF AccountInv
  <1>2. userCache \in [Uids -> Roles \cup {NoUser}]
    BY DEF AccountInv, AccountTypeOK
  <1>3. userCache'[u] = x /\ \A v \in Uids \ {u} : userCache'[v] = userCache[v]
    BY <1>2
  <1>4. AccountTypeOK'
    <2>1. userCache' \in [Uids -> Roles \cup {NoUser}]
      BY <1>2
    <2> QED
      BY <2>1 DEF AccountInv, AccountTypeOK
  <1>5. LinkedUserExists'
    BY DEF AccountInv, LinkedUserExists, Exists
  <1>6. CreatesOwn(p)
    BY <1>1 DEF CreatesOwn, Exists
  <1>7. SettlesOwn(p)
    BY <1>1 DEF SettlesOwn
  <1>8. CachesOwn(p)
    BY <1>1, <1>3 DEF CachesOwn
  <1> QED
    BY <1>1, <1>4, <1>5, <1>6, <1>7, <1>8 DEF Guarantee

LEMMA SetCacheOK ==
    ASSUME NEW p \in Handlers, AccountInv, SetCache(p)
    PROVE  Guarantee(p)
  <1>1. PICK u \in Uids, role \in Roles :
          \/ plan[p] = <<<<"set", u, role>>>>
          \/ \E e \in Externs : plan[p] = <<<<"set", u, role>>, <<"signedIn", u, e>>>>
          \/ \E e \in Externs : plan[p] = <<<<"set", u, role>>, <<"link", u, e>>>>
    BY ShapeOf, AtNext DEF AccountInv, PlanInv, SetCache
  <1>2. Arg(p, 2) = u /\ Arg(p, 3) = role
    BY <1>1, LastLeft, OneMore
  <1>3. /\ userCache' = [userCache EXCEPT ![u] = role]
        /\ role = user[u] \/ u \in misfilled'
        /\ \A v : v # u /\ v \in misfilled => v \in misfilled'
    BY <1>2 DEF SetCache, CacheSet
  <1>4. KeepsPlan(p) /\ UNCHANGED <<user, identity, used, bootstrapped, provisional, late, unlinked, cut>>
    BY DEF SetCache, KeepsPlan, counters
  <1>5. \A v : /\ Caches(<<<<"set", u, role>>>>, v) <=> v = u
               /\ ~Settles(<<<<"set", u, role>>>>, v)
    BY SetNext
  <1>6. role \in Roles \cup {NoUser}
    OBVIOUS
  <1>7. CASE plan[p] = <<<<"set", u, role>>>>
    <2>1. plan' = [plan EXCEPT ![p] = <<>>]
      <3>1. Tail(plan[p]) = <<>>
        BY <1>7, LastLeft
      <3> QED
        BY <3>1, Joined DEF SetCache, Continue
    <2>2. \A v : (Caches(plan[p], v) <=> v = u) /\ ~Settles(plan[p], v)
      BY <1>5, <1>7
    <2> QED
      BY <1>3, <1>4, <1>6, <2>1, <2>2, NothingLeft, CacheWriteOK
  <1>8. CASE \E op \in {"signedIn", "link"}, e \in Externs : plan[p] = <<<<"set", u, role>>, <<op, u, e>>>>
    <2>1. PICK op \in {"signedIn", "link"}, e \in Externs : plan[p] = <<<<"set", u, role>>, <<op, u, e>>>>
      BY <1>8
    <2> DEFINE npl == <<<<op, u, e>>>>
    <2>2. plan' = [plan EXCEPT ![p] = npl]
      <3>1. Tail(plan[p]) = npl
        BY <2>1, OneMore
      <3>2. <<>> \o npl = npl
        BY Joined
      <3> QED
        BY <3>1, <3>2 DEF SetCache, Continue
    <2>3. IsPlan(npl)
      BY DEF IsPlan, PlanOf
    <2>4. (\A v : ~MayCreate(npl, v) /\ ~Caches(npl, v)) /\ ~NextIs(npl, "insertFirst")
      BY LeftOf3 DEF Creates
    <2>5. \A v : (Caches(plan[p], v) <=> v = u) /\ (Settles(plan[p], v) <=> Settles(npl, v))
      BY <1>5, <2>1, <2>4, LeftOfBoth
    <2>6. \A v, f : SignsIn(npl, v, f) => SignsIn(plan[p], v, f)
      BY <2>1, LeftOfBoth
    <2> HIDE DEF npl
    <2> QED
      BY <1>3, <1>4, <1>6, <2>2, <2>3, <2>4, <2>5, <2>6, CacheWriteOK
  <1> QED
    BY <1>1, <1>7, <1>8

LEMMA UncacheOK ==
    ASSUME NEW p \in Handlers, AccountInv, Uncache(p)
    PROVE  Guarantee(p)
  <1>1. PICK u \in Uids : \/ plan[p] = <<<<"uncache", u>>>>
                          \/ \E e \in Externs : plan[p] = <<<<"uncache", u>>, <<"winner", u, e>>>>
    BY ShapeOf, AtNext DEF AccountInv, PlanInv, Uncache
  <1>2. Arg(p, 2) = u
    BY <1>1, LastLeft, OneMore
  <1>3. /\ userCache' = [userCache EXCEPT ![u] = NoUser]
        /\ \A v : v # u /\ v \in misfilled => v \in misfilled'
    BY <1>2 DEF Uncache
  <1>4. KeepsPlan(p) /\ UNCHANGED <<user, identity, used, bootstrapped, provisional, late, unlinked, cut>>
    BY DEF Uncache, KeepsPlan, counters
  <1>5. \A v : (Caches(<<<<"uncache", u>>>>, v) <=> v = u) /\ ~Settles(<<<<"uncache", u>>>>, v)
    BY LeftOf2
  <1>6. NoUser \in Roles \cup {NoUser}
    OBVIOUS
  <1>7. CASE plan[p] = <<<<"uncache", u>>>>
    <2>1. plan' = [plan EXCEPT ![p] = <<>>]
      <3>1. Tail(plan[p]) = <<>>
        BY <1>7, LastLeft
      <3> QED
        BY <3>1, Joined DEF Uncache, Continue
    <2>2. \A v : (Caches(plan[p], v) <=> v = u) /\ ~Settles(plan[p], v)
      BY <1>5, <1>7
    <2> QED
      BY <1>3, <1>4, <1>6, <2>1, <2>2, NothingLeft, CacheWriteOK
  <1>8. CASE \E e \in Externs : plan[p] = <<<<"uncache", u>>, <<"winner", u, e>>>>
    <2>1. PICK e \in Externs : plan[p] = <<<<"uncache", u>>, <<"winner", u, e>>>>
      BY <1>8
    <2> DEFINE npl == <<<<"winner", u, e>>>>
    <2>2. plan' = [plan EXCEPT ![p] = npl]
      <3>1. Tail(plan[p]) = npl
        BY <2>1, OneMore
      <3>2. <<>> \o npl = npl
        BY Joined
      <3> QED
        BY <3>1, <3>2 DEF Uncache, Continue
    <2>3. IsPlan(npl)
      BY DEF IsPlan, PlanOf
    <2>4. /\ \A v : ~MayCreate(npl, v) /\ ~Caches(npl, v) /\ ~Settles(npl, v)
          /\ ~NextIs(npl, "insertFirst")
          /\ \A v, f : ~SignsIn(npl, v, f)
      BY LeftOf3 DEF Creates
    <2>5. \A v : (Caches(plan[p], v) <=> v = u) /\ ~Settles(plan[p], v)
      BY <1>5, <2>1, <2>4, LeftOfBoth
    <2> HIDE DEF npl
    <2> QED
      BY <1>3, <1>4, <1>6, <2>2, <2>3, <2>4, <2>5, CacheWriteOK
  <1> QED
    BY <1>1, <1>7, <1>8

-----------------------------------------------------------------------------
(***************************************************************************)
(* The statements that make and remove links.                              *)
(***************************************************************************)
LEMMA LinkOK ==
    ASSUME NEW p \in Handlers, AccountInv, NEW pl, NEW npl, plan[p] = pl, plan' = [plan EXCEPT ![p] = npl], IsPlan(npl),
           NEW u \in Uids, NEW e \in Externs, identity[e] = NoUser, Link(e, u),
           \A v : ~MayCreate(npl, v), ~NextIs(npl, "insertFirst"),
           \A v, f : SignsIn(npl, v, f) => v = u /\ f = e,
           \A v : Settles(pl, v) => v = u, \A v : ~Caches(pl, v),
           UNCHANGED <<user, userCache, mutex, used, bootstrapped, provisional, unlinked, cut, misfilled>>
    PROVE  Guarantee(p)
  <1>1. OwnPlan(p) /\ plan'[p] = npl
    BY PlanMoves DEF AccountInv
  <1>2. identity \in [Externs -> Uids \cup {NoUser}]
    BY DEF AccountInv, AccountTypeOK
  <1>3. identity'[e] = u /\ \A f \in Externs \ {e} : identity'[f] = identity[f]
    BY <1>2 DEF Link
  <1>4. AccountTypeOK'
    <2>1. identity' \in [Externs -> Uids \cup {NoUser}]
      BY <1>2 DEF Link
    <2> QED
      BY <2>1 DEF AccountInv, AccountTypeOK
  <1>5. LinkedUserExists'
    <2> SUFFICES ASSUME NEW f \in Externs, identity'[f] # NoUser
                 PROVE  user[identity'[f]] # NoUser \/ f \in late'
      BY DEF LinkedUserExists, Exists
    <2>1. CASE f = e
      BY <1>3, <2>1 DEF Link, Exists
    <2>2. CASE f # e
      BY <1>3, <2>2 DEF Link, AccountInv, LinkedUserExists, Exists
    <2> QED
      BY <2>1, <2>2
  <1>6. KeepsPlan(p)
    BY DEF KeepsPlan
  <1>7. CreatesOwn(p)
    BY <1>1 DEF CreatesOwn, Exists
  <1>8. SettlesOwn(p)
    BY <1>1, <1>3 DEF SettlesOwn
  <1>9. CachesOwn(p)
    BY <1>1 DEF CachesOwn
  <1> QED
    BY <1>1, <1>4, <1>5, <1>6, <1>7, <1>8, <1>9 DEF Guarantee

LEMMA LinkProvisionalOK ==
    ASSUME NEW p \in Handlers, AccountInv, LinkProvisional(p)
    PROVE  Guarantee(p)
  <1>1. PICK u \in Uids, e \in Externs : plan[p] = <<<<"link", u, e>>>>
    BY ShapeOf, AtNext DEF AccountInv, PlanInv, LinkProvisional
  <1>2. Tail(plan[p]) = <<>> /\ Arg(p, 2) = u /\ Arg(p, 3) = e
    BY <1>1, LastLeft
  <1>3. \A v : ~Caches(plan[p], v) /\ (Settles(plan[p], v) <=> v = u)
    BY <1>1, LeftOf3
  <1>4. CASE CanLink(e, u)
    <2> DEFINE npl == <<<<"signedIn", u, e>>>>
    <2>1. plan' = [plan EXCEPT ![p] = npl]
      <3>1. plan' = [plan EXCEPT ![p] = npl \o <<>>]
        BY <1>2, <1>4 DEF LinkProvisional, Continue
      <3> QED
        BY <3>1, Joined
    <2>2. IsPlan(npl)
      BY DEF IsPlan, PlanOf
    <2>3. /\ \A v : ~MayCreate(npl, v)
          /\ ~NextIs(npl, "insertFirst")
          /\ \A v, f : SignsIn(npl, v, f) => v = u /\ f = e
      BY LeftOf3 DEF Creates
    <2>4. identity[e] = NoUser /\ Link(e, u)
      BY <1>2, <1>4 DEF LinkProvisional, CanLink
    <2>5. UNCHANGED <<user, userCache, mutex, used, bootstrapped, provisional, unlinked, cut, misfilled>>
      BY DEF LinkProvisional, counters
    <2> HIDE DEF npl
    <2> QED
      BY <1>3, <2>1, <2>2, <2>3, <2>4, <2>5, LinkOK
  <1>5. CASE ~CanLink(e, u)
    <2> DEFINE npl == <<<<"delete", u>>, <<"winner", u, e>>>>
    <2>1. plan' = [plan EXCEPT ![p] = npl]
      <3>1. plan' = [plan EXCEPT ![p] = npl \o <<>>]
        BY <1>2, <1>5 DEF LinkProvisional, Continue
      <3> QED
        BY <3>1, Joined
    <2>2. IsPlan(npl)
      BY DEF IsPlan, PlanOf
    <2>3. /\ \A v : ~MayCreate(<<<<"delete", u>>>>, v) /\ (Settles(<<<<"delete", u>>>>, v) <=> v = u)
          /\ ~NextIs(<<<<"delete", u>>>>, "insertFirst")
          /\ \A v, f : ~SignsIn(<<<<"delete", u>>>>, v, f)
      BY LeftOf2 DEF Creates
    <2>4. \A v, f : ~SignsIn(<<<<"winner", u, e>>>>, v, f)
      BY LeftOf3
    <2>5. /\ \A v : ~MayCreate(npl, v) /\ (v = u => Settles(npl, v))
          /\ ~NextIs(npl, "insertFirst")
          /\ \A v, f : ~SignsIn(npl, v, f)
      BY <2>3, <2>4, LeftOfBoth
    <2>6. UNCHANGED <<tables, history>> /\ used' = used
      BY <1>2, <1>5 DEF LinkProvisional, counters, tables, history
    <2> HIDE DEF npl
    <2> QED
      BY <1>3, <2>1, <2>2, <2>5, <2>6, LooksOnly
  <1> QED
    BY <1>4, <1>5

LEMMA BindRowOK ==
    ASSUME NEW p \in Handlers, AccountInv, BindRow(p)
    PROVE  Guarantee(p)
  <1>1. PICK u \in Uids, e \in Externs : plan[p] = <<<<"bindRow", u, e>>>>
    BY ShapeOf, AtNext DEF AccountInv, PlanInv, BindRow
  <1>2. Arg(p, 2) = u /\ Arg(p, 3) = e
    BY <1>1, LastLeft
  <1>3. \A v : ~Caches(plan[p], v) /\ ~Settles(plan[p], v)
    BY <1>1, LeftOf3
  <1>4. plan' = [plan EXCEPT ![p] = <<>>]
    BY DEF BindRow, Return
  <1>5. UNCHANGED <<user, userCache, mutex, used, bootstrapped, provisional, unlinked, cut, misfilled>>
    BY DEF BindRow, counters
  <1>6. CASE CanLink(e, u)
    <2>1. identity[e] = NoUser /\ Link(e, u)
      BY <1>2, <1>6 DEF BindRow, CanLink
    <2> QED
      BY <1>3, <1>4, <1>5, <2>1, NothingLeft, LinkOK
  <1>7. CASE ~CanLink(e, u)
    <2>1. UNCHANGED <<identity, late>>
      BY <1>2, <1>7 DEF BindRow
    <2> QED
      BY <1>3, <1>4, <1>5, <2>1, NothingLeft, LooksOnly DEF tables, history
  <1> QED
    BY <1>6, <1>7

\* Both statements that remove the links of a user; deleting the user removes
\* the row as well.
LEMMA UnlinkOK ==
    ASSUME NEW p \in Handlers, AccountInv, NEW pl, NEW npl, plan[p] = pl, plan' = [plan EXCEPT ![p] = npl], IsPlan(npl),
           NEW u \in Uids,
           user' = user \/ (user' = [user EXCEPT ![u] = NoUser] /\ Caches(npl, u)),
           identity' = [e \in Externs |-> IF identity[e] = u THEN NoUser ELSE identity[e]],
           unlinked' = unlinked \cup {u} \cup {e \in Externs : identity[e] = u},
           \A v : ~MayCreate(npl, v), ~NextIs(npl, "insertFirst"), \A v, f : ~SignsIn(npl, v, f),
           \A v : Settles(pl, v) => v = u, \A v : ~Caches(pl, v),
           UNCHANGED <<userCache, mutex, used, bootstrapped, provisional, late, cut, misfilled>>
    PROVE  Guarantee(p)
  <1>1. OwnPlan(p) /\ plan'[p] = npl
    BY PlanMoves DEF AccountInv
  <1>2. user \in [Uids -> Roles \cup {NoUser}] /\ identity \in [Externs -> Uids \cup {NoUser}]
    BY DEF AccountInv, AccountTypeOK
  <1>3. user' \in [Uids -> Roles \cup {NoUser}] /\ \A v \in Uids \ {u} : user'[v] = user[v]
    BY <1>2
  <1>4. user'[u] = user[u] \/ (user'[u] = NoUser /\ Caches(npl, u))
    BY <1>2
  <1>5. AccountTypeOK'
    <2>1. identity' \in [Externs -> Uids \cup {NoUser}]
      BY <1>2
    <2> QED
      BY <1>3, <2>1 DEF AccountInv, AccountTypeOK
  <1>6. LinkedUserExists'
    <2> SUFFICES ASSUME NEW e \in Externs, identity'[e] # NoUser
                 PROVE  user'[identity'[e]] # NoUser \/ e \in late
      BY DEF LinkedUserExists, Exists
    <2>1. identity'[e] = identity[e] /\ identity[e] # u /\ identity[e] \in Uids
      BY <1>2
    <2> QED
      BY <1>3, <2>1 DEF AccountInv, LinkedUserExists, Exists
  <1>7. KeepsPlan(p)
    BY DEF KeepsPlan
  <1>8. CreatesOwn(p)
    <2>1. \A v \in Uids : Exists(v)' => Exists(v)
      BY <1>3, <1>4 DEF Exists
    <2> QED
      BY <1>1, <2>1 DEF CreatesOwn
  <1>9. SettlesOwn(p)
    <2>1. \A e \in Externs : identity[e] = u => e \in unlinked'
      OBVIOUS
    <2>2. \A e \in Externs : identity[e] # u => identity'[e] = identity[e]
      OBVIOUS
    <2>3. u \in unlinked'
      OBVIOUS
    <2> QED
      BY <1>1, <2>1, <2>2, <2>3 DEF SettlesOwn
  <1>10. CachesOwn(p)
    BY <1>1, <1>3, <1>4 DEF CachesOwn
  <1> QED
    BY <1>1, <1>5, <1>6, <1>7, <1>8, <1>9, <1>10 DEF Guarantee

LEMMA UnlinkRowOK ==
    ASSUME NEW p \in Handlers, AccountInv, UnlinkRow(p)
    PROVE  Guarantee(p)
  <1>1. PICK u \in Uids : plan[p] = <<<<"unlink", u>>>>
    BY ShapeOf, AtNext DEF AccountInv, PlanInv, UnlinkRow
  <1>2. Tail(plan[p]) = <<>> /\ Arg(p, 2) = u
    BY <1>1, LastLeft
  <1>3. plan' = [plan EXCEPT ![p] = <<>>]
    BY <1>2, Joined DEF UnlinkRow, Continue
  <1>4. \A v : ~Caches(plan[p], v) /\ ~Settles(plan[p], v)
    BY <1>1, LeftOf2
  <1>5. /\ identity' = [e \in Externs |-> IF identity[e] = u THEN NoUser ELSE identity[e]]
        /\ unlinked' = unlinked \cup {u} \cup {e \in Externs : identity[e] = u}
    BY <1>2 DEF UnlinkRow
  <1>6. UNCHANGED <<user, userCache, mutex, used, bootstrapped, provisional, late, cut, misfilled>>
    BY DEF UnlinkRow, counters
  <1> QED
    BY <1>3, <1>4, <1>5, <1>6, NothingLeft, UnlinkOK

LEMMA DeleteRowOK ==
    ASSUME NEW p \in Handlers, AccountInv, DeleteRow(p)
    PROVE  Guarantee(p)
  <1>1. PICK u \in Uids : \/ plan[p] = <<<<"delete", u>>>>
                          \/ \E e \in Externs : plan[p] = <<<<"delete", u>>, <<"winner", u, e>>>>
    BY ShapeOf, AtNext DEF AccountInv, PlanInv, DeleteRow
  <1>2. Arg(p, 2) = u
    BY <1>1, LastLeft, OneMore
  <1>3. /\ user' = [user EXCEPT ![u] = NoUser]
        /\ identity' = [e \in Externs |-> IF identity[e] = u THEN NoUser ELSE identity[e]]
        /\ unlinked' = unlinked \cup {u} \cup {e \in Externs : identity[e] = u}
    BY <1>2 DEF DeleteRow
  <1>4. UNCHANGED <<userCache, mutex, used, bootstrapped, provisional, late, cut, misfilled>>
    BY DEF DeleteRow, counters
  <1>5. \A v : ~Caches(<<<<"delete", u>>>>, v) /\ (Settles(<<<<"delete", u>>>>, v) <=> v = u)
    BY LeftOf2
  <1>6. /\ \A v : ~MayCreate(<<<<"uncache", u>>>>, v)
        /\ Caches(<<<<"uncache", u>>>>, u)
        /\ ~NextIs(<<<<"uncache", u>>>>, "insertFirst")
        /\ \A v, f : ~SignsIn(<<<<"uncache", u>>>>, v, f)
    BY LeftOf2 DEF Creates
  <1>7. CASE plan[p] = <<<<"delete", u>>>>
    <2>1. PICK npl : npl = <<<<"uncache", u>>>>
      OBVIOUS
    <2>2. plan' = [plan EXCEPT ![p] = npl]
      <3>1. Tail(plan[p]) = <<>>
        BY <1>7, LastLeft
      <3>2. plan' = [plan EXCEPT ![p] = <<<<"uncache", u>>>> \o <<>>]
        BY <1>2, <3>1 DEF DeleteRow, Continue
      <3> QED
        BY <2>1, <3>2, Joined
    <2>3. IsPlan(npl)
      BY <2>1 DEF IsPlan, PlanOf
    <2>4. \A v : ~Caches(plan[p], v) /\ (Settles(plan[p], v) <=> v = u)
      BY <1>5, <1>7
    <2>5. /\ \A v : ~MayCreate(npl, v)
          /\ Caches(npl, u)
          /\ ~NextIs(npl, "insertFirst")
          /\ \A v, f : ~SignsIn(npl, v, f)
      BY <1>6, <2>1
    <2> QED
      BY <1>3, <1>4, <2>2, <2>3, <2>4, <2>5, UnlinkOK
  <1>8. CASE \E e \in Externs : plan[p] = <<<<"delete", u>>, <<"winner", u, e>>>>
    <2>1. PICK e \in Externs : plan[p] = <<<<"delete", u>>, <<"winner", u, e>>>>
      BY <1>8
    <2>2. PICK npl : npl = <<<<"uncache", u>>, <<"winner", u, e>>>>
      OBVIOUS
    <2>3. plan' = [plan EXCEPT ![p] = npl]
      <3>1. Tail(plan[p]) = <<<<"winner", u, e>>>>
        BY <2>1, OneMore
      <3>2. plan' = [plan EXCEPT ![p] = <<<<"uncache", u>>>> \o <<<<"winner", u, e>>>>]
        BY <1>2, <3>1 DEF DeleteRow, Continue
      <3> QED
        BY <2>2, <3>2, Joined
    <2>4. IsPlan(npl)
      BY <2>2 DEF IsPlan, PlanOf
    <2>5. /\ \A v : ~Caches(<<<<"winner", u, e>>>>, v) /\ ~Settles(<<<<"winner", u, e>>>>, v)
          /\ \A v, f : ~SignsIn(<<<<"winner", u, e>>>>, v, f)
      BY LeftOf3
    <2>6. \A v : ~Caches(plan[p], v) /\ (Settles(plan[p], v) <=> v = u)
      BY <1>5, <2>1, <2>5, LeftOfBoth
    <2>7. /\ \A v : ~MayCreate(npl, v)
          /\ Caches(npl, u)
          /\ ~NextIs(npl, "insertFirst")
          /\ \A v, f : ~SignsIn(npl, v, f)
      BY <1>6, <2>2, <2>5, LeftOfBoth
    <2> QED
      BY <1>3, <1>4, <2>3, <2>4, <2>6, <2>7, UnlinkOK
  <1> QED
    BY <1>1, <1>7, <1>8

LEMMA StatementOK ==
    ASSUME NEW p \in Handlers, AccountInv, Statement(p)
    PROVE  Guarantee(p)
  BY CheckFirstOK, FirstOK, InsertFirstOK, RegisterOK, InsertOK, UpdateRowOK, SetCacheOK, GetUserOK, DeleteRowOK,
     UncacheOK, ResolveSSOUserOK, ProvisionOK, LinkProvisionalOK, WinnerOK, SignedInOK, BindOK, BindRowOK, UnlinkRowOK
  DEF Statement

-----------------------------------------------------------------------------
(***************************************************************************)
(* The process as a whole.                                                 *)
(***************************************************************************)
LEMMA AccountInitInv == AccountInit => AccountInv
  <1> SUFFICES ASSUME AccountInit PROVE AccountInv
    OBVIOUS
  <1>1. AccountTypeOK
    BY DEF AccountInit, AccountTypeOK
  <1>2. DOMAIN plan = Handlers /\ \A p \in Handlers : plan[p] = <<>>
    BY DEF AccountInit
  <1>3. PlanInv
    BY <1>2 DEF PlanInv, IsPlan
  <1>4. FreshUserInv
    <2>1. \A u \in Uids : Exists(u) => u \in used
      BY DEF AccountInit, Exists
    <2>2. bootstrapped = {} /\ provisional = {}
      BY DEF AccountInit
    <2> QED
      BY <1>2, <2>1, <2>2, NothingLeft DEF FreshUserInv
  <1>5. FirstInv
    BY <1>2, NothingLeft DEF FirstInv, AccountInit
  <1>6. NoOrphanUser
    BY DEF AccountInit, NoOrphanUser
  <1>7. SignsInAsLinked
    BY <1>2, NothingLeft, SignedInAs
  <1>8. LinkedUserExists
    BY DEF AccountInit, LinkedUserExists, Exists
  <1>9. CachedUserIsCurrent
    BY DEF AccountInit, CachedUserIsCurrent
  <1> QED
    BY <1>1, <1>3, <1>4, <1>5, <1>6, <1>7, <1>8, <1>9 DEF AccountInv

LEMMA ExpireUserKeepsInv ==
    ASSUME AccountInv, NEW u \in Uids, ExpireUser(u)
    PROVE  AccountInv'
  <1>1. userCache'[u] = NoUser /\ \A v \in Uids \ {u} : userCache'[v] = userCache[v] /\ (v \in misfilled => v \in misfilled')
    BY DEF ExpireUser, AccountInv, AccountTypeOK
  <1>2. AccountTypeOK'
    BY DEF ExpireUser, AccountInv, AccountTypeOK
  <1>3. PlanInv'
    BY DEF ExpireUser, AccountInv, PlanInv
  <1>4. FreshUserInv'
    BY DEF ExpireUser, AccountInv, FreshUserInv, counters, Exists
  <1>5. FirstInv'
    BY DEF ExpireUser, AccountInv, FirstInv, Exists
  <1>6. NoOrphanUser'
    BY DEF ExpireUser, AccountInv, NoOrphanUser, Exists, IsLinked, Pending
  <1>7. SignsInAsLinked'
    BY DEF ExpireUser, AccountInv, SignsInAsLinked
  <1>8. LinkedUserExists'
    BY DEF ExpireUser, AccountInv, LinkedUserExists, Exists
  <1>9. CachedUserIsCurrent'
    <2>1. user' = user /\ plan' = plan
      BY DEF ExpireUser
    <2>2. \A v \in Uids : userCache[v] \in {NoUser, user[v]} \/ (\E p \in Handlers : Caches(plan[p], v)) \/ v \in misfilled
      BY PartsOf DEF AccountInv
    <2>3. ASSUME NEW v \in Uids
          PROVE  \/ userCache'[v] \in {NoUser, user'[v]}
                 \/ \E p \in Handlers : Caches(plan'[p], v)
                 \/ v \in misfilled'
      <3>1. CASE v = u
        BY <1>1, <3>1
      <3>2. CASE v # u
        BY <1>1, <2>1, <2>2, <3>2
      <3> QED
        BY <3>1, <3>2
    <2> QED
      BY <2>3, PartsOfNext
  <1> QED
    BY <1>2, <1>3, <1>4, <1>5, <1>6, <1>7, <1>8, <1>9 DEF AccountInv

LEMMA ServerDiesKeepsInv ==
    ASSUME AccountInv, ServerDies
    PROVE  AccountInv'
  <1>1. DOMAIN plan' = Handlers /\ \A p \in Handlers : plan'[p] = <<>>
    BY DEF ServerDies
  <1>2. UNCHANGED <<user, identity, used, bootstrapped, provisional, late, unlinked>>
    BY DEF ServerDies
  <1>3. AccountTypeOK'
    BY DEF ServerDies, AccountInv, AccountTypeOK
  <1>4. PlanInv'
    BY <1>1 DEF PlanInv, IsPlan
  <1>5. FreshUserInv'
    BY <1>1, <1>2, NothingLeft DEF AccountInv, FreshUserInv, Exists
  <1>6. FirstInv'
    BY <1>1, <1>2, NothingLeft DEF AccountInv, FirstInv, Exists
  <1>7. NoOrphanUser'
    <2> SUFFICES ASSUME NEW u \in provisional, Exists(u)
                 PROVE  IsLinked(u)' \/ u \in cut' \cup unlinked'
      BY <1>2, PartsOfNext DEF Exists
    <2>1. IsLinked(u) \/ (\E p \in Handlers : Settles(plan[p], u)) \/ u \in cut \cup unlinked
      BY PartsOf DEF AccountInv
    <2>2. CASE \E p \in Handlers : Settles(plan[p], u)
      BY <2>2, ProvisionalsOf DEF ServerDies
    <2> QED
      BY <1>2, <2>1, <2>2 DEF IsLinked, ServerDies
  <1>8. SignsInAsLinked'
    BY <1>1, NothingLeft, PartsOfNext
  <1>9. LinkedUserExists'
    BY <1>2 DEF AccountInv, LinkedUserExists, Exists
  <1>10. CachedUserIsCurrent'
    BY PartsOfNext DEF ServerDies
  <1> QED
    BY <1>3, <1>4, <1>5, <1>6, <1>7, <1>8, <1>9, <1>10 DEF AccountInv

LEMMA AccountNextInv ==
    ASSUME AccountInv, [AccountNext]_accountVars
    PROVE  AccountInv'
  <1>1. CASE UNCHANGED accountVars
    BY <1>1 DEF accountVars, AccountInv, AccountTypeOK, PlanInv, FreshUserInv, FirstInv, NoOrphanUser, SignsInAsLinked,
                LinkedUserExists, CachedUserIsCurrent, Exists, IsLinked, Pending
  <1>2. CASE \E p \in Handlers : Request(p) \/ Statement(p) \/ StatementFails(p) \/ LinkFails(p)
    BY <1>2, RequestOK, StatementOK, StatementFailsOK, LinkFailsOK, GuaranteeKeepsInv
  <1>3. CASE \E u \in Uids : ExpireUser(u)
    BY <1>3, ExpireUserKeepsInv
  <1>4. CASE ServerDies
    BY <1>4, ServerDiesKeepsInv
  <1> QED
    BY <1>1, <1>2, <1>3, <1>4 DEF AccountNext

LEMMA AccountsStayInv == AccountSpec => []AccountInv
  BY AccountInitInv, AccountNextInv, PTL DEF AccountSpec

\* Of all the administrators created on an instance without users, the one
\* that exists is the only one.
LEMMA FirstIsOne == AccountInv => OneFirstAdmin
  <1> SUFFICES ASSUME AccountInv PROVE OneFirstAdmin
    OBVIOUS
  <1> DEFINE S == {u \in bootstrapped : Exists(u)}
  <1>1. \A u, v \in S : u = v
    BY DEF AccountInv, FirstInv
  <1>2. CASE S = {}
    BY <1>2, FS_EmptySet DEF OneFirstAdmin
  <1>3. CASE S # {}
    <2>1. PICK u : S = {u}
      BY <1>1, <1>3
    <2> QED
      BY <2>1, FS_Singleton DEF OneFirstAdmin
  <1> QED
    BY <1>2, <1>3

\* Whichever sign-ups, sign-ons, links and deletions race, fail half way or are
\* cut short by a restart, for any numbers of requests, users and external
\* accounts, there is one first administrator, no external account signs in as
\* a user it is not linked to, no user of a first sign-on is left unlinked, and
\* no link leads nowhere, except as the histories record.
THEOREM AccountRacesSettle == AccountSpec => []RacesSettle
  <1>1. AccountInv => RacesSettle
    BY FirstIsOne DEF AccountInv, RacesSettle
  <1> QED
    BY <1>1, AccountsStayInv, PTL

\* The user cache holds the rows, or a write of the entry is on its way, unless
\* an entry was stored out of order (Store.CreateUser, UpdateUser, GetUser and
\* DeleteUser, which touch the table and the cache in two steps).
THEOREM CachedUsersStayCurrent == AccountSpec => []CachedUserIsCurrent
  <1>1. AccountInv => CachedUserIsCurrent
    BY DEF AccountInv
  <1> QED
    BY <1>1, AccountsStayInv, PTL
=============================================================================
