-------------------------- MODULE MemoStoreProofs --------------------------
(***************************************************************************)
(* Proofs about MemoStore, for any numbers of users, memos, attachments    *)
(* and goroutines and any number of requests, failed statements and        *)
(* crashes.                                                                *)
(***************************************************************************)
EXTENDS MemoStore, FiniteSetTheorems, TLAPS

(***************************************************************************)
(* Plans: what a request still has to execute.  Each statement names what  *)
(* it is about in its second place.                                        *)
(***************************************************************************)
IsPlan(pl) == \E S : pl \in Seq(S)
Is(s, op, x) == s[1] = op /\ s[2] = x
Has(pl, op, x) == \E i \in DOMAIN pl : Is(pl[i], op, x)

\* A statement op about x is in front of the i-th statement of a plan.
Before(pl, i, op, x) == \E j \in 1 .. (i - 1) : Is(pl[j], op, x)

LEMMA PlanDomain ==
    ASSUME NEW pl, IsPlan(pl)
    PROVE  Len(pl) \in Nat /\ DOMAIN pl = 1 .. Len(pl) /\ (pl # <<>> <=> 1 \in DOMAIN pl)
           /\ (pl # <<>> => Head(pl) = pl[1])
  <1>1. PICK S : pl \in Seq(S)
    BY DEF IsPlan
  <1> QED
    BY <1>1

LEMMA FunctionIsPlan ==
    ASSUME NEW pl, NEW n \in Nat, NEW S, pl \in [1 .. n -> S]
    PROVE  IsPlan(pl) /\ Len(pl) = n
  <1>1. pl \in Seq(S)
    OBVIOUS
  <1> QED
    BY <1>1 DEF IsPlan

LEMMA JoinedPlan ==
    ASSUME NEW a, IsPlan(a), NEW b, IsPlan(b)
    PROVE  /\ IsPlan(a \o b) /\ Len(a \o b) = Len(a) + Len(b)
           /\ \A k \in 1 .. Len(a) : (a \o b)[k] = a[k]
           /\ \A k \in 1 .. Len(b) : (a \o b)[Len(a) + k] = b[k]
  <1>1. PICK S : a \in Seq(S)
    BY DEF IsPlan
  <1>2. PICK T : b \in Seq(T)
    BY DEF IsPlan
  <1>3. PICK U : U = S \cup T
    OBVIOUS
  <1>4. a \in Seq(U) /\ b \in Seq(U)
    BY <1>1, <1>2, <1>3
  <1>5. a \o b \in Seq(U) /\ Len(a \o b) = Len(a) + Len(b)
    BY <1>4
  <1> QED
    BY <1>4, <1>5 DEF IsPlan

LEMMA TailPlan ==
    ASSUME NEW pl, IsPlan(pl), pl # <<>>
    PROVE  /\ IsPlan(Tail(pl)) /\ Len(Tail(pl)) = Len(pl) - 1
           /\ \A k \in 1 .. (Len(pl) - 1) : Tail(pl)[k] = pl[k + 1]
  <1>1. PICK S : pl \in Seq(S)
    BY DEF IsPlan
  <1> QED
    BY <1>1 DEF IsPlan

\* The k-th statement of npl, one of more or what was behind the head of pl.
CameFrom(pl, more, npl, k) ==
    \/ k \in DOMAIN more /\ npl[k] = more[k]
    \/ \E i \in DOMAIN pl : i >= 2 /\ k = i - 1 + Len(more) /\ npl[k] = pl[i]

\* A plan whose first statement is replaced by others: where the statements
\* are afterwards.
LEMMA Continued ==
    ASSUME NEW pl, IsPlan(pl), pl # <<>>, NEW more, IsPlan(more), NEW npl, npl = more \o Tail(pl)
    PROVE  /\ IsPlan(npl)
           /\ \A k \in 1 .. Len(more) : k \in DOMAIN npl /\ npl[k] = more[k]
           /\ \A k \in DOMAIN npl : CameFrom(pl, more, npl, k)
           /\ \A i \in DOMAIN pl : i >= 2 => i - 1 + Len(more) \in DOMAIN npl /\ npl[i - 1 + Len(more)] = pl[i]
  <1>1. PICK n \in Nat : n = Len(more) /\ DOMAIN more = 1 .. n
    BY PlanDomain
  <1>2. PICK l \in Nat : l = Len(pl) /\ DOMAIN pl = 1 .. l /\ l >= 1
    BY PlanDomain
  <1>3. PICK t : t = Tail(pl)
    OBVIOUS
  <1>4. IsPlan(t) /\ Len(t) = l - 1 /\ \A k \in 1 .. (l - 1) : t[k] = pl[k + 1]
    BY <1>2, <1>3, TailPlan
  <1>5. /\ IsPlan(npl) /\ Len(npl) = n + (l - 1)
        /\ \A k \in 1 .. n : npl[k] = more[k]
        /\ \A k \in 1 .. (l - 1) : npl[n + k] = t[k]
    <2>1. npl = more \o t
      BY <1>3
    <2>2. /\ IsPlan(npl) /\ Len(npl) = Len(more) + Len(t)
          /\ \A k \in 1 .. Len(more) : npl[k] = more[k]
          /\ \A k \in 1 .. Len(t) : npl[Len(more) + k] = t[k]
      <3>1. IsPlan(more) /\ IsPlan(t)
        BY <1>4
      <3>2. IsPlan(more \o t) /\ Len(more \o t) = Len(more) + Len(t)
        BY ONLY <3>1, JoinedPlan
      <3>3. \A k \in 1 .. Len(more) : (more \o t)[k] = more[k]
        BY ONLY <3>1, JoinedPlan
      <3>4. \A k \in 1 .. Len(t) : (more \o t)[Len(more) + k] = t[k]
        BY ONLY <3>1, JoinedPlan
      <3> QED
        BY ONLY <2>1, <3>2, <3>3, <3>4
    <2>3. Len(more) = n /\ Len(t) = l - 1
      BY <1>1, <1>4
    <2>4. IsPlan(npl) /\ Len(npl) = n + (l - 1)
      BY ONLY <2>2, <2>3
    <2>5. \A k \in 1 .. n : npl[k] = more[k]
      BY ONLY <2>2, <2>3
    <2>6. \A k \in 1 .. (l - 1) : npl[n + k] = t[k]
      BY ONLY <2>2, <2>3
    <2> QED
      BY <2>4, <2>5, <2>6
  <1>6. DOMAIN npl = 1 .. (n + (l - 1))
    BY <1>5, PlanDomain
  <1>7. \A k \in 1 .. n : k \in DOMAIN npl /\ npl[k] = more[k]
    BY <1>2, <1>5, <1>6
  <1>8. ASSUME NEW i \in 2 .. l PROVE i - 1 + n \in DOMAIN npl /\ npl[i - 1 + n] = pl[i]
    <2>1. i - 1 \in 1 .. (l - 1) /\ n + (i - 1) = i - 1 + n /\ (i - 1) + 1 = i
      OBVIOUS
    <2>2. npl[n + (i - 1)] = t[i - 1] /\ t[i - 1] = pl[(i - 1) + 1]
      BY ONLY <1>4, <1>5, <2>1
    <2>3. n + (i - 1) \in DOMAIN npl
      BY ONLY <1>2, <1>6, i \in 2 .. l, n \in Nat, l \in Nat
    <2> QED
      BY ONLY <2>1, <2>2, <2>3
  <1>9. ASSUME NEW k \in DOMAIN npl
        PROVE  \/ k \in DOMAIN more /\ npl[k] = more[k]
               \/ \E i \in DOMAIN pl : i >= 2 /\ k = i - 1 + n /\ npl[k] = pl[i]
    <2>1. k \in Nat /\ k >= 1 /\ k <= n + (l - 1)
      BY <1>6
    <2>2. CASE k <= n
      BY <1>1, <1>5, <2>1, <2>2
    <2>3. CASE k > n
      <3>1. PICK i \in 2 .. l : k = i - 1 + n
        <4>1. k - n + 1 \in 2 .. l /\ k = (k - n + 1) - 1 + n
          BY <2>1, <2>3
        <4> QED
          BY <4>1
      <3>2. i \in DOMAIN pl /\ i >= 2
        BY <1>2
      <3>3. npl[k] = pl[i]
        BY <1>8, <3>1
      <3> QED
        BY <3>1, <3>2, <3>3
    <2> QED
      BY <2>1, <2>2, <2>3
  <1>10. \A i \in DOMAIN pl : i >= 2 => i \in 2 .. l
    BY <1>2
  <1>11. \A k \in DOMAIN npl : CameFrom(pl, more, npl, k)
    BY <1>1, <1>9 DEF CameFrom
  <1> QED
    BY <1>1, <1>5, <1>7, <1>8, <1>10, <1>11

(***************************************************************************)
(* The statements of a plan, whatever their order.                         *)
(***************************************************************************)
Stmts(pl) == {pl[k] : k \in DOMAIN pl}

LEMMA JoinedStmts ==
    ASSUME NEW a, IsPlan(a), NEW b, IsPlan(b)
    PROVE  IsPlan(a \o b) /\ Stmts(a \o b) = Stmts(a) \cup Stmts(b)
  <1>1. PICK m \in Nat : m = Len(a) /\ DOMAIN a = 1 .. m
    BY PlanDomain
  <1>2. PICK n \in Nat : n = Len(b) /\ DOMAIN b = 1 .. n
    BY PlanDomain
  <1>3. PICK c : c = a \o b
    OBVIOUS
  <1>4. IsPlan(c) /\ Len(c) = Len(a) + Len(b)
    BY <1>3, JoinedPlan
  <1>5. \A k \in 1 .. Len(a) : c[k] = a[k]
    BY <1>3, JoinedPlan
  <1>6. \A k \in 1 .. Len(b) : c[Len(a) + k] = b[k]
    BY <1>3, JoinedPlan
  <1>7. DOMAIN c = 1 .. (m + n)
    BY <1>1, <1>2, <1>4, PlanDomain
  <1>8. \A k \in 1 .. m : c[k] = a[k]
    BY <1>1, <1>5
  <1>9. \A k \in 1 .. n : c[m + k] = b[k]
    BY <1>1, <1>2, <1>6
  <1>10. ASSUME NEW k \in 1 .. (m + n) PROVE c[k] \in Stmts(a) \cup Stmts(b)
    <2>1. CASE k <= m
      BY <1>1, <1>8, <2>1 DEF Stmts
    <2>2. CASE k > m
      <3>1. k - m \in 1 .. n /\ m + (k - m) = k
        BY <2>2
      <3> QED
        BY <1>2, <1>9, <3>1 DEF Stmts
    <2> QED
      BY <2>1, <2>2
  <1>11. ASSUME NEW k \in 1 .. m PROVE a[k] \in Stmts(c)
    BY <1>7, <1>8 DEF Stmts
  <1>12. ASSUME NEW k \in 1 .. n PROVE b[k] \in Stmts(c)
    <2>1. m + k \in 1 .. (m + n)
      OBVIOUS
    <2> QED
      BY <1>7, <1>9, <2>1 DEF Stmts
  <1>13. Stmts(c) = Stmts(a) \cup Stmts(b)
    <2>1. Stmts(c) \subseteq Stmts(a) \cup Stmts(b)
      BY <1>7, <1>10 DEF Stmts
    <2>2. Stmts(a) \subseteq Stmts(c) /\ Stmts(b) \subseteq Stmts(c)
      BY <1>1, <1>2, <1>11, <1>12 DEF Stmts
    <2> QED
      BY <2>1, <2>2
  <1> QED
    BY <1>3, <1>4, <1>13

LEMMA TailStmts ==
    ASSUME NEW pl, IsPlan(pl), pl # <<>>
    PROVE  IsPlan(Tail(pl)) /\ Stmts(pl) = {Head(pl)} \cup Stmts(Tail(pl))
  <1>1. PICK n \in Nat : n = Len(pl) /\ DOMAIN pl = 1 .. n /\ n >= 1 /\ Head(pl) = pl[1]
    BY PlanDomain
  <1>2. PICK t : t = Tail(pl)
    OBVIOUS
  <1>3. IsPlan(t) /\ Len(t) = n - 1 /\ \A k \in 1 .. (n - 1) : t[k] = pl[k + 1]
    BY <1>1, <1>2, TailPlan
  <1>4. DOMAIN t = 1 .. (n - 1)
    BY <1>3, PlanDomain
  <1>5. ASSUME NEW k \in 1 .. n PROVE pl[k] \in {pl[1]} \cup Stmts(t)
    <2>1. CASE k # 1
      <3>1. k - 1 \in 1 .. (n - 1) /\ (k - 1) + 1 = k
        BY <2>1
      <3> QED
        BY <1>3, <1>4, <3>1 DEF Stmts
    <2> QED
      BY <2>1
  <1>6. ASSUME NEW k \in 1 .. (n - 1) PROVE t[k] \in Stmts(pl)
    <2>1. k + 1 \in 1 .. n
      OBVIOUS
    <2> QED
      BY <1>1, <1>3, <2>1 DEF Stmts
  <1>7. Stmts(pl) = {pl[1]} \cup Stmts(t)
    <2>1. pl[1] \in Stmts(pl)
      BY <1>1 DEF Stmts
    <2>2. Stmts(t) \subseteq Stmts(pl)
      BY <1>4, <1>6 DEF Stmts
    <2>3. Stmts(pl) \subseteq {pl[1]} \cup Stmts(t)
      BY <1>1, <1>5 DEF Stmts
    <2> QED
      BY <2>1, <2>2, <2>3
  <1> QED
    BY <1>1, <1>2, <1>3, <1>7

LEMMA LiteralPlans ==
    /\ IsPlan(<<>>) /\ Stmts(<<>>) = {} /\ Len(<<>>) = 0
    /\ \A a : IsPlan(<<a>>) /\ Stmts(<<a>>) = {a} /\ Len(<<a>>) = 1
    /\ \A a, b : IsPlan(<<a, b>>) /\ Stmts(<<a, b>>) = {a, b} /\ Len(<<a, b>>) = 2
    /\ \A a, b, c : IsPlan(<<a, b, c>>) /\ Stmts(<<a, b, c>>) = {a, b, c} /\ Len(<<a, b, c>>) = 3
  <1>1. IsPlan(<<>>) /\ Stmts(<<>>) = {} /\ Len(<<>>) = 0
    BY DEF IsPlan, Stmts
  <1>2. ASSUME NEW a PROVE IsPlan(<<a>>) /\ Stmts(<<a>>) = {a} /\ Len(<<a>>) = 1
    <2>1. PICK q : q = <<a>>
      OBVIOUS
    <2>2. q \in Seq({a}) /\ Len(q) = 1 /\ DOMAIN q = {1} /\ q[1] = a
      BY <2>1
    <2> QED
      BY <2>1, <2>2 DEF IsPlan, Stmts
  <1>3. ASSUME NEW a, NEW b PROVE IsPlan(<<a, b>>) /\ Stmts(<<a, b>>) = {a, b} /\ Len(<<a, b>>) = 2
    <2>1. PICK q : q = <<a, b>>
      OBVIOUS
    <2>2. q \in Seq({a, b}) /\ Len(q) = 2 /\ DOMAIN q = {1, 2} /\ q[1] = a /\ q[2] = b
      BY <2>1
    <2> QED
      BY <2>1, <2>2 DEF IsPlan, Stmts
  <1>4. ASSUME NEW a, NEW b, NEW c
        PROVE  IsPlan(<<a, b, c>>) /\ Stmts(<<a, b, c>>) = {a, b, c} /\ Len(<<a, b, c>>) = 3
    <2>1. PICK q : q = <<a, b, c>>
      OBVIOUS
    <2>2. q \in Seq({a, b, c}) /\ Len(q) = 3 /\ DOMAIN q = {1, 2, 3} /\ q[1] = a /\ q[2] = b /\ q[3] = c
      BY <2>1
    <2> QED
      BY <2>1, <2>2 DEF IsPlan, Stmts
  <1> QED
    BY <1>1, <1>2, <1>3, <1>4

\* What a loop over the elements of a set in some order will do.
LEMMA Orders ==
    ASSUME NEW S, IsFiniteSet(S), NEW order \in SetToSeqs(S)
    PROVE  /\ \E n \in Nat : DOMAIN order = 1 .. n
           /\ \A i \in DOMAIN order : order[i] \in S
           /\ \A x \in S : \E i \in DOMAIN order : order[i] = x
  <1>1. PICK n \in Nat : n = Cardinality(S)
    BY FS_CardinalityType
  <1>2. order \in [1 .. n -> S] /\ \A i, j \in 1 .. n : i # j => order[i] # order[j]
    BY <1>1 DEF SetToSeqs
  <1>3. ASSUME NEW x \in S PROVE \E i \in 1 .. n : order[i] = x
    <2> SUFFICES ASSUME \A i \in 1 .. n : order[i] # x PROVE FALSE
      OBVIOUS
    <2>1. PICK T : T = S \ {x}
      OBVIOUS
    <2>2. IsFiniteSet(T) /\ Cardinality(T) = n - 1
      BY <1>1, <2>1, FS_RemoveElement
    <2>3. PICK D : D = 1 .. n
      OBVIOUS
    <2>4. IsFiniteSet(D) /\ Cardinality(D) = n
      <3>1. IsFiniteSet(1 .. n) /\ Cardinality(1 .. n) = IF 1 > n THEN 0 ELSE n - 1 + 1
        BY FS_Interval
      <3> QED
        BY <2>3, <3>1
    <2>5. order \in [D -> T]
      BY <1>2, <2>1, <2>3
    <2>6. Cardinality(T) < Cardinality(D)
      BY <2>2, <2>4
    <2>7. \E i, j \in D : i # j /\ order[i] = order[j]
      BY <2>2, <2>4, <2>5, <2>6, FS_PigeonHole
    <2> QED
      BY <1>2, <2>3, <2>7
  <1> QED
    BY <1>2, <1>3

LEMMA EachPlan ==
    ASSUME NEW S, IsFiniteSet(S), NEW order \in SetToSeqs(S), NEW op
    PROVE  IsPlan(Each(op, order)) /\ Stmts(Each(op, order)) = {<<op, x>> : x \in S}
  <1>1. PICK n \in Nat : DOMAIN order = 1 .. n
    BY Orders
  <1>2. PICK e : e = Each(op, order)
    OBVIOUS
  <1>3. e \in [1 .. n -> {<<op, x>> : x \in S}] /\ \A i \in 1 .. n : e[i] = <<op, order[i]>>
    BY <1>1, <1>2, Orders DEF Each
  <1>4. IsPlan(e)
    BY <1>3, FunctionIsPlan
  <1>5. Stmts(e) = {<<op, x>> : x \in S}
    <2>1. \A i \in 1 .. n : e[i] \in {<<op, x>> : x \in S}
      BY <1>3
    <2>2. ASSUME NEW x \in S PROVE <<op, x>> \in Stmts(e)
      <3>1. PICK i \in DOMAIN order : order[i] = x
        BY Orders
      <3> QED
        BY <1>1, <1>3, <3>1 DEF Stmts
    <2>3. DOMAIN e = 1 .. n
      BY <1>3
    <2> QED
      BY <2>1, <2>2, <2>3 DEF Stmts
  <1> QED
    BY <1>2, <1>4, <1>5

LEMMA MappedPlan ==
    ASSUME NEW S, IsFiniteSet(S), NEW order \in SetToSeqs(S), NEW e, e = [i \in DOMAIN order |-> e[i]]
    PROVE  IsPlan(e) /\ \A s \in Stmts(e) : \E i \in DOMAIN order : s = e[i]
  <1>1. PICK n \in Nat : DOMAIN order = 1 .. n
    BY Orders
  <1>2. e \in [1 .. n -> Stmts(e)]
    BY <1>1 DEF Stmts
  <1> QED
    BY <1>1, <1>2, FunctionIsPlan DEF Stmts

(***************************************************************************)
(* What the tables and the plans hold.                                     *)
(***************************************************************************)
AnyRow == [by : Users, to : Users, memo : Memos, related : Memos \cup {None}]
AttRow == [creator : Users \cup {None}, memo : Memos \cup {None}]
Tables == [users : SUBSET Users, memo : [Memos -> Users \cup {None}],
           rel : SUBSET (Memos \X Memos \X {"COMMENT", "REFERENCE"}), att : [Atts -> AttRow],
           reaction : SUBSET AnyRow, share : SUBSET AnyRow, inbox : SUBSET AnyRow]

AboutMemo == {"comments", "wipe", "unrelateTo", "listAtts", "memoRow", "rebuild", "clearRefs", "setAtts", "insert",
              "relate", "lookup", "mention"}
AboutAtt == {"upload", "drop", "file", "cleanup", "attRow", "deny", "attInsert", "attach"}

StmtOK(s) ==
    /\ s[1] \in AboutMemo => s[2] \in Memos
    /\ s[1] \in AboutAtt => s[2] \in Atts
    /\ s[1] = "attInsert" => s[3] \in Users /\ s[4] \in Memos \cup {None}
    /\ s[1] = "setAtts" => s[3] \in Users /\ s[4] \subseteq Atts
    /\ s[1] = "attRows" => s[2] \subseteq Atts
    /\ s[1] = "attach" => s[3] \in Memos
    /\ s[1] = "insert" => s[3] \in Users
    /\ s[1] = "relate" => s[3] \in Memos /\ s[4] \in {"COMMENT", "REFERENCE"}
    /\ s[1] = "lookup" => s[3] \in Memos
    /\ s[1] = "row" => s[3] \in AnyRow /\ (s[2] \in {"reaction", "share"} => s[3].by = s[3].to)
    /\ s[1] = "mention" => s[3] \in Users /\ s[4] \in Memos \cup {None}
    /\ s[1] \in {"lock", "empty", "load", "deleteUser"} => s[2] \in Users
    /\ s[1] = "load" => s[3] \subseteq Memos

PlanOK(pl) == IsPlan(pl) /\ \A s \in Stmts(pl) : StmtOK(s)

StoreTypeOK ==
    /\ db \in Tables
    /\ parentOf \in [Memos -> Memos \cup {None}]
    /\ DOMAIN proc = Procs
    /\ \A p \in Procs : PlanOK(proc[p])

LEMMA HeadOK ==
    ASSUME StoreTypeOK, NEW p \in Procs, proc[p] # <<>>
    PROVE  StmtOK(Head(proc[p])) /\ Head(proc[p]) = proc[p][1] /\ 1 \in DOMAIN proc[p]
  <1>1. PICK pl : pl = proc[p]
    OBVIOUS
  <1>2. IsPlan(pl) /\ pl # <<>> /\ \A s \in Stmts(pl) : StmtOK(s)
    BY <1>1 DEF StoreTypeOK, PlanOK
  <1>3. 1 \in DOMAIN pl /\ Head(pl) = pl[1]
    BY <1>2, PlanDomain
  <1> QED
    BY <1>1, <1>2, <1>3 DEF Stmts

LEMMA SubsetsAreFinite ==
    /\ \A S \in SUBSET Users : IsFiniteSet(S)
    /\ \A S \in SUBSET Memos : IsFiniteSet(S)
    /\ \A S \in SUBSET Atts : IsFiniteSet(S)
  BY StoreAssumption, FS_Subset

\* The statements that executing the statement h may put in front.
Produced(h, s) ==
    \/ h[1] = "comments" /\ s[1] = "wipe" /\ s[2] \in {h[2]} \cup CommentsOf(h[2])
    \/ h[1] = "wipe" /\ s[1] \in {"unrelateTo", "listAtts", "memoRow"} /\ s[2] = h[2]
    \/ h[1] = "listAtts" /\ s[1] = "drop" /\ s[2] \in AttsOf(h[2])
    \/ h[1] = "drop" /\ s[1] \in {"file", "attRow"} /\ s[2] = h[2] /\ AttExists(h[2])
    \/ h[1] = "attRows" /\ s[1] = "file" /\ s[2] \in h[2]
    \/ h[1] = "setAtts" /\ s[1] \in {"drop", "deny"} /\ s[2] \in AttsOf(h[2])
    \/ h[1] = "setAtts" /\ s[1] = "attach" /\ s[2] \in h[4] /\ s[3] = h[2]
    \/ h[1] = "lookup" /\ s[1] = "relate" /\ s[2] = h[2] /\ s[3] = h[3] /\ s[4] = "REFERENCE"
    \/ h[1] \in {"mention", "rebuild"} /\ s[1] = "row" /\ s[2] = "inbox" /\ s[3] \in AnyRow
    \/ h[1] = "deleteUser" /\ s[1] = "cleanup" /\ s[2] \in AttsOfUser(h[2], MemoTree(h[2]))

Replaced(p, more) ==
    /\ proc[p] # <<>>
    /\ IsPlan(more)
    /\ proc' = [proc EXCEPT ![p] = more \o Tail(proc[p])]

LEMMA CommentsAreMemos ==
    ASSUME StoreTypeOK, NEW m
    PROVE  CommentsOf(m) \subseteq Memos
  <1>1. \A r \in db.rel : r[1] \in Memos
    BY DEF StoreTypeOK, Tables
  <1> QED
    BY <1>1 DEF CommentsOf

NextIs(p, op) == proc[p] # <<>> /\ Head(proc[p])[1] = op

\* The deletion of a memo with its comments.
LEMMA ListCommentsPlan ==
    ASSUME StoreTypeOK, NEW p \in Procs, ListComments(p)
    PROVE  \E order \in SetToSeqs(CommentsOf(Arg(p, 2))) : \E more :
             /\ more = Each("wipe", order) \o <<<<"wipe", Arg(p, 2)>>>>
             /\ Replaced(p, more)
             /\ \A s \in Stmts(more) : Produced(Head(proc[p]), s)
  <1>1. PICK h : h = Head(proc[p])
    OBVIOUS
  <1>2. h[1] = "comments" /\ proc[p] # <<>>
    BY <1>1 DEF ListComments, At
  <1>3. PICK C \in SUBSET Memos : C = CommentsOf(h[2])
    BY CommentsAreMemos
  <1>4. PICK order \in SetToSeqs(C) : proc' = [proc EXCEPT ![p] = (Each("wipe", order) \o <<<<"wipe", h[2]>>>>) \o Tail(proc[p])]
    BY <1>1, <1>3 DEF ListComments, Read, Continue, Arg
  <1>5. PICK e : e = Each("wipe", order)
    OBVIOUS
  <1>6. IsPlan(e) /\ Stmts(e) = {<<"wipe", x>> : x \in C}
    BY <1>5, EachPlan, SubsetsAreFinite
  <1>7. PICK l : l = <<<<"wipe", h[2]>>>>
    OBVIOUS
  <1>8. IsPlan(l) /\ Stmts(l) = {<<"wipe", h[2]>>}
    BY <1>7, LiteralPlans
  <1>9. PICK more : more = e \o l
    OBVIOUS
  <1>10. IsPlan(more) /\ Stmts(more) = Stmts(e) \cup Stmts(l)
    BY <1>6, <1>8, <1>9, JoinedStmts
  <1>11. \A s \in Stmts(more) : Produced(h, s)
    BY <1>2, <1>3, <1>6, <1>8, <1>10 DEF Produced
  <1>12. more = Each("wipe", order) \o <<<<"wipe", Arg(p, 2)>>>>
    BY <1>1, <1>5, <1>7, <1>9 DEF Arg
  <1>13. Replaced(p, more)
    BY <1>1, <1>2, <1>4, <1>10, <1>12 DEF Replaced, Arg
  <1>14. order \in SetToSeqs(CommentsOf(Arg(p, 2)))
    BY <1>1, <1>3 DEF Arg
  <1> QED
    BY <1>1, <1>11, <1>12, <1>13, <1>14

\* A statement that does what it does once.
Simple(p) ==
    \/ UnrelateTo(p) \/ DropMemo(p) \/ WriteFile(p) \/ InsertAtt(p) \/ DropFile(p) \/ DropAttRow(p) \/ Attach(p)
    \/ InsertMemo(p) \/ Relate(p) \/ ClearRefs(p) \/ AddRow(p) \/ DropRow(p) \/ LoadBatch(p) \/ StorageFails(p)
    \/ Lock(p) /\ Arg(p, 2) \in db.users
    \/ CheckEmpty(p) /\ \A m \in Memos : db.memo[m] # Arg(p, 2)

LEMMA SimplePlan ==
    ASSUME NEW p \in Procs, Simple(p)
    PROVE  Replaced(p, <<>>)
  <1>1. proc[p] # <<>>
    BY DEF Simple, At, UnrelateTo, DropMemo, WriteFile, InsertAtt, DropFile, DropAttRow, Attach, InsertMemo, Relate,
           ClearRefs, AddRow, DropRow, LoadBatch, StorageFails, Lock, CheckEmpty
  <1>2. proc' = [proc EXCEPT ![p] = <<>> \o Tail(proc[p])]
    BY DEF Simple, Write, Continue, Read, UnrelateTo, DropMemo, WriteFile, InsertAtt, DropFile, DropAttRow, Attach,
           InsertMemo, Relate, ClearRefs, AddRow, DropRow, LoadBatch, StorageFails, Lock, CheckEmpty
  <1> QED
    BY <1>1, <1>2, LiteralPlans DEF Replaced

LEMMA WipePlan ==
    ASSUME NEW p \in Procs, Wipe(p)
    PROVE  \E more : /\ more = <<<<"unrelateTo", Arg(p, 2)>>, <<"listAtts", Arg(p, 2)>>, <<"memoRow", Arg(p, 2)>>>>
                     /\ Replaced(p, more)
                     /\ \A s \in Stmts(more) : Produced(Head(proc[p]), s)
  <1>1. PICK h : h = Head(proc[p])
    OBVIOUS
  <1>2. PICK more : more = <<<<"unrelateTo", h[2]>>, <<"listAtts", h[2]>>, <<"memoRow", h[2]>>>>
    OBVIOUS
  <1>3. IsPlan(more) /\ Stmts(more) = {<<"unrelateTo", h[2]>>, <<"listAtts", h[2]>>, <<"memoRow", h[2]>>}
    BY <1>2, LiteralPlans
  <1>4. h[1] = "wipe" /\ proc[p] # <<>>
    BY <1>1 DEF Wipe, At
  <1>5. Replaced(p, more)
    BY <1>1, <1>2, <1>3, <1>4 DEF Wipe, Continue, Arg, Replaced
  <1>6. \A s \in Stmts(more) : Produced(h, s)
    BY <1>3, <1>4 DEF Produced
  <1> QED
    BY <1>1, <1>2, <1>5, <1>6 DEF Arg

\* Deleting attachments: of a memo, of a list, of a user.
LEMMA EachOfAttsPlan ==
    ASSUME NEW p \in Procs, proc[p] # <<>>, NEW S \in SUBSET Atts, NEW order \in SetToSeqs(S), NEW op,
           Continue(p, Each(op, order)), \A x \in S : Produced(Head(proc[p]), <<op, x>>)
    PROVE  \E more : /\ Stmts(more) = {<<op, x>> : x \in S}
                     /\ Replaced(p, more)
                     /\ \A s \in Stmts(more) : Produced(Head(proc[p]), s)
  <1>1. PICK more : more = Each(op, order)
    OBVIOUS
  <1>2. IsPlan(more) /\ Stmts(more) = {<<op, x>> : x \in S}
    BY <1>1, EachPlan, SubsetsAreFinite
  <1>3. Replaced(p, more)
    BY <1>1, <1>2 DEF Continue, Replaced
  <1>4. PICK h : h = Head(proc[p])
    OBVIOUS
  <1>5. \A s \in Stmts(more) : Produced(h, s)
    BY <1>2, <1>4
  <1> QED
    BY <1>2, <1>3, <1>4, <1>5

LEMMA ListAttsPlan ==
    ASSUME NEW p \in Procs, ListAtts(p)
    PROVE  \E more : /\ Stmts(more) = {<<"drop", x>> : x \in AttsOf(Arg(p, 2))}
                     /\ Replaced(p, more)
                     /\ \A s \in Stmts(more) : Produced(Head(proc[p]), s)
  <1>1. PICK h : h = Head(proc[p])
    OBVIOUS
  <1>2. h[1] = "listAtts" /\ proc[p] # <<>>
    BY <1>1 DEF ListAtts, At
  <1>3. PICK S \in SUBSET Atts : S = AttsOf(h[2])
    BY DEF AttsOf
  <1>4. \A x \in S : Produced(h, <<"drop", x>>)
    BY <1>2, <1>3 DEF Produced
  <1>5. PICK order \in SetToSeqs(S) : Continue(p, Each("drop", order))
    BY <1>1, <1>3 DEF ListAtts, Read, Arg
  <1>6. \A x \in S : Produced(Head(proc[p]), <<"drop", x>>)
    BY <1>1, <1>4
  <1>7. AttsOf(Arg(p, 2)) = S
    BY <1>1, <1>3 DEF Arg
  <1> QED
    BY <1>2, <1>5, <1>6, <1>7, EachOfAttsPlan

LEMMA DropAttRowsPlan ==
    ASSUME StoreTypeOK, NEW p \in Procs, DropAttRows(p)
    PROVE  \E more : /\ Stmts(more) = {<<"file", x>> : x \in Arg(p, 2)}
                     /\ Replaced(p, more)
                     /\ \A s \in Stmts(more) : Produced(Head(proc[p]), s)
  <1>1. PICK h : h = Head(proc[p])
    OBVIOUS
  <1>2. h[1] = "attRows" /\ proc[p] # <<>>
    BY <1>1 DEF DropAttRows, At
  <1>3. PICK S \in SUBSET Atts : S = h[2]
    BY <1>1, <1>2, HeadOK DEF StmtOK
  <1>4. \A x \in S : Produced(h, <<"file", x>>)
    BY <1>2, <1>3 DEF Produced
  <1>5. PICK order \in SetToSeqs(S) : Continue(p, Each("file", order))
    BY <1>1, <1>3 DEF DropAttRows, Arg
  <1>6. \A x \in S : Produced(Head(proc[p]), <<"file", x>>)
    BY <1>1, <1>4
  <1>7. Arg(p, 2) = S
    BY <1>1, <1>3 DEF Arg
  <1> QED
    BY <1>2, <1>5, <1>6, <1>7, EachOfAttsPlan

LEMMA DeleteUserPlan ==
    ASSUME NEW p \in Procs, DeleteUserTx(p)
    PROVE  \E more : /\ Stmts(more) = {<<"cleanup", x>> : x \in AttsOfUser(Arg(p, 2), MemoTree(Arg(p, 2)))}
                     /\ Replaced(p, more)
                     /\ \A s \in Stmts(more) : Produced(Head(proc[p]), s)
  <1>1. PICK h : h = Head(proc[p])
    OBVIOUS
  <1>2. h[1] = "deleteUser" /\ proc[p] # <<>>
    BY <1>1 DEF DeleteUserTx, At
  <1>3. PICK u : u = h[2]
    OBVIOUS
  <1>4. PICK tree : tree = MemoTree(u)
    OBVIOUS
  <1>5. PICK S \in SUBSET Atts : S = AttsOfUser(u, tree)
    BY DEF AttsOfUser
  <1>6. S = AttsOfUser(h[2], MemoTree(h[2]))
    BY <1>3, <1>4, <1>5
  <1>7. \A x \in S : Produced(h, <<"cleanup", x>>)
    BY <1>2, <1>6 DEF Produced
  <1>8. PICK order \in SetToSeqs(S) : Continue(p, Each("cleanup", order))
    BY <1>1, <1>3, <1>4, <1>5 DEF DeleteUserTx, Arg
  <1>9. \A x \in S : Produced(Head(proc[p]), <<"cleanup", x>>)
    BY <1>1, <1>7
  <1>10. AttsOfUser(Arg(p, 2), MemoTree(Arg(p, 2))) = S
    BY <1>1, <1>6 DEF Arg
  <1> QED
    BY <1>2, <1>8, <1>9, <1>10, EachOfAttsPlan

\* An attachment: its content, then its row; one that is gone is an error.
Ends(p) == Refuse(p) /\ proc[p] # <<>>

LEMMA DropPlan ==
    ASSUME NEW p \in Procs, Drop(p)
    PROVE  \/ \E more : /\ more = <<<<"file", Arg(p, 2)>>, <<"attRow", Arg(p, 2)>>>>
                        /\ AttExists(Arg(p, 2))
                        /\ Replaced(p, more)
                        /\ \A s \in Stmts(more) : Produced(Head(proc[p]), s)
           \/ Ends(p)
  <1>1. PICK h : h = Head(proc[p])
    OBVIOUS
  <1>2. h[1] = "drop" /\ proc[p] # <<>>
    BY <1>1 DEF Drop, At
  <1>3. CASE AttExists(h[2])
    <2>1. PICK more : more = <<<<"file", h[2]>>, <<"attRow", h[2]>>>>
      OBVIOUS
    <2>2. IsPlan(more) /\ Stmts(more) = {<<"file", h[2]>>, <<"attRow", h[2]>>}
      BY <2>1, LiteralPlans
    <2>3. Replaced(p, more)
      BY <1>1, <1>2, <1>3, <2>1, <2>2 DEF Drop, Read, Continue, Arg, Replaced
    <2>4. \A s \in Stmts(more) : Produced(h, s)
      BY <1>2, <1>3, <2>2 DEF Produced
    <2> QED
      BY <1>1, <1>3, <2>1, <2>3, <2>4 DEF Arg
  <1>4. CASE ~AttExists(h[2])
    BY <1>1, <1>2, <1>4 DEF Drop, Arg, Ends
  <1> QED
    BY <1>3, <1>4

LEMMA DenyPlan ==
    ASSUME NEW p \in Procs, Deny(p)
    PROVE  Ends(p)
  BY DEF Deny, At, Ends

\* The attachments of a memo: those left out are dropped, the others attached.
LEMMA SetAttsPlan ==
    ASSUME StoreTypeOK, NEW p \in Procs, SetAtts(p)
    PROVE  \/ \E more : /\ Replaced(p, more)
                        /\ \A s \in Stmts(more) : Produced(Head(proc[p]), s)
           \/ Ends(p)
  <1>1. PICK h : h = Head(proc[p])
    OBVIOUS
  <1>2. h[1] = "setAtts" /\ proc[p] # <<>>
    BY <1>1 DEF SetAtts, At
  <1>3. PICK A \in SUBSET Atts : A = AttsOf(h[2])
    BY DEF AttsOf
  <1>4. PICK W \in SUBSET Atts : W = h[4]
    BY <1>1, <1>2, HeadOK DEF StmtOK
  <1>5. CASE ~\A a \in h[4] : AttExists(a) /\ CanModify(h[3], db.att[a].creator)
    BY <1>1, <1>2, <1>5 DEF SetAtts, Arg, Ends
  <1>6. CASE \A a \in h[4] : AttExists(a) /\ CanModify(h[3], db.att[a].creator)
    <2>1. PICK old \in SetToSeqs(A \ W), new \in SetToSeqs(W) :
            Read(p, [i \in DOMAIN old |-> <<IF CanModify(h[3], db.att[old[i]].creator) THEN "drop" ELSE "deny", old[i]>>]
                    \o [i \in DOMAIN new |-> <<"attach", new[i], h[2]>>])
      BY <1>1, <1>3, <1>4, <1>6 DEF SetAtts, Arg
    <2>2. PICK e : e = [i \in DOMAIN old |-> <<IF CanModify(h[3], db.att[old[i]].creator) THEN "drop" ELSE "deny", old[i]>>]
      OBVIOUS
    <2>3. PICK f : f = [i \in DOMAIN new |-> <<"attach", new[i], h[2]>>]
      OBVIOUS
    <2>4. IsFiniteSet(A \ W) /\ IsFiniteSet(W)
      BY SubsetsAreFinite
    <2>5. IsPlan(e) /\ \A s \in Stmts(e) : \E i \in DOMAIN old : s = e[i]
      <3>1. e = [i \in DOMAIN old |-> e[i]]
        BY <2>2
      <3> QED
        BY ONLY <2>1, <2>4, <3>1, MappedPlan
    <2>6. IsPlan(f) /\ \A s \in Stmts(f) : \E i \in DOMAIN new : s = f[i]
      <3>1. f = [i \in DOMAIN new |-> f[i]]
        BY <2>3
      <3> QED
        BY ONLY <2>1, <2>4, <3>1, MappedPlan
    <2>7. PICK more : more = e \o f
      OBVIOUS
    <2>8. IsPlan(more) /\ Stmts(more) = Stmts(e) \cup Stmts(f)
      BY <2>5, <2>6, <2>7, JoinedStmts
    <2>9. Replaced(p, more)
      BY <1>2, <2>1, <2>2, <2>3, <2>7, <2>8 DEF Read, Continue, Replaced
    <2>10. ASSUME NEW s \in Stmts(e) PROVE Produced(h, s)
      <3>1. PICK i \in DOMAIN old : s = e[i]
        BY <2>5
      <3>2. old[i] \in A \ W
        BY <2>1, <2>4, Orders
      <3>3. s[1] \in {"drop", "deny"} /\ s[2] = old[i]
        BY <2>2, <3>1
      <3> QED
        BY <1>2, <1>3, <3>2, <3>3 DEF Produced
    <2>11. ASSUME NEW s \in Stmts(f) PROVE Produced(h, s)
      <3>1. PICK i \in DOMAIN new : s = f[i]
        BY <2>6
      <3>2. new[i] \in W
        BY <2>1, <2>4, Orders
      <3>3. s[1] = "attach" /\ s[2] = new[i] /\ s[3] = h[2]
        BY <2>3, <3>1
      <3> QED
        BY <1>2, <1>4, <3>2, <3>3 DEF Produced
    <2> QED
      BY <1>1, <2>8, <2>9, <2>10, <2>11
  <1> QED
    BY <1>5, <1>6

LEMMA LookupPlan ==
    ASSUME NEW p \in Procs, Lookup(p)
    PROVE  \/ \E more : /\ Replaced(p, more)
                        /\ \A s \in Stmts(more) : Produced(Head(proc[p]), s)
           \/ Ends(p)
  <1>1. PICK h : h = Head(proc[p])
    OBVIOUS
  <1>2. h[1] = "lookup" /\ proc[p] # <<>>
    BY <1>1 DEF Lookup, At
  <1>3. CASE MemoExists(h[3])
    <2>1. PICK more : more = <<<<"relate", h[2], h[3], "REFERENCE">>>>
      OBVIOUS
    <2>2. IsPlan(more) /\ Stmts(more) = {<<"relate", h[2], h[3], "REFERENCE">>}
      BY <2>1, LiteralPlans
    <2>3. Replaced(p, more)
      BY <1>1, <1>2, <1>3, <2>1, <2>2 DEF Lookup, Read, Continue, Arg, Replaced
    <2>4. \A s \in Stmts(more) : Produced(h, s)
      BY <1>2, <2>2 DEF Produced
    <2> QED
      BY <1>1, <2>3, <2>4
  <1>4. CASE ~MemoExists(h[3])
    BY <1>1, <1>2, <1>4 DEF Lookup, Arg, Ends
  <1> QED
    BY <1>3, <1>4

\* Telling the users who are mentioned.
LEMMA NotifyPlan ==
    ASSUME StoreTypeOK, NEW p \in Procs, proc[p] # <<>>, Head(proc[p])[1] \in {"mention", "rebuild"},
           NEW m \in Memos, NEW u \in Users, NEW parent \in Memos \cup {None}, Notify(p, m, u, parent)
    PROVE  \E more : /\ Replaced(p, more)
                     /\ \A s \in Stmts(more) : Produced(Head(proc[p]), s)
  <1>a. PICK named \in SUBSET {v \in db.users : ~shouldSkipMentionInbox(v, u, parent)} :
          \E order \in SetToSeqs(named) :
            Read(p, [i \in DOMAIN order |-> <<"row", "inbox", Row(u, order[i], m, parent)>>])
    BY DEF Notify
  <1>1. PICK order \in SetToSeqs(named) :
          Read(p, [i \in DOMAIN order |-> <<"row", "inbox", Row(u, order[i], m, parent)>>])
    BY <1>a
  <1>2. named \in SUBSET Users
    BY DEF StoreTypeOK, Tables
  <1>3. IsFiniteSet(named)
    BY <1>2, SubsetsAreFinite
  <1>4. PICK more : more = [i \in DOMAIN order |-> <<"row", "inbox", Row(u, order[i], m, parent)>>]
    OBVIOUS
  <1>5. IsPlan(more) /\ \A s \in Stmts(more) : \E i \in DOMAIN order : s = more[i]
    <2>1. more = [i \in DOMAIN order |-> more[i]]
      BY <1>4
    <2> QED
      BY ONLY <1>1, <1>3, <2>1, MappedPlan
  <1>6. Replaced(p, more)
    BY <1>1, <1>4, <1>5 DEF Read, Continue, Replaced
  <1>7. PICK h : h = Head(proc[p])
    OBVIOUS
  <1>8. ASSUME NEW s \in Stmts(more) PROVE Produced(h, s)
    <2>1. PICK i \in DOMAIN order : s = more[i]
      BY <1>5
    <2>2. order[i] \in Users
      BY <1>1, <1>2, <1>3, Orders
    <2>3. s[1] = "row" /\ s[2] = "inbox" /\ s[3] = Row(u, order[i], m, parent)
      BY <1>4, <2>1
    <2>4. s[3] \in AnyRow
      BY <2>2, <2>3 DEF Row, AnyRow
    <2> QED
      BY <1>7, <2>3, <2>4 DEF Produced
  <1> QED
    BY <1>6, <1>7, <1>8

LEMMA MentionPlan ==
    ASSUME StoreTypeOK, NEW p \in Procs, Mention(p)
    PROVE  \E more : /\ Replaced(p, more)
                     /\ \A s \in Stmts(more) : Produced(Head(proc[p]), s)
  <1>1. proc[p] # <<>> /\ Head(proc[p])[1] = "mention"
    BY DEF Mention, At
  <1>2. Arg(p, 2) \in Memos /\ Arg(p, 3) \in Users /\ Arg(p, 4) \in Memos \cup {None}
    BY <1>1, HeadOK DEF StmtOK, AboutMemo, Arg
  <1>3. PICK m \in Memos, u \in Users, parent \in Memos \cup {None} : Notify(p, m, u, parent)
    BY <1>2 DEF Mention
  <1> QED
    BY <1>1, <1>3, NotifyPlan

LEMMA RebuildPlan ==
    ASSUME StoreTypeOK, NEW p \in Procs, Rebuild(p)
    PROVE  \/ \E more : /\ Replaced(p, more)
                        /\ \A s \in Stmts(more) : Produced(Head(proc[p]), s)
           \/ Ends(p)
  <1>1. proc[p] # <<>> /\ Head(proc[p])[1] = "rebuild"
    BY DEF Rebuild, At
  <1>2. PICK m \in Memos : m = Arg(p, 2)
    BY <1>1, HeadOK DEF StmtOK, AboutMemo, Arg
  <1>3. CASE MemoExists(m)
    <2>1. PICK u \in Users : u = db.memo[m]
      BY <1>3 DEF StoreTypeOK, Tables, MemoExists
    <2>2. PICK parent \in Memos \cup {None} : parent = ParentOf(m)
      BY DEF ParentOf
    <2>3. Notify(p, m, u, parent)
      BY <1>2, <1>3, <2>1, <2>2 DEF Rebuild
    <2> QED
      BY <1>1, <2>3, NotifyPlan
  <1>4. CASE ~MemoExists(m)
    BY <1>1, <1>2, <1>4 DEF Rebuild, Ends
  <1> QED
    BY <1>3, <1>4

\* Every statement either ends its request or is replaced by what it produces.
LEMMA StatementMoves ==
    ASSUME StoreTypeOK, NEW p \in Procs, Statement(p) \/ StorageFails(p)
    PROVE  \/ \E more : /\ Replaced(p, more)
                        /\ \A s \in Stmts(more) : Produced(Head(proc[p]), s)
           \/ Ends(p)
  <1>1. CASE Simple(p)
    <2>1. PICK more : more = <<>>
      OBVIOUS
    <2>2. Replaced(p, more) /\ Stmts(more) = {}
      BY <1>1, <2>1, SimplePlan, LiteralPlans
    <2> QED
      BY <2>2
  <1>2. CASE ListComments(p)
    BY <1>2, ListCommentsPlan
  <1>3. CASE Wipe(p)
    BY <1>3, WipePlan
  <1>4. CASE ListAtts(p)
    BY <1>4, ListAttsPlan
  <1>5. CASE DropAttRows(p)
    BY <1>5, DropAttRowsPlan
  <1>6. CASE DeleteUserTx(p)
    BY <1>6, DeleteUserPlan
  <1>7. CASE Drop(p)
    BY <1>7, DropPlan
  <1>8. CASE SetAtts(p)
    BY <1>8, SetAttsPlan
  <1>9. CASE Lookup(p)
    BY <1>9, LookupPlan
  <1>10. CASE Mention(p)
    BY <1>10, MentionPlan
  <1>11. CASE Rebuild(p)
    BY <1>11, RebuildPlan
  <1>12. CASE Deny(p)
    BY <1>12, DenyPlan
  <1>13. CASE Lock(p) /\ ~(Arg(p, 2) \in db.users)
    BY <1>13 DEF Lock, Ends, Refuse, At
  <1>14. CASE CheckEmpty(p) /\ ~(\A m \in Memos : db.memo[m] # Arg(p, 2))
    BY <1>14 DEF CheckEmpty, Ends, At
  <1> QED
    BY <1>1, <1>2, <1>3, <1>4, <1>5, <1>6, <1>7, <1>8, <1>9, <1>10, <1>11, <1>12, <1>13, <1>14 DEF Statement, Simple

(***************************************************************************)
(* What a request begins with.                                             *)
(***************************************************************************)
LEMMA SetToSeqIsOrder ==
    ASSUME NEW S, IsFiniteSet(S)
    PROVE  SetToSeq(S) \in SetToSeqs(S)
  <1>1. PICK n \in Nat : n = Cardinality(S)
    BY FS_CardinalityType
  <1>2. PICK f \in [1 .. n -> S] : IsInjective(f)
    <2>1. ExistsBijection(1 .. n, S)
      BY <1>1, FS_CardinalityType
    <2> QED
      BY <2>1 DEF ExistsBijection, Bijection, Injection
  <1>3. PICK g : g = SetToSeq(S)
    OBVIOUS
  <1>4. g \in [1 .. n -> S] /\ IsInjective(g)
    BY <1>1, <1>2, <1>3 DEF SetToSeq
  <1>5. \A i, j \in 1 .. n : i # j => g[i] # g[j]
    BY <1>4 DEF IsInjective
  <1> QED
    BY <1>1, <1>3, <1>4, <1>5 DEF SetToSeqs

PlainOps == {"setAtts", "clearRefs", "lookup", "rebuild", "mention", "row", "comments", "unrow", "deleteUser", "drop",
             "attRows"}

\* Statements that may come at any time.
Plain(s) ==
    /\ s[1] \in PlainOps /\ StmtOK(s)
    /\ s[1] = "drop" => AttExists(s[2])
    /\ s[1] = "attRows" => \A a \in s[2] : AttExists(a)

\* A request that gives out the ids in ids and begins with ops.
Opening(u, ids, ops) ==
    \/ ids = {} /\ \A s \in Stmts(ops) : Plain(s)
    \/ \E m \in Memos :
         /\ ids = {m} /\ Len(ops) >= 1 /\ ops[1] = <<"insert", m, u>>
         /\ \/ \A k \in DOMAIN ops : k > 1 => Plain(ops[k])
            \/ \E parent \in Memos :
                 /\ Len(ops) >= 2 /\ ops[2] = <<"relate", m, parent, "COMMENT">>
                 /\ \A k \in DOMAIN ops : k > 2 => Plain(ops[k])
    \/ \E a \in Atts, m \in Memos \cup {None} : ids = {a} /\ ops = <<<<"upload", a>>, <<"attInsert", a, u, m>>>>
    \/ \E batch \in SUBSET Memos : ids = batch /\ ops = <<<<"lock", u>>, <<"empty", u>>, <<"load", u, batch>>>>

Begun(p, u, ids, ops) ==
    /\ IsPlan(ops) /\ Opening(u, ids, ops) /\ proc[p] = <<>>
    /\ ids \cap used = {}
    /\ proc' = [proc EXCEPT ![p] = ops]
    /\ used' = used \cup ids
    /\ UNCHANGED <<db, files, writer, errors, parentOf, late, cut>>

LEMMA Extended ==
    ASSUME NEW a, IsPlan(a), NEW b, IsPlan(b), NEW n \in Nat, n <= Len(a),
           \A k \in DOMAIN a : k > n => Plain(a[k]), \A s \in Stmts(b) : Plain(s)
    PROVE  /\ IsPlan(a \o b) /\ Len(a \o b) >= n
           /\ \A k \in 1 .. n : (a \o b)[k] = a[k]
           /\ \A k \in DOMAIN (a \o b) : k > n => Plain((a \o b)[k])
  <1>1. PICK l \in Nat : l = Len(a) /\ DOMAIN a = 1 .. l
    BY PlanDomain
  <1>2. PICK m \in Nat : m = Len(b) /\ DOMAIN b = 1 .. m
    BY PlanDomain
  <1>3. PICK c : c = a \o b
    OBVIOUS
  <1>4. IsPlan(c) /\ Len(c) = Len(a) + Len(b)
    BY <1>3, JoinedPlan
  <1>5. \A k \in 1 .. Len(a) : c[k] = a[k]
    BY <1>3, JoinedPlan
  <1>6. \A k \in 1 .. Len(b) : c[Len(a) + k] = b[k]
    BY <1>3, JoinedPlan
  <1>7. DOMAIN c = 1 .. (l + m)
    BY <1>1, <1>2, <1>4, PlanDomain
  <1>8. \A k \in 1 .. l : c[k] = a[k]
    BY <1>1, <1>5
  <1>9. \A k \in 1 .. m : c[l + k] = b[k]
    BY <1>1, <1>2, <1>6
  <1>10. ASSUME NEW k \in 1 .. (l + m), k > n PROVE Plain(c[k])
    <2>1. CASE k <= l
      <3>1. k \in DOMAIN a /\ c[k] = a[k]
        BY <1>1, <1>8, <2>1
      <3>2. PICK s : s = a[k]
        OBVIOUS
      <3>3. Plain(s)
        BY <1>10, <3>1, <3>2
      <3> QED
        BY <3>1, <3>2, <3>3
    <2>2. CASE k > l
      <3>1. k - l \in 1 .. m /\ l + (k - l) = k
        BY <2>2
      <3>2. PICK s : s = b[k - l]
        OBVIOUS
      <3>3. s \in Stmts(b) /\ c[k] = s
        BY <1>2, <1>9, <3>1, <3>2 DEF Stmts
      <3>4. Plain(s)
        BY <3>3
      <3> QED
        BY <3>3, <3>4
    <2> QED
      BY <2>1, <2>2
  <1>11. \A k \in 1 .. n : c[k] = a[k]
    BY <1>1, <1>8
  <1>12. Len(c) >= n
    BY <1>1, <1>2, <1>4
  <1> QED
    BY <1>3, <1>4, <1>7, <1>10, <1>11, <1>12

LEMMA StartBegins ==
    ASSUME NEW p, NEW kind, NEW u, NEW ids, NEW ops, Start(p, kind, ids, ops), IsPlan(ops), Opening(u, ids, ops)
    PROVE  Begun(p, u, ids, ops)
  BY DEF Start, Free, Begun

LEMMA OnePlain ==
    ASSUME NEW s, Plain(s)
    PROVE  IsPlan(<<s>>) /\ \A x \in Stmts(<<s>>) : Plain(x)
  <1>1. PICK q : q = <<s>>
    OBVIOUS
  <1>2. IsPlan(q) /\ Stmts(q) = {s}
    BY <1>1, LiteralPlans
  <1>3. \A x \in Stmts(q) : x = s
    BY <1>2
  <1> QED
    BY <1>1, <1>2, <1>3

\* A request that consists of one statement.
LEMMA OneStatement ==
    ASSUME NEW p, NEW u, NEW kind, NEW s, Start(p, kind, {}, <<s>>), Plain(s)
    PROVE  \E ids, ops : Begun(p, u, ids, ops)
  <1>1. PICK ops : ops = <<s>>
    OBVIOUS
  <1>2. IsPlan(ops) /\ \A x \in Stmts(ops) : Plain(x)
    BY <1>1, OnePlain
  <1>3. Opening(u, {}, ops)
    BY <1>2 DEF Opening
  <1>4. Start(p, kind, {}, ops)
    BY <1>1
  <1> QED
    BY <1>2, <1>3, <1>4, StartBegins

LEMMA SetRefsPlain ==
    ASSUME NEW m \in Memos, NEW S \in SUBSET Memos, NEW order \in SetToSeqs(S)
    PROVE  IsPlan(SetRefs(m, order)) /\ \A s \in Stmts(SetRefs(m, order)) : Plain(s)
  <1>1. PICK c : c = <<<<"clearRefs", m>>>>
    OBVIOUS
  <1>2. IsPlan(c) /\ Stmts(c) = {<<"clearRefs", m>>}
    BY <1>1, LiteralPlans
  <1>3. PICK e : e = [i \in DOMAIN order |-> <<"lookup", m, order[i]>>]
    OBVIOUS
  <1>4. IsPlan(e) /\ \A s \in Stmts(e) : \E i \in DOMAIN order : s = e[i]
    <2>1. e = [i \in DOMAIN order |-> e[i]]
      BY <1>3
    <2>2. IsFiniteSet(S)
      BY SubsetsAreFinite
    <2> QED
      BY ONLY <2>1, <2>2, order \in SetToSeqs(S), MappedPlan
  <1>5. PICK r : r = c \o e
    OBVIOUS
  <1>6. IsPlan(r) /\ Stmts(r) = Stmts(c) \cup Stmts(e)
    BY <1>2, <1>4, <1>5, JoinedStmts
  <1>7. ASSUME NEW s \in Stmts(c) PROVE Plain(s)
    BY <1>2 DEF Plain, PlainOps, StmtOK, AboutMemo, AboutAtt
  <1>8. ASSUME NEW s \in Stmts(e) PROVE Plain(s)
    <2>1. PICK i \in DOMAIN order : s = e[i]
      BY <1>4
    <2>2. order[i] \in Memos
      BY SubsetsAreFinite, Orders
    <2>3. s = <<"lookup", m, order[i]>>
      BY <1>3, <2>1
    <2> QED
      BY <2>2, <2>3 DEF Plain, PlainOps, StmtOK, AboutMemo, AboutAtt
  <1>9. r = SetRefs(m, order)
    BY <1>1, <1>3, <1>5 DEF SetRefs
  <1> QED
    BY <1>6, <1>7, <1>8, <1>9

LEMMA RefSetsAreMemos ==
    ASSUME NEW refs \in RefSets
    PROVE  refs \in SUBSET Memos
  BY DEF RefSets

LEMMA CreateMemoBegins ==
    ASSUME NEW p, NEW u \in Users, NEW m \in Memos, NEW atts \in SUBSET Atts, NEW refs \in RefSets,
           CreateMemo(p, u, m, atts, refs)
    PROVE  \E ids, ops : Begun(p, u, ids, ops)
  <1>1. PICK order \in SetToSeqs(refs) :
          Start(p, "CreateMemo", {m},
                <<<<"insert", m, u>>>>
                \o (IF atts = {} THEN <<>> ELSE <<<<"setAtts", m, u, atts>>>>)
                \o (IF refs = {} THEN <<>> ELSE SetRefs(m, order))
                \o <<<<"mention", m, u, None>>>>)
    BY DEF CreateMemo
  <1>2. PICK a : a = <<<<"insert", m, u>>>>
    OBVIOUS
  <1>3. PICK b : b = IF atts = {} THEN <<>> ELSE <<<<"setAtts", m, u, atts>>>>
    OBVIOUS
  <1>4. PICK c : c = IF refs = {} THEN <<>> ELSE SetRefs(m, order)
    OBVIOUS
  <1>5. PICK d : d = <<<<"mention", m, u, None>>>>
    OBVIOUS
  <1>6. IsPlan(a) /\ Len(a) = 1 /\ a[1] = <<"insert", m, u>> /\ \A k \in DOMAIN a : k > 1 => Plain(a[k])
    <2>1. IsPlan(a) /\ Len(a) = 1
      BY <1>2, LiteralPlans
    <2>2. DOMAIN a = {1} /\ a[1] = <<"insert", m, u>>
      BY <1>2
    <2> QED
      BY <2>1, <2>2
  <1>7. IsPlan(b) /\ \A s \in Stmts(b) : Plain(s)
    <2>1. CASE atts = {}
      BY <1>3, <2>1, LiteralPlans
    <2>2. CASE atts # {}
      <3>1. Plain(<<"setAtts", m, u, atts>>)
        BY DEF Plain, PlainOps, StmtOK, AboutMemo, AboutAtt
      <3> QED
        BY <1>3, <2>2, <3>1, OnePlain
    <2> QED
      BY <2>1, <2>2
  <1>8. IsPlan(c) /\ \A s \in Stmts(c) : Plain(s)
    <2>1. CASE refs = {}
      BY <1>4, <2>1, LiteralPlans
    <2>2. CASE refs # {}
      BY <1>1, <1>4, <2>2, RefSetsAreMemos, SetRefsPlain
    <2> QED
      BY <2>1, <2>2
  <1>9. IsPlan(d) /\ \A s \in Stmts(d) : Plain(s)
    <2>1. Plain(<<"mention", m, u, None>>)
      BY DEF Plain, PlainOps, StmtOK, AboutMemo, AboutAtt
    <2> QED
      BY <1>5, <2>1, OnePlain
  <1>10. PICK ab : ab = a \o b
    OBVIOUS
  <1>11. /\ IsPlan(ab) /\ Len(ab) >= 1 /\ \A k \in 1 .. 1 : ab[k] = a[k]
         /\ \A k \in DOMAIN ab : k > 1 => Plain(ab[k])
    <2>1. 1 \in Nat /\ 1 <= Len(a)
      BY <1>6
    <2> QED
      BY ONLY <1>6, <1>7, <1>10, <2>1, Extended
  <1>12. PICK abc : abc = ab \o c
    OBVIOUS
  <1>13. /\ IsPlan(abc) /\ Len(abc) >= 1 /\ \A k \in 1 .. 1 : abc[k] = ab[k]
         /\ \A k \in DOMAIN abc : k > 1 => Plain(abc[k])
    BY ONLY <1>8, <1>11, <1>12, Extended
  <1>14. PICK ops : ops = abc \o d
    OBVIOUS
  <1>15. /\ IsPlan(ops) /\ Len(ops) >= 1 /\ \A k \in 1 .. 1 : ops[k] = abc[k]
         /\ \A k \in DOMAIN ops : k > 1 => Plain(ops[k])
    BY ONLY <1>9, <1>13, <1>14, Extended
  <1>16. ops[1] = <<"insert", m, u>>
    <2>1. 1 \in 1 .. 1
      OBVIOUS
    <2> QED
      BY <1>6, <1>11, <1>13, <1>15, <2>1
  <1>17. Opening(u, {m}, ops)
    BY <1>15, <1>16 DEF Opening
  <1>18. Start(p, "CreateMemo", {m}, ops)
    BY <1>1, <1>2, <1>3, <1>4, <1>5, <1>10, <1>12, <1>14
  <1> QED
    BY <1>15, <1>17, <1>18, StartBegins

LEMMA CreateMemoCommentBegins ==
    ASSUME StoreTypeOK, NEW p, NEW u \in Users, NEW c \in Memos, NEW parent \in Memos,
           CreateMemoComment(p, u, c, parent)
    PROVE  \E ids, ops : Begun(p, u, ids, ops)
  <1>1. /\ MemoExists(parent)
        /\ Start(p, "CreateMemoComment", {c},
                 <<<<"insert", c, u>>, <<"relate", c, parent, "COMMENT">>>>
                 \o (IF db.memo[parent] = u THEN <<>>
                     ELSE <<<<"row", "inbox", Row(u, db.memo[parent], c, parent)>>>>)
                 \o <<<<"mention", c, u, parent>>>>)
    BY DEF CreateMemoComment
  <1>2. PICK a : a = <<<<"insert", c, u>>, <<"relate", c, parent, "COMMENT">>>>
    OBVIOUS
  <1>3. PICK b : b = IF db.memo[parent] = u THEN <<>> ELSE <<<<"row", "inbox", Row(u, db.memo[parent], c, parent)>>>>
    OBVIOUS
  <1>4. PICK d : d = <<<<"mention", c, u, parent>>>>
    OBVIOUS
  <1>5. /\ IsPlan(a) /\ Len(a) = 2 /\ a[1] = <<"insert", c, u>> /\ a[2] = <<"relate", c, parent, "COMMENT">>
        /\ \A k \in DOMAIN a : k > 2 => Plain(a[k])
    <2>1. IsPlan(a) /\ Len(a) = 2
      BY <1>2, LiteralPlans
    <2>2. DOMAIN a = {1, 2} /\ a[1] = <<"insert", c, u>> /\ a[2] = <<"relate", c, parent, "COMMENT">>
      BY <1>2
    <2> QED
      BY <2>1, <2>2
  <1>6. IsPlan(b) /\ \A s \in Stmts(b) : Plain(s)
    <2>1. CASE db.memo[parent] = u
      BY <1>3, <2>1, LiteralPlans
    <2>2. CASE db.memo[parent] # u
      <3>1. PICK v \in Users : v = db.memo[parent]
        BY <1>1 DEF StoreTypeOK, Tables, MemoExists
      <3>2. Row(u, v, c, parent) \in AnyRow
        BY DEF Row, AnyRow
      <3>3. Plain(<<"row", "inbox", Row(u, v, c, parent)>>)
        BY <3>2 DEF Plain, PlainOps, StmtOK, AboutMemo, AboutAtt
      <3> QED
        BY <1>3, <2>2, <3>1, <3>3, OnePlain
    <2> QED
      BY <2>1, <2>2
  <1>7. IsPlan(d) /\ \A s \in Stmts(d) : Plain(s)
    <2>1. Plain(<<"mention", c, u, parent>>)
      BY DEF Plain, PlainOps, StmtOK, AboutMemo, AboutAtt
    <2> QED
      BY <1>4, <2>1, OnePlain
  <1>8. PICK ab : ab = a \o b
    OBVIOUS
  <1>9. /\ IsPlan(ab) /\ Len(ab) >= 2 /\ \A k \in 1 .. 2 : ab[k] = a[k]
        /\ \A k \in DOMAIN ab : k > 2 => Plain(ab[k])
    BY ONLY <1>5, <1>6, <1>8, Extended
  <1>10. PICK ops : ops = ab \o d
    OBVIOUS
  <1>11. /\ IsPlan(ops) /\ Len(ops) >= 2 /\ \A k \in 1 .. 2 : ops[k] = ab[k]
         /\ \A k \in DOMAIN ops : k > 2 => Plain(ops[k])
    BY ONLY <1>7, <1>9, <1>10, Extended
  <1>12. ops[1] = <<"insert", c, u>> /\ ops[2] = <<"relate", c, parent, "COMMENT">>
    <2>1. 1 \in 1 .. 2 /\ 2 \in 1 .. 2
      OBVIOUS
    <2> QED
      BY <1>5, <1>9, <1>11, <2>1
  <1>13. Len(ops) >= 1
    BY <1>11, PlanDomain
  <1>14. Opening(u, {c}, ops)
    BY <1>11, <1>12, <1>13 DEF Opening
  <1>15. Start(p, "CreateMemoComment", {c}, ops)
    BY <1>1, <1>2, <1>3, <1>4, <1>8, <1>10
  <1> QED
    BY <1>11, <1>14, <1>15, StartBegins

\* The references of a memo are set, by the update or by the request of its own.
LEMMA SetRefsBegins ==
    ASSUME NEW p, NEW u, NEW kind, NEW m \in Memos, NEW refs \in RefSets, NEW order \in SetToSeqs(refs \ {m}),
           Start(p, kind, {}, SetRefs(m, order))
    PROVE  \E ids, ops : Begun(p, u, ids, ops)
  <1>1. refs \ {m} \in SUBSET Memos
    BY RefSetsAreMemos
  <1>2. PICK ops : ops = SetRefs(m, order)
    OBVIOUS
  <1>3. IsPlan(ops) /\ \A s \in Stmts(ops) : Plain(s)
    BY <1>1, <1>2, SetRefsPlain
  <1>4. Opening(u, {}, ops)
    BY <1>3 DEF Opening
  <1>5. Start(p, kind, {}, ops)
    BY <1>2
  <1> QED
    BY <1>3, <1>4, <1>5, StartBegins

LEMMA UpdateMemoBegins ==
    ASSUME NEW p, NEW u \in Users, NEW m \in Memos, NEW change \in Changes(u, m), UpdateMemo(p, u, m, change)
    PROVE  \E ids, ops : Begun(p, u, ids, ops)
  <1>1. Start(p, "UpdateMemo", {}, change)
    BY DEF UpdateMemo
  <1>2. CASE change = <<<<"rebuild", m>>>>
    <2>1. Plain(<<"rebuild", m>>)
      BY DEF Plain, PlainOps, StmtOK, AboutMemo, AboutAtt
    <2> QED
      BY <1>1, <1>2, <2>1, OneStatement
  <1>3. CASE \E atts \in SUBSET Atts : change = <<<<"setAtts", m, u, atts>>>>
    <2>1. PICK atts \in SUBSET Atts : change = <<<<"setAtts", m, u, atts>>>>
      BY <1>3
    <2>2. Plain(<<"setAtts", m, u, atts>>)
      BY DEF Plain, PlainOps, StmtOK, AboutMemo, AboutAtt
    <2> QED
      BY <1>1, <2>1, <2>2, OneStatement
  <1>4. CASE \E refs \in RefSets : change = SetRefs(m, SetToSeq(refs \ {m}))
    <2>1. PICK refs \in RefSets : change = SetRefs(m, SetToSeq(refs \ {m}))
      BY <1>4
    <2>2. IsFiniteSet(refs \ {m})
      BY RefSetsAreMemos, SubsetsAreFinite
    <2>3. PICK order \in SetToSeqs(refs \ {m}) : order = SetToSeq(refs \ {m})
      BY <2>2, SetToSeqIsOrder
    <2>4. Start(p, "UpdateMemo", {}, SetRefs(m, order))
      BY <1>1, <2>1, <2>3
    <2> QED
      BY <2>4, SetRefsBegins
  <1> QED
    BY <1>2, <1>3, <1>4 DEF Changes

LEMMA AttachmentRequestBegins ==
    ASSUME StoreTypeOK, NEW p, NEW u \in Users, NEW a \in Atts,
           (\E m \in (Memos \cap used) \cup {None} : CreateAttachment(p, u, a, m)) \/ DeleteAttachment(p, u, a)
    PROVE  \E ids, ops : Begun(p, u, ids, ops)
  <1>1. CASE \E m \in (Memos \cap used) \cup {None} : CreateAttachment(p, u, a, m)
    <2>1. PICK m \in Memos \cup {None} : CreateAttachment(p, u, a, m)
      BY <1>1
    <2>2. PICK ops : ops = <<<<"upload", a>>, <<"attInsert", a, u, m>>>>
      OBVIOUS
    <2>3. IsPlan(ops)
      BY <2>2, LiteralPlans
    <2>4. Opening(u, {a}, ops)
      BY <2>2 DEF Opening
    <2>5. Start(p, "CreateAttachment", {a}, ops)
      BY <2>1, <2>2 DEF CreateAttachment
    <2> QED
      BY <2>3, <2>4, <2>5, StartBegins
  <1>2. CASE DeleteAttachment(p, u, a)
    <2>1. Start(p, "DeleteAttachment", {}, <<<<"drop", a>>>>) /\ AttExists(a)
      BY <1>2, StoreAssumption DEF DeleteAttachment, AttExists
    <2>2. Plain(<<"drop", a>>)
      BY <2>1 DEF Plain, PlainOps, StmtOK, AboutMemo, AboutAtt
    <2> QED
      BY <2>1, <2>2, OneStatement
  <1> QED
    BY <1>1, <1>2

LEMMA BatchDeleteBegins ==
    ASSUME NEW p, NEW u \in Users, NEW atts \in SUBSET Atts, BatchDeleteAttachments(p, u, atts)
    PROVE  \E ids, ops : Begun(p, u, ids, ops)
  <1>1. Start(p, "BatchDeleteAttachments", {}, <<<<"attRows", atts>>>>) /\ \A a \in atts : AttExists(a)
    BY DEF BatchDeleteAttachments
  <1>2. Plain(<<"attRows", atts>>)
    BY <1>1 DEF Plain, PlainOps, StmtOK, AboutMemo, AboutAtt
  <1> QED
    BY <1>1, <1>2, OneStatement

\* Requests about one memo that is there.
LEMMA MemoRequestBegins ==
    ASSUME NEW p, NEW u \in Users, NEW m \in Memos,
           \/ DeleteMemo(p, u, m) \/ UpsertMemoReaction(p, u, m) \/ CreateMemoShare(p, u, m)
           \/ \E atts \in SUBSET Atts : SetMemoAttachments(p, u, m, atts)
           \/ \E refs \in RefSets : SetMemoRelations(p, u, m, refs)
    PROVE  \E ids, ops : Begun(p, u, ids, ops)
  <1>1. CASE DeleteMemo(p, u, m)
    <2>1. Plain(<<"comments", m>>)
      BY DEF Plain, PlainOps, StmtOK, AboutMemo, AboutAtt
    <2> QED
      BY <1>1, <2>1, OneStatement DEF DeleteMemo
  <1>2. CASE UpsertMemoReaction(p, u, m)
    <2>1. PICK r : r = Row(u, u, m, None)
      OBVIOUS
    <2>2. r \in AnyRow /\ r.by = r.to
      BY <2>1 DEF Row, AnyRow
    <2>3. Plain(<<"row", "reaction", r>>)
      BY <2>2 DEF Plain, PlainOps, StmtOK, AboutMemo, AboutAtt
    <2>4. Start(p, "UpsertMemoReaction", {}, <<<<"row", "reaction", r>>>>)
      BY <1>2, <2>1 DEF UpsertMemoReaction
    <2> QED
      BY <2>3, <2>4, OneStatement
  <1>3. CASE CreateMemoShare(p, u, m)
    <2>1. PICK r : r = Row(u, u, m, m)
      OBVIOUS
    <2>2. r \in AnyRow /\ r.by = r.to
      BY <2>1 DEF Row, AnyRow
    <2>3. Plain(<<"row", "share", r>>)
      BY <2>2 DEF Plain, PlainOps, StmtOK, AboutMemo, AboutAtt
    <2>4. Start(p, "CreateMemoShare", {}, <<<<"row", "share", r>>>>)
      BY <1>3, <2>1 DEF CreateMemoShare
    <2> QED
      BY <2>3, <2>4, OneStatement
  <1>4. CASE \E atts \in SUBSET Atts : SetMemoAttachments(p, u, m, atts)
    <2>1. PICK atts \in SUBSET Atts : SetMemoAttachments(p, u, m, atts)
      BY <1>4
    <2>2. Plain(<<"setAtts", m, u, atts>>)
      BY DEF Plain, PlainOps, StmtOK, AboutMemo, AboutAtt
    <2> QED
      BY <2>1, <2>2, OneStatement DEF SetMemoAttachments
  <1>5. CASE \E refs \in RefSets : SetMemoRelations(p, u, m, refs)
    <2>1. PICK refs \in RefSets : SetMemoRelations(p, u, m, refs)
      BY <1>5
    <2>2. PICK order \in SetToSeqs(refs \ {m}) : Start(p, "SetMemoRelations", {}, SetRefs(m, order))
      BY <2>1 DEF SetMemoRelations
    <2> QED
      BY <2>2, SetRefsBegins
  <1> QED
    BY <1>1, <1>2, <1>3, <1>4, <1>5

LEMMA RowRequestBegins ==
    ASSUME NEW p, NEW u \in Users, NEW r,
           DeleteMemoReaction(p, u, r) \/ DeleteMemoShare(p, u, r) \/ DeleteUserNotification(p, u, r)
    PROVE  \E ids, ops : Begun(p, u, ids, ops)
  <1>1. PICK kind : Start(p, kind, {}, <<<<"unrow", r>>>>)
    BY DEF DeleteMemoReaction, DeleteMemoShare, DeleteUserNotification
  <1>2. Plain(<<"unrow", r>>)
    BY DEF Plain, PlainOps, StmtOK, AboutMemo, AboutAtt
  <1> QED
    BY <1>1, <1>2, OneStatement

LEMMA RequestBegins ==
    ASSUME StoreTypeOK, NEW p \in Procs, NEW u \in db.users, Request(p, u)
    PROVE  \E ids, ops : Begun(p, u, ids, ops)
  <1>1. u \in Users
    BY DEF StoreTypeOK, Tables
  <1>2. CASE \E m \in Memos \ used, atts \in SUBSET Atts, refs \in RefSets : CreateMemo(p, u, m, atts, refs)
    BY <1>1, <1>2, CreateMemoBegins
  <1>3. ASSUME NEW m \in Memos \cap used,
               \/ DeleteMemo(p, u, m)
               \/ UpsertMemoReaction(p, u, m)
               \/ CreateMemoShare(p, u, m)
               \/ \E c \in Memos \ used : CreateMemoComment(p, u, c, m)
               \/ \E atts \in SUBSET Atts : SetMemoAttachments(p, u, m, atts)
               \/ \E refs \in RefSets : SetMemoRelations(p, u, m, refs)
               \/ \E change \in Changes(u, m) : UpdateMemo(p, u, m, change)
        PROVE  \E ids, ops : Begun(p, u, ids, ops)
    <2>1. CASE \E c \in Memos \ used : CreateMemoComment(p, u, c, m)
      BY <1>1, <2>1, CreateMemoCommentBegins
    <2>2. CASE \E change \in Changes(u, m) : UpdateMemo(p, u, m, change)
      BY <1>1, <2>2, UpdateMemoBegins
    <2>3. m \in Memos
      OBVIOUS
    <2>4. CASE \/ DeleteMemo(p, u, m) \/ UpsertMemoReaction(p, u, m) \/ CreateMemoShare(p, u, m)
               \/ \E atts \in SUBSET Atts : SetMemoAttachments(p, u, m, atts)
               \/ \E refs \in RefSets : SetMemoRelations(p, u, m, refs)
      BY <1>1, <2>3, <2>4, MemoRequestBegins
    <2> QED
      BY <1>3, <2>1, <2>2, <2>4
  <1>4. CASE \E a \in Atts : \/ \E m \in (Memos \cap used) \cup {None} : CreateAttachment(p, u, a, m)
                             \/ DeleteAttachment(p, u, a)
    BY <1>1, <1>4, AttachmentRequestBegins
  <1>5. CASE \E atts \in SUBSET Atts : BatchDeleteAttachments(p, u, atts)
    BY <1>1, <1>5, BatchDeleteBegins
  <1>6. CASE (\E r \in db.reaction : DeleteMemoReaction(p, u, r)) \/ (\E r \in db.share : DeleteMemoShare(p, u, r))
             \/ (\E r \in db.inbox : DeleteUserNotification(p, u, r))
    BY <1>1, <1>6, RowRequestBegins
  <1>7. CASE \E target \in Users : DeleteUser(p, u, target)
    <2>1. PICK target \in Users : DeleteUser(p, u, target)
      BY <1>7
    <2>2. Plain(<<"deleteUser", target>>)
      BY DEF Plain, PlainOps, StmtOK, AboutMemo, AboutAtt
    <2> QED
      BY <2>1, <2>2, OneStatement DEF DeleteUser
  <1>8. CASE \E batch \in SUBSET (Memos \ used) : ImportMemoExport(p, u, batch)
    <2>1. PICK batch \in SUBSET Memos : ImportMemoExport(p, u, batch)
      BY <1>8
    <2>2. PICK ops : ops = <<<<"lock", u>>, <<"empty", u>>, <<"load", u, batch>>>>
      OBVIOUS
    <2>3. IsPlan(ops)
      BY <2>2, LiteralPlans
    <2>4. Opening(u, batch, ops)
      BY <2>2 DEF Opening
    <2>5. Start(p, "ImportMemoExport", batch, ops)
      BY <2>1, <2>2 DEF ImportMemoExport, ImportOps
    <2> QED
      BY <2>3, <2>4, <2>5, StartBegins
  <1> QED
    BY <1>2, <1>3, <1>4, <1>5, <1>6, <1>7, <1>8 DEF Request

(***************************************************************************)
(* The type invariant.                                                     *)
(***************************************************************************)
LEMMA ProducedOK ==
    ASSUME StoreTypeOK, NEW p \in Procs, proc[p] # <<>>, NEW s, Produced(Head(proc[p]), s)
    PROVE  StmtOK(s)
  <1>1. PICK h : h = Head(proc[p])
    OBVIOUS
  <1>2. StmtOK(h) /\ Produced(h, s)
    BY <1>1, HeadOK
  <1>3. AttsOf(h[2]) \subseteq Atts /\ AttsOfUser(h[2], MemoTree(h[2])) \subseteq Atts
    BY DEF AttsOf, AttsOfUser
  <1>4. CommentsOf(h[2]) \subseteq Memos
    BY CommentsAreMemos
  <1> QED
    BY <1>2, <1>3, <1>4 DEF Produced, StmtOK, AboutMemo, AboutAtt

\* A statement a request begins with.
FreshStmt(u, ids, ops, k) ==
    \/ k = 1 /\ \E m \in Memos : ids = {m} /\ ops[1] = <<"insert", m, u>>
    \/ k = 2 /\ \E m, parent \in Memos :
         ids = {m} /\ ops[1] = <<"insert", m, u>> /\ ops[2] = <<"relate", m, parent, "COMMENT">>

LEMMA OpeningStatements ==
    ASSUME NEW u, NEW ids, NEW ops, IsPlan(ops), Opening(u, ids, ops), NEW k \in DOMAIN ops
    PROVE  \/ Plain(ops[k])
           \/ FreshStmt(u, ids, ops, k)
           \/ \E a \in Atts, m \in Memos \cup {None} :
                ids = {a} /\ ops = <<<<"upload", a>>, <<"attInsert", a, u, m>>>>
           \/ \E batch \in SUBSET Memos : ids = batch /\ ops = <<<<"lock", u>>, <<"empty", u>>, <<"load", u, batch>>>>
  <1>1. CASE \A s \in Stmts(ops) : Plain(s)
    <2>1. PICK s : s = ops[k]
      OBVIOUS
    <2>2. Plain(s)
      BY <1>1, <2>1 DEF Stmts
    <2> QED
      BY <2>1, <2>2
  <1>2. ASSUME NEW m \in Memos, ids = {m}, ops[1] = <<"insert", m, u>>,
               \/ \A i \in DOMAIN ops : i > 1 => Plain(ops[i])
               \/ \E parent \in Memos :
                    /\ Len(ops) >= 2 /\ ops[2] = <<"relate", m, parent, "COMMENT">>
                    /\ \A i \in DOMAIN ops : i > 2 => Plain(ops[i])
        PROVE  Plain(ops[k]) \/ FreshStmt(u, ids, ops, k)
    <2>1. k \in Nat /\ k >= 1
      BY PlanDomain
    <2>2. CASE k = 1
      BY <1>2, <2>2 DEF FreshStmt
    <2>3. CASE k # 1 /\ \A i \in DOMAIN ops : i > 1 => Plain(ops[i])
      <3>1. k > 1
        BY <2>1, <2>3
      <3> QED
        BY <2>3, <3>1
    <2>4. CASE k # 1 /\ \E parent \in Memos :
                 /\ ops[2] = <<"relate", m, parent, "COMMENT">>
                 /\ \A i \in DOMAIN ops : i > 2 => Plain(ops[i])
      <3>1. PICK parent \in Memos : /\ ops[2] = <<"relate", m, parent, "COMMENT">>
                                   /\ \A i \in DOMAIN ops : i > 2 => Plain(ops[i])
        BY <2>4
      <3>2. CASE k = 2
        BY <1>2, <3>1, <3>2 DEF FreshStmt
      <3>3. CASE k > 2
        BY <3>1, <3>3
      <3> QED
        BY <2>1, <2>4, <3>2, <3>3
    <2> QED
      BY <1>2, <2>2, <2>3, <2>4
  <1> QED
    BY <1>1, <1>2 DEF Opening

LEMMA OpeningOK ==
    ASSUME NEW u \in Users, NEW ids, NEW ops, IsPlan(ops), Opening(u, ids, ops)
    PROVE  PlanOK(ops)
  <1>1. ASSUME NEW k \in DOMAIN ops PROVE StmtOK(ops[k])
    <2>1. CASE Plain(ops[k])
      BY <2>1 DEF Plain
    <2>2. CASE FreshStmt(u, ids, ops, k)
      BY <2>2 DEF FreshStmt, StmtOK, AboutMemo, AboutAtt
    <2>3. ASSUME NEW a \in Atts, NEW m \in Memos \cup {None}, ops = <<<<"upload", a>>, <<"attInsert", a, u, m>>>>
          PROVE  StmtOK(ops[k])
      BY <2>3 DEF StmtOK, AboutMemo, AboutAtt
    <2>4. ASSUME NEW batch \in SUBSET Memos, ops = <<<<"lock", u>>, <<"empty", u>>, <<"load", u, batch>>>>
          PROVE  StmtOK(ops[k])
      BY <2>4 DEF StmtOK, AboutMemo, AboutAtt
    <2> QED
      BY <2>1, <2>2, <2>3, <2>4, OpeningStatements
  <1> QED
    BY <1>1 DEF PlanOK, Stmts

LEMMA ReplacedOK ==
    ASSUME StoreTypeOK, NEW p \in Procs, NEW more, Replaced(p, more), \A s \in Stmts(more) : Produced(Head(proc[p]), s)
    PROVE  DOMAIN proc' = Procs /\ \A q \in Procs : PlanOK(proc'[q])
  <1>1. PICK pl : pl = proc[p]
    OBVIOUS
  <1>2. PICK t : t = Tail(pl)
    OBVIOUS
  <1>3. PICK h : h = Head(pl)
    OBVIOUS
  <1>4. IsPlan(pl) /\ pl # <<>> /\ \A s \in Stmts(pl) : StmtOK(s)
    BY <1>1 DEF StoreTypeOK, PlanOK, Replaced
  <1>5. IsPlan(t) /\ Stmts(t) \subseteq Stmts(pl)
    BY <1>2, <1>4, TailStmts
  <1>6. PICK new : new = more \o t
    OBVIOUS
  <1>7. IsPlan(more)
    BY DEF Replaced
  <1>8. IsPlan(new) /\ Stmts(new) = Stmts(more) \cup Stmts(t)
    BY <1>5, <1>6, <1>7, JoinedStmts
  <1>9. \A s \in Stmts(more) : StmtOK(s)
    BY <1>1, <1>4, ProducedOK
  <1>10. PlanOK(new)
    BY <1>4, <1>5, <1>8, <1>9 DEF PlanOK
  <1>11. proc' = [proc EXCEPT ![p] = new]
    BY <1>1, <1>2, <1>6 DEF Replaced
  <1> QED
    BY <1>10, <1>11 DEF StoreTypeOK

LEMMA EmptyPlanOK == PlanOK(<<>>)
  BY LiteralPlans DEF PlanOK

LEMMA TypeInit == StoreInit => StoreTypeOK
  <1> SUFFICES ASSUME StoreInit PROVE StoreTypeOK
    OBVIOUS
  <1>0. PICK memo \in [Memos -> Users \cup {None}], parent \in [Memos -> Memos \cup {None}],
             att \in [Atts -> {NoAtt} \cup [creator : Users, memo : Memos \cup {None}]] : Holds(memo, parent, att)
    BY DEF StoreInit
  <1>1. /\ \A m \in Memos : parent[m] # None => memo[m] # None /\ memo[parent[m]] # None
        /\ db = [users |-> Users,
                 memo |-> memo,
                 rel |-> {<<m, parent[m], "COMMENT">> : m \in {m \in Memos : parent[m] # None}},
                 att |-> att,
                 reaction |-> {}, share |-> {},
                 inbox |-> {Row(memo[m], memo[parent[m]], m, parent[m]) :
                              m \in {c \in {m \in Memos : parent[m] # None} : memo[c] # memo[parent[c]]}}]
        /\ parentOf = parent
        /\ proc = [p \in Procs |-> <<>>]
    BY <1>0 DEF StoreInit, Holds
  <1>2. \A a \in Atts : att[a] \in AttRow
    BY DEF NoAtt, AttRow
  <1>3. att \in [Atts -> AttRow]
    BY <1>2
  <1>4. \A m \in Memos : parent[m] # None => parent[m] \in Memos /\ memo[m] \in Users /\ memo[parent[m]] \in Users
    BY <1>1
  <1>5. \A m \in Memos : parent[m] # None => Row(memo[m], memo[parent[m]], m, parent[m]) \in AnyRow
    BY <1>4 DEF Row, AnyRow
  <1>6. db \in Tables
    <2>1. {<<m, parent[m], "COMMENT">> : m \in {m \in Memos : parent[m] # None}}
            \subseteq Memos \X Memos \X {"COMMENT", "REFERENCE"}
      BY <1>4
    <2>2. {Row(memo[m], memo[parent[m]], m, parent[m]) :
             m \in {c \in {m \in Memos : parent[m] # None} : memo[c] # memo[parent[c]]}} \subseteq AnyRow
      BY <1>5
    <2> QED
      BY <1>1, <1>3, <2>1, <2>2 DEF Tables
  <1>7. DOMAIN proc = Procs /\ \A p \in Procs : PlanOK(proc[p])
    BY <1>1, EmptyPlanOK
  <1> QED
    BY <1>1, <1>6, <1>7 DEF StoreTypeOK

LEMMA TablesWith ==
    ASSUME NEW t \in Tables
    PROVE  /\ \A x \in [Memos -> Users \cup {None}] : [t EXCEPT !.memo = x] \in Tables
           /\ \A x \in SUBSET (Memos \X Memos \X {"COMMENT", "REFERENCE"}) : [t EXCEPT !.rel = x] \in Tables
           /\ \A x \in [Atts -> AttRow] : [t EXCEPT !.att = x] \in Tables
           /\ \A x \in SUBSET AnyRow : [t EXCEPT !.reaction = x] \in Tables
           /\ \A x \in SUBSET AnyRow : [t EXCEPT !.share = x] \in Tables
           /\ \A x \in SUBSET AnyRow : [t EXCEPT !.inbox = x] \in Tables
  BY DEF Tables

\* What the statements do to the tables, one field at a time.
LEMMA MemoStatementTables ==
    ASSUME StoreTypeOK, NEW p \in Procs,
           Wipe(p) \/ UnrelateTo(p) \/ DropMemo(p) \/ InsertMemo(p) \/ Relate(p) \/ ClearRefs(p) \/ LoadBatch(p)
    PROVE  db' \in Tables
  <1>1. PICK h : h = Head(proc[p])
    OBVIOUS
  <1>2. PICK t \in Tables : t = db
    BY DEF StoreTypeOK
  <1>3. proc[p] # <<>>
    BY DEF Wipe, UnrelateTo, DropMemo, InsertMemo, Relate, ClearRefs, LoadBatch, At
  <1>4. StmtOK(h)
    BY <1>1, <1>3, HeadOK
  <1>5. t.memo \in [Memos -> Users \cup {None}] /\ t.rel \in SUBSET (Memos \X Memos \X {"COMMENT", "REFERENCE"})
    BY <1>2 DEF Tables
  <1>6. CASE Wipe(p)
    <2>1. PICK x : x = {r \in t.rel : r[1] # h[2]}
      OBVIOUS
    <2>2. db' = [t EXCEPT !.rel = x]
      BY <1>1, <1>2, <1>6, <2>1 DEF Wipe, Arg
    <2>3. x \in SUBSET (Memos \X Memos \X {"COMMENT", "REFERENCE"})
      BY <1>5, <2>1
    <2> QED
      BY <2>2, <2>3, TablesWith
  <1>7. CASE UnrelateTo(p)
    <2>1. PICK x : x = {r \in t.rel : r[2] # h[2]}
      OBVIOUS
    <2>2. db' = [t EXCEPT !.rel = x]
      BY <1>1, <1>2, <1>7, <2>1 DEF UnrelateTo, Write, Arg
    <2>3. x \in SUBSET (Memos \X Memos \X {"COMMENT", "REFERENCE"})
      BY <1>5, <2>1
    <2> QED
      BY <2>2, <2>3, TablesWith
  <1>8. CASE DropMemo(p)
    <2>1. PICK x : x = [t.memo EXCEPT ![h[2]] = None]
      OBVIOUS
    <2>2. db' = [t EXCEPT !.memo = x]
      BY <1>1, <1>2, <1>8, <2>1 DEF DropMemo, Write, Arg
    <2>3. x \in [Memos -> Users \cup {None}]
      BY <1>5, <2>1
    <2> QED
      BY <2>2, <2>3, TablesWith
  <1>9. CASE InsertMemo(p)
    <2>1. PICK x : x = [t.memo EXCEPT ![h[2]] = h[3]]
      OBVIOUS
    <2>2. db' = [t EXCEPT !.memo = x]
      BY <1>1, <1>2, <1>9, <2>1 DEF InsertMemo, Write, Arg
    <2>3. h[3] \in Users
      BY <1>1, <1>4, <1>9 DEF InsertMemo, At, StmtOK
    <2>4. x \in [Memos -> Users \cup {None}]
      BY <1>5, <2>1, <2>3
    <2> QED
      BY <2>2, <2>4, TablesWith
  <1>10. CASE Relate(p)
    <2>1. PICK x : x = t.rel \cup {<<h[2], h[3], h[4]>>}
      OBVIOUS
    <2>2. db' = [t EXCEPT !.rel = x]
      BY <1>1, <1>2, <1>10, <2>1 DEF Relate, Write, Arg
    <2>3. h[2] \in Memos /\ h[3] \in Memos /\ h[4] \in {"COMMENT", "REFERENCE"}
      BY <1>1, <1>4, <1>10 DEF Relate, At, StmtOK, AboutMemo
    <2>4. x \in SUBSET (Memos \X Memos \X {"COMMENT", "REFERENCE"})
      BY <1>5, <2>1, <2>3
    <2> QED
      BY <2>2, <2>4, TablesWith
  <1>11. CASE ClearRefs(p)
    <2>1. PICK x : x = {r \in t.rel : r[1] # h[2] \/ r[3] # "REFERENCE"}
      OBVIOUS
    <2>2. db' = [t EXCEPT !.rel = x]
      BY <1>1, <1>2, <1>11, <2>1 DEF ClearRefs, Write, Arg
    <2>3. x \in SUBSET (Memos \X Memos \X {"COMMENT", "REFERENCE"})
      BY <1>5, <2>1
    <2> QED
      BY <2>2, <2>3, TablesWith
  <1>12. CASE LoadBatch(p)
    <2>1. PICK x : x = [m \in Memos |-> IF m \in h[3] THEN h[2] ELSE t.memo[m]]
      OBVIOUS
    <2>2. db' = [t EXCEPT !.memo = x]
      BY <1>1, <1>2, <1>12, <2>1 DEF LoadBatch, Arg
    <2>3. h[2] \in Users
      BY <1>1, <1>4, <1>12 DEF LoadBatch, At, StmtOK
    <2>4. x \in [Memos -> Users \cup {None}]
      BY <1>5, <2>1, <2>3
    <2> QED
      BY <2>2, <2>4, TablesWith
  <1> QED
    BY <1>6, <1>7, <1>8, <1>9, <1>10, <1>11, <1>12

LEMMA AttStatementTables ==
    ASSUME StoreTypeOK, NEW p \in Procs, InsertAtt(p) \/ DropAttRow(p) \/ DropAttRows(p) \/ Attach(p)
    PROVE  db' \in Tables
  <1>1. PICK h : h = Head(proc[p])
    OBVIOUS
  <1>2. PICK t \in Tables : t = db
    BY DEF StoreTypeOK
  <1>3. proc[p] # <<>>
    BY DEF InsertAtt, DropAttRow, DropAttRows, Attach, At
  <1>4. StmtOK(h)
    BY <1>1, <1>3, HeadOK
  <1>5. t.att \in [Atts -> AttRow]
    BY <1>2 DEF Tables
  <1>6. NoAtt \in AttRow
    BY DEF NoAtt, AttRow
  <1>7. CASE InsertAtt(p)
    <2>1. PICK x : x = [t.att EXCEPT ![h[2]] = [creator |-> h[3], memo |-> h[4]]]
      OBVIOUS
    <2>2. db' = [t EXCEPT !.att = x]
      BY <1>1, <1>2, <1>7, <2>1 DEF InsertAtt, Write, Arg
    <2>3. [creator |-> h[3], memo |-> h[4]] \in AttRow
      BY <1>1, <1>4, <1>7 DEF InsertAtt, At, StmtOK, AttRow
    <2>4. x \in [Atts -> AttRow]
      BY <1>5, <2>1, <2>3
    <2> QED
      BY <2>2, <2>4, TablesWith
  <1>8. CASE DropAttRow(p)
    <2>1. PICK x : x = [t.att EXCEPT ![h[2]] = NoAtt]
      OBVIOUS
    <2>2. db' = [t EXCEPT !.att = x]
      BY <1>1, <1>2, <1>8, <2>1 DEF DropAttRow, Write, Arg
    <2>3. x \in [Atts -> AttRow]
      BY <1>5, <1>6, <2>1
    <2> QED
      BY <2>2, <2>3, TablesWith
  <1>9. CASE DropAttRows(p)
    <2>1. PICK x : x = [a \in Atts |-> IF a \in h[2] THEN NoAtt ELSE t.att[a]]
      OBVIOUS
    <2>2. db' = [t EXCEPT !.att = x]
      BY <1>1, <1>2, <1>9, <2>1 DEF DropAttRows, Arg
    <2>3. x \in [Atts -> AttRow]
      BY <1>5, <1>6, <2>1
    <2> QED
      BY <2>2, <2>3, TablesWith
  <1>10. CASE Attach(p)
    <2>1. h[2] \in Atts /\ h[3] \in Memos
      BY <1>1, <1>4, <1>10 DEF Attach, At, StmtOK, AboutAtt
    <2>2. PICK r : r = [t.att[h[2]] EXCEPT !.memo = h[3]]
      OBVIOUS
    <2>3. r \in AttRow
      BY <1>5, <2>1, <2>2 DEF AttRow
    <2>4. PICK x : x = [t.att EXCEPT ![h[2]] = r]
      OBVIOUS
    <2>5. db' = t \/ db' = [t EXCEPT !.att = x]
      <3>1. db' = IF AttExists(h[2]) THEN [t EXCEPT !.att[h[2]].memo = h[3]] ELSE t
        BY <1>1, <1>2, <1>10 DEF Attach, Write, Arg
      <3>2. [t EXCEPT !.att[h[2]].memo = h[3]] = [t EXCEPT !.att = x]
        BY <2>1, <2>2, <2>4
      <3> QED
        BY <3>1, <3>2
    <2>6. x \in [Atts -> AttRow]
      BY <1>5, <2>3, <2>4
    <2> QED
      BY <2>5, <2>6, TablesWith
  <1> QED
    BY <1>7, <1>8, <1>9, <1>10

LEMMA RowStatementTables ==
    ASSUME StoreTypeOK, NEW p \in Procs, AddRow(p) \/ DropRow(p)
    PROVE  db' \in Tables
  <1>1. PICK h : h = Head(proc[p])
    OBVIOUS
  <1>2. PICK t \in Tables : t = db
    BY DEF StoreTypeOK
  <1>3. proc[p] # <<>>
    BY DEF AddRow, DropRow, At
  <1>4. StmtOK(h)
    BY <1>1, <1>3, HeadOK
  <1>5. t.reaction \in SUBSET AnyRow /\ t.share \in SUBSET AnyRow /\ t.inbox \in SUBSET AnyRow
    BY <1>2 DEF Tables
  <1>6. CASE AddRow(p)
    <2>1. h[3] \in AnyRow
      BY <1>1, <1>4, <1>6 DEF AddRow, At, StmtOK
    <2>2. PICK x, y, z : x = t.reaction \cup {h[3]} /\ y = t.share \cup {h[3]} /\ z = t.inbox \cup {h[3]}
      OBVIOUS
    <2>3. db' = [t EXCEPT !.reaction = x] \/ db' = [t EXCEPT !.share = y] \/ db' = [t EXCEPT !.inbox = z]
      BY <1>1, <1>2, <1>6, <2>2 DEF AddRow, Write, Arg
    <2>4. x \in SUBSET AnyRow /\ y \in SUBSET AnyRow /\ z \in SUBSET AnyRow
      BY <1>5, <2>1, <2>2
    <2> QED
      BY <2>3, <2>4, TablesWith
  <1>7. CASE DropRow(p)
    <2>1. PICK x, y, z : x = t.reaction \ {h[2]} /\ y = t.share \ {h[2]} /\ z = t.inbox \ {h[2]}
      OBVIOUS
    <2>2. db' = [t EXCEPT !.reaction = x, !.share = y, !.inbox = z]
      BY <1>1, <1>2, <1>7, <2>1 DEF DropRow, Write, Arg
    <2>3. x \in SUBSET AnyRow /\ y \in SUBSET AnyRow /\ z \in SUBSET AnyRow
      BY <1>5, <2>1
    <2> QED
      BY <2>2, <2>3 DEF Tables
  <1> QED
    BY <1>6, <1>7

LEMMA DeleteUserTables ==
    ASSUME StoreTypeOK, NEW p \in Procs, DeleteUserTx(p)
    PROVE  db' \in Tables
  <1>1. PICK t \in Tables : t = db
    BY DEF StoreTypeOK
  <1>2. PICK u, tree, atts : u = Arg(p, 2) /\ tree = MemoTree(u) /\ atts = AttsOfUser(u, tree)
    OBVIOUS
  <1>3. PICK U, memo, rel, att, re, sh, inb :
          /\ U = t.users \ {u}
          /\ memo = [m \in Memos |-> IF m \in tree THEN None ELSE t.memo[m]]
          /\ rel = {r \in t.rel : r[1] \notin tree /\ r[2] \notin tree}
          /\ att = [a \in Atts |-> IF a \in atts THEN NoAtt ELSE t.att[a]]
          /\ re = {r \in t.reaction : r.by # u /\ r.memo \notin tree}
          /\ sh = {r \in t.share : r.by # u /\ r.memo \notin tree}
          /\ inb = {r \in t.inbox : ~TouchesUser(r, u, tree)}
    OBVIOUS
  <1>4. db' = [users |-> U, memo |-> memo, rel |-> rel, att |-> att, reaction |-> re, share |-> sh, inbox |-> inb]
    BY <1>1, <1>2, <1>3 DEF DeleteUserTx
  <1>5. NoAtt \in AttRow
    BY DEF NoAtt, AttRow
  <1>6. U \in SUBSET Users /\ memo \in [Memos -> Users \cup {None}] /\ att \in [Atts -> AttRow]
    BY <1>1, <1>3, <1>5 DEF Tables
  <1>7. /\ rel \in SUBSET (Memos \X Memos \X {"COMMENT", "REFERENCE"})
        /\ re \in SUBSET AnyRow /\ sh \in SUBSET AnyRow /\ inb \in SUBSET AnyRow
    BY <1>1, <1>3 DEF Tables
  <1> QED
    BY <1>4, <1>6, <1>7 DEF Tables

LEMMA ParentTyped ==
    ASSUME StoreTypeOK, NEW p \in Procs, Statement(p) \/ StorageFails(p)
    PROVE  parentOf' \in [Memos -> Memos \cup {None}]
  <1>1. parentOf \in [Memos -> Memos \cup {None}]
    BY DEF StoreTypeOK
  <1>2. CASE Relate(p)
    <2>1. PICK h : h = Head(proc[p])
      OBVIOUS
    <2>2. StmtOK(h) /\ h[1] = "relate"
      BY <1>2, <2>1, HeadOK DEF Relate, At
    <2>3. parentOf' = parentOf \/ parentOf' = [parentOf EXCEPT ![h[2]] = h[3]]
      BY <1>2, <2>1 DEF Relate, Arg
    <2>4. h[3] \in Memos
      BY <2>2 DEF StmtOK
    <2> QED
      BY <1>1, <2>3, <2>4
  <1>3. CASE ~Relate(p)
    <2>1. parentOf' = parentOf
      BY <1>3 DEF Statement, StorageFails, ListComments, Wipe, UnrelateTo, ListAtts, DropMemo, WriteFile, InsertAtt,
                  Drop, DropFile, DropAttRow, DropAttRows, SetAtts, Deny, Attach, InsertMemo, ClearRefs, Lookup, AddRow,
                  DropRow, Rebuild, Mention, Notify, DeleteUserTx, Lock, CheckEmpty, LoadBatch, NoHistory, Read, Refuse
    <2> QED
      BY <1>1, <2>1
  <1> QED
    BY <1>2, <1>3

LEMMA StatementTables ==
    ASSUME StoreTypeOK, NEW p \in Procs, Statement(p) \/ StorageFails(p)
    PROVE  db' \in Tables
  <1>1. CASE Wipe(p) \/ UnrelateTo(p) \/ DropMemo(p) \/ InsertMemo(p) \/ Relate(p) \/ ClearRefs(p) \/ LoadBatch(p)
    BY <1>1, MemoStatementTables
  <1>2. CASE InsertAtt(p) \/ DropAttRow(p) \/ DropAttRows(p) \/ Attach(p)
    BY <1>2, AttStatementTables
  <1>3. CASE AddRow(p) \/ DropRow(p)
    BY <1>3, RowStatementTables
  <1>4. CASE DeleteUserTx(p)
    BY <1>4, DeleteUserTables
  <1>5. CASE \/ ListComments(p) \/ ListAtts(p) \/ WriteFile(p) \/ Drop(p) \/ DropFile(p) \/ SetAtts(p) \/ Deny(p) \/ Lookup(p)
             \/ Rebuild(p) \/ Mention(p) \/ Lock(p) \/ CheckEmpty(p) \/ StorageFails(p)
    <2>1. db' = db
      BY <1>5 DEF StorageFails, ListComments, ListAtts, WriteFile, Drop, DropFile, SetAtts, Deny, Lookup,
                  Rebuild, Mention, Notify, Lock, CheckEmpty, Read, Refuse
    <2> QED
      BY <2>1 DEF StoreTypeOK
  <1> QED
    BY <1>1, <1>2, <1>3, <1>4, <1>5 DEF Statement

\* A request that ends here.
LEMMA EndedOK ==
    ASSUME StoreTypeOK, NEW p \in Procs, Abort(p)
    PROVE  DOMAIN proc' = Procs /\ \A q \in Procs : PlanOK(proc'[q])
  <1>1. proc' = [proc EXCEPT ![p] = <<>>]
    BY DEF Abort
  <1> QED
    BY <1>1, EmptyPlanOK DEF StoreTypeOK

LEMMA TypeStep ==
    ASSUME StoreTypeOK, [StoreNext]_storeVars
    PROVE  StoreTypeOK'
  <1>1. ASSUME NEW p \in Procs, Statement(p) \/ StorageFails(p)
        PROVE  StoreTypeOK'
    <2>1. db' \in Tables /\ parentOf' \in [Memos -> Memos \cup {None}]
      BY <1>1, StatementTables, ParentTyped
    <2>2. DOMAIN proc' = Procs /\ \A q \in Procs : PlanOK(proc'[q])
      <3>1. CASE \E more : Replaced(p, more) /\ \A s \in Stmts(more) : Produced(Head(proc[p]), s)
        BY <3>1, ReplacedOK
      <3>2. CASE Ends(p)
        BY <3>2, EndedOK DEF Ends, Refuse
      <3> QED
        BY <1>1, <3>1, <3>2, StatementMoves
    <2> QED
      BY <2>1, <2>2 DEF StoreTypeOK
  <1>2. ASSUME NEW p \in Procs, StatementFails(p)
        PROVE  StoreTypeOK'
    <2>1. DOMAIN proc' = Procs /\ \A q \in Procs : PlanOK(proc'[q])
      BY <1>2, EndedOK DEF StatementFails
    <2> QED
      BY <1>2, <2>1 DEF StatementFails, StoreTypeOK
  <1>3. ASSUME NEW p \in Procs, NEW u \in db.users, Request(p, u)
        PROVE  StoreTypeOK'
    <2>1. PICK ids, ops : Begun(p, u, ids, ops)
      BY <1>3, RequestBegins
    <2>2. u \in Users
      BY DEF StoreTypeOK, Tables
    <2>3. PlanOK(ops)
      BY <2>1, <2>2, OpeningOK DEF Begun
    <2>4. DOMAIN proc' = Procs /\ \A q \in Procs : PlanOK(proc'[q])
      BY <2>1, <2>3 DEF Begun, StoreTypeOK
    <2> QED
      BY <2>1, <2>4 DEF Begun, StoreTypeOK
  <1>4. ASSUME Crash
        PROVE  StoreTypeOK'
    <2>1. proc' = [p \in Procs |-> <<>>]
      BY <1>4 DEF Crash
    <2>2. DOMAIN proc' = Procs /\ \A q \in Procs : PlanOK(proc'[q])
      BY <2>1, EmptyPlanOK
    <2> QED
      BY <1>4, <2>2 DEF Crash, StoreTypeOK
  <1>5. CASE UNCHANGED storeVars
    BY <1>5 DEF storeVars, StoreTypeOK
  <1> QED
    BY <1>1, <1>2, <1>3, <1>4, <1>5 DEF StoreNext

\* The tables hold rows of the kinds the code writes, and every statement that
\* is pending names the ids it needs, for any numbers of everything.
THEOREM StoreIsTyped == StoreSpec => []StoreTypeOK
  BY TypeInit, TypeStep, PTL DEF StoreSpec

(***************************************************************************)
(* Where statements are after a step.                                      *)
(***************************************************************************)
LEMMA PlanMoves ==
    ASSUME StoreTypeOK, NEW p \in Procs, NEW more, Replaced(p, more)
    PROVE  /\ \A q \in Procs : q # p => proc'[q] = proc[q]
           /\ \A k \in DOMAIN proc'[p] : CameFrom(proc[p], more, proc'[p], k)
           /\ \A k \in DOMAIN more : k \in DOMAIN proc'[p] /\ proc'[p][k] = more[k]
           /\ \A i \in DOMAIN proc[p] : i >= 2 =>
                i - 1 + Len(more) \in DOMAIN proc'[p] /\ proc'[p][i - 1 + Len(more)] = proc[p][i]
  <1>1. PICK pl : pl = proc[p]
    OBVIOUS
  <1>2. PICK npl : npl = more \o Tail(pl)
    OBVIOUS
  <1>3. IsPlan(pl) /\ pl # <<>> /\ IsPlan(more)
    BY <1>1 DEF StoreTypeOK, PlanOK, Replaced
  <1>4. proc' = [proc EXCEPT ![p] = npl]
    BY <1>1, <1>2 DEF Replaced
  <1>5. proc'[p] = npl /\ \A q \in Procs : q # p => proc'[q] = proc[q]
    BY <1>4 DEF StoreTypeOK
  <1>6. DOMAIN more = 1 .. Len(more)
    BY <1>3, PlanDomain
  <1>7. /\ \A k \in 1 .. Len(more) : k \in DOMAIN npl /\ npl[k] = more[k]
        /\ \A k \in DOMAIN npl : CameFrom(pl, more, npl, k)
        /\ \A i \in DOMAIN pl : i >= 2 => i - 1 + Len(more) \in DOMAIN npl /\ npl[i - 1 + Len(more)] = pl[i]
    <2>1. \A k \in 1 .. Len(more) : k \in DOMAIN npl /\ npl[k] = more[k]
      BY ONLY <1>2, <1>3, Continued
    <2>2. \A k \in DOMAIN npl : CameFrom(pl, more, npl, k)
      BY ONLY <1>2, <1>3, Continued
    <2>3. \A i \in DOMAIN pl : i >= 2 => i - 1 + Len(more) \in DOMAIN npl /\ npl[i - 1 + Len(more)] = pl[i]
      BY ONLY <1>2, <1>3, Continued, SMTT(30)
    <2> QED
      BY <2>1, <2>2, <2>3
  <1> QED
    BY <1>1, <1>5, <1>6, <1>7

\* Statements in front of a statement stay in front of it, except the one that
\* is executed; what that one produces is in front of all others.
LEMMA FrontMoves ==
    ASSUME StoreTypeOK, NEW p \in Procs, NEW more, Replaced(p, more),
           NEW i \in DOMAIN proc[p], i >= 2, NEW k, k = i - 1 + Len(more), NEW op, NEW x
    PROVE  /\ Before(proc[p], i, op, x) => Before(proc'[p], k, op, x) \/ Is(Head(proc[p]), op, x)
           /\ (\E s \in Stmts(more) : Is(s, op, x)) => Before(proc'[p], k, op, x)
  <1>1. PICK n \in Nat : n = Len(more) /\ DOMAIN more = 1 .. n
    BY PlanDomain DEF Replaced
  <1>2. PICK pl : pl = proc[p]
    OBVIOUS
  <1>3. PICK npl : npl = proc'[p]
    OBVIOUS
  <1>4. PICK l \in Nat : l = Len(pl) /\ DOMAIN pl = 1 .. l /\ Head(pl) = pl[1]
    BY <1>2, PlanDomain DEF StoreTypeOK, PlanOK, Replaced
  <1>5. /\ \A j \in DOMAIN more : npl[j] = more[j]
        /\ \A j \in DOMAIN pl : j >= 2 => npl[j - 1 + n] = pl[j]
    BY <1>1, <1>2, <1>3, PlanMoves
  <1>6. i \in 1 .. l /\ k = i - 1 + n
    BY <1>1, <1>2, <1>4
  <1>7. ASSUME NEW j \in 1 .. (i - 1), Is(pl[j], op, x)
        PROVE  Before(npl, k, op, x) \/ Is(Head(pl), op, x)
    <2>1. CASE j = 1
      BY <1>4, <1>7, <2>1
    <2>2. CASE j # 1
      <3>1. j \in DOMAIN pl /\ j >= 2 /\ j - 1 + n \in 1 .. (k - 1)
        BY <1>4, <1>6, <2>2
      <3>2. npl[j - 1 + n] = pl[j]
        BY <1>5, <3>1
      <3> QED
        BY <1>7, <3>1, <3>2 DEF Before, Is
    <2> QED
      BY <2>1, <2>2
  <1>8. ASSUME NEW s \in Stmts(more), Is(s, op, x)
        PROVE  Before(npl, k, op, x)
    <2>1. PICK j \in DOMAIN more : s = more[j]
      BY DEF Stmts
    <2>2. j \in 1 .. (k - 1)
      BY <1>1, <1>6, <2>1
    <2> QED
      BY <1>5, <1>8, <2>1, <2>2 DEF Before, Is
  <1> QED
    BY <1>2, <1>3, <1>7, <1>8 DEF Before

\* What is pending after a statement.
LEMMA PendingMoves ==
    ASSUME StoreTypeOK, NEW p \in Procs, NEW more, Replaced(p, more), NEW op, NEW x
    PROVE  /\ Pending(op, x) => Pending(op, x)' \/ Is(Head(proc[p]), op, x)
           /\ Pending(op, x)' => Pending(op, x) \/ \E s \in Stmts(more) : Is(s, op, x)
           /\ (\E s \in Stmts(more) : Is(s, op, x)) => Pending(op, x)'
  <1>1. PICK n \in Nat : n = Len(more) /\ DOMAIN more = 1 .. n
    BY PlanDomain DEF Replaced
  <1>2. DOMAIN proc[p] = 1 .. Len(proc[p]) /\ Head(proc[p]) = proc[p][1]
    BY PlanDomain DEF StoreTypeOK, PlanOK, Replaced
  <1>3. ASSUME NEW q \in Procs, NEW i \in DOMAIN proc[q], Is(proc[q][i], op, x)
        PROVE  (\E k \in DOMAIN proc'[q] : Is(proc'[q][k], op, x)) \/ Is(Head(proc[p]), op, x)
    <2>1. CASE q # p
      BY <1>3, <2>1, PlanMoves
    <2>2. CASE q = p /\ i = 1
      BY <1>2, <1>3, <2>2
    <2>3. CASE q = p /\ i # 1
      <3>1. i >= 2
        BY <1>2, <2>3
      <3>2. i - 1 + Len(more) \in DOMAIN proc'[p] /\ proc'[p][i - 1 + Len(more)] = proc[p][i]
        BY <2>3, <3>1, PlanMoves
      <3> QED
        BY <1>3, <2>3, <3>2
    <2> QED
      BY <2>1, <2>2, <2>3
  <1>4. ASSUME NEW q \in Procs, NEW k \in DOMAIN proc'[q], Is(proc'[q][k], op, x)
        PROVE  (\E i \in DOMAIN proc[q] : Is(proc[q][i], op, x)) \/ \E s \in Stmts(more) : Is(s, op, x)
    <2>1. CASE q # p
      BY <1>4, <2>1, PlanMoves
    <2>2. CASE q = p
      <3>1. \/ k \in DOMAIN more /\ proc'[p][k] = more[k]
            \/ \E i \in DOMAIN proc[p] : i >= 2 /\ k = i - 1 + Len(more) /\ proc'[p][k] = proc[p][i]
        BY <2>2, PlanMoves DEF CameFrom
      <3> QED
        BY <1>4, <2>2, <3>1 DEF Stmts
    <2> QED
      BY <2>1, <2>2
  <1>5. ASSUME NEW s \in Stmts(more), Is(s, op, x)
        PROVE  \E k \in DOMAIN proc'[p] : Is(proc'[p][k], op, x)
    <2>1. PICK k \in DOMAIN more : s = more[k]
      BY DEF Stmts
    <2>2. k \in DOMAIN proc'[p] /\ proc'[p][k] = more[k]
      BY PlanMoves
    <2> QED
      BY <1>5, <2>1, <2>2
  <1> QED
    BY <1>3, <1>4, <1>5 DEF Pending, Is

(***************************************************************************)
(* The import holds the write lock from its first statement to its last,   *)
(* so nobody adds a memo between its look at the account and its commit.   *)
(***************************************************************************)
ImportTail(p, u, batch) ==
    \/ proc[p] = <<<<"lock", u>>, <<"empty", u>>, <<"load", u, batch>>>>
    \/ proc[p] = <<<<"empty", u>>, <<"load", u, batch>>>> /\ writer = p /\ u \in db.users
    \/ proc[p] = <<<<"load", u, batch>>>> /\ writer = p /\ u \in db.users /\ \A m \in Memos : db.memo[m] # u

ImportShape(p) ==
    (\E i \in DOMAIN proc[p] : proc[p][i][1] \in {"lock", "empty", "load"}) =>
      \E u \in Users, batch \in SUBSET Memos : ImportTail(p, u, batch)

ImportInv == \A p \in Procs : ImportShape(p)

LEMMA LiteralTails ==
    /\ \A a, b, c : <<>> \o Tail(<<a, b, c>>) = <<b, c>> /\ Head(<<a, b, c>>) = a
    /\ \A a, b : <<>> \o Tail(<<a, b>>) = <<b>> /\ Head(<<a, b>>) = a
    /\ \A a : <<>> \o Tail(<<a>>) = <<>> /\ Head(<<a>>) = a
  <1>1. ASSUME NEW a, NEW b, NEW c PROVE <<>> \o Tail(<<a, b, c>>) = <<b, c>> /\ Head(<<a, b, c>>) = a
    OBVIOUS
  <1>2. ASSUME NEW a, NEW b PROVE <<>> \o Tail(<<a, b>>) = <<b>> /\ Head(<<a, b>>) = a
    OBVIOUS
  <1>3. ASSUME NEW a PROVE <<>> \o Tail(<<a>>) = <<>> /\ Head(<<a>>) = a
    OBVIOUS
  <1> QED
    BY <1>1, <1>2, <1>3

\* While one goroutine holds the lock the others change no table.
LEMMA WriterBlocks ==
    ASSUME NEW p \in Procs, NEW q \in Procs, q # p, writer = p, Statement(q) \/ StorageFails(q)
    PROVE  db' = db /\ writer' = p
  <1>1. ~CanWrite(q) /\ writer # None /\ writer # q
    BY StoreAssumption DEF CanWrite
  <1>2. CASE \/ ListComments(q) \/ ListAtts(q) \/ WriteFile(q) \/ Drop(q) \/ DropFile(q) \/ SetAtts(q) \/ Deny(q) \/ Lookup(q)
             \/ Rebuild(q) \/ Mention(q) \/ CheckEmpty(q) \/ StorageFails(q) \/ Lock(q)
    BY <1>1, <1>2 DEF StorageFails, ListComments, ListAtts, WriteFile, Drop, DropFile, SetAtts, Deny, Lookup,
                Rebuild, Mention, Notify, CheckEmpty, Read, Refuse, Abort, Lock
  <1>3. CASE \/ Wipe(q) \/ UnrelateTo(q) \/ DropMemo(q) \/ InsertMemo(q) \/ Relate(q) \/ ClearRefs(q) \/ LoadBatch(q)
             \/ InsertAtt(q) \/ DropAttRow(q) \/ DropAttRows(q) \/ Attach(q) \/ AddRow(q) \/ DropRow(q) \/ DeleteUserTx(q)
    BY <1>1, <1>3 DEF Wipe, UnrelateTo, DropMemo, InsertMemo, Relate, ClearRefs, LoadBatch,
             InsertAtt, DropAttRow, DropAttRows, Attach, AddRow, DropRow, DeleteUserTx, Write
  <1> QED
    BY <1>2, <1>3 DEF Statement

ImportOp(s) == s[1] \in {"lock", "empty", "load"}

LEMMA NoImportProduced ==
    ASSUME NEW h, NEW s, Produced(h, s)
    PROVE  ~ImportOp(s)
  BY DEF Produced, ImportOp

\* The import takes one step.
LEMMA ImportMoves ==
    ASSUME StoreTypeOK, NEW p \in Procs, Statement(p) \/ StorageFails(p),
           NEW u \in Users, NEW batch \in SUBSET Memos, ImportTail(p, u, batch)
    PROVE  ImportTail(p, u, batch)' \/ proc'[p] = <<>>
  <1>1. CASE proc[p] = <<<<"lock", u>>, <<"empty", u>>, <<"load", u, batch>>>>
    <2>1. Head(proc[p]) = <<"lock", u>>
      BY <1>1, LiteralTails
    <2>2. Lock(p)
      BY <2>1, SMTT(30) DEF Statement, StorageFails, At, ListComments, Wipe, UnrelateTo, ListAtts, DropMemo, WriteFile, InsertAtt,
                  Drop, DropFile, DropAttRow, DropAttRows, SetAtts, Deny, Attach, InsertMemo, Relate, ClearRefs, Lookup,
                  AddRow, DropRow, Rebuild, Mention, DeleteUserTx, CheckEmpty, LoadBatch
    <2>3. CASE Arg(p, 2) \in db.users
      <3>1. proc' = [proc EXCEPT ![p] = <<>> \o Tail(proc[p])] /\ writer' = p /\ db' = db
        BY <2>2, <2>3 DEF Lock, Continue
      <3>2. <<>> \o Tail(proc[p]) = <<<<"empty", u>>, <<"load", u, batch>>>>
        BY <1>1, LiteralTails
      <3>3. proc'[p] = <<<<"empty", u>>, <<"load", u, batch>>>>
        BY <3>1, <3>2 DEF StoreTypeOK
      <3>4. Arg(p, 2) = u
        BY <2>1 DEF Arg
      <3> QED
        BY <2>3, <3>1, <3>3, <3>4 DEF ImportTail
    <2>4. CASE ~(Arg(p, 2) \in db.users)
      BY <2>2, <2>4 DEF Lock, Abort, StoreTypeOK
    <2> QED
      BY <2>3, <2>4
  <1>2. CASE proc[p] = <<<<"empty", u>>, <<"load", u, batch>>>> /\ writer = p /\ u \in db.users
    <2>1. Head(proc[p]) = <<"empty", u>>
      BY <1>2, LiteralTails
    <2>2. CheckEmpty(p)
      BY <2>1, SMTT(30) DEF Statement, StorageFails, At, ListComments, Wipe, UnrelateTo, ListAtts, DropMemo, WriteFile, InsertAtt,
                  Drop, DropFile, DropAttRow, DropAttRows, SetAtts, Deny, Attach, InsertMemo, Relate, ClearRefs, Lookup,
                  AddRow, DropRow, Rebuild, Mention, DeleteUserTx, Lock, LoadBatch
    <2>3. CASE \A m \in Memos : db.memo[m] # Arg(p, 2)
      <3>1. proc' = [proc EXCEPT ![p] = <<>> \o Tail(proc[p])] /\ writer' = p /\ db' = db
        BY <1>2, <2>2, <2>3 DEF CheckEmpty, Read, Continue
      <3>2. <<>> \o Tail(proc[p]) = <<<<"load", u, batch>>>>
        BY <1>2, LiteralTails
      <3>3. proc'[p] = <<<<"load", u, batch>>>>
        BY <3>1, <3>2 DEF StoreTypeOK
      <3>4. Arg(p, 2) = u
        BY <2>1 DEF Arg
      <3> QED
        BY <1>2, <2>3, <3>1, <3>3, <3>4 DEF ImportTail
    <2>4. CASE ~(\A m \in Memos : db.memo[m] # Arg(p, 2))
      BY <2>2, <2>4 DEF CheckEmpty, Refuse, Abort, StoreTypeOK
    <2> QED
      BY <2>3, <2>4
  <1>3. CASE proc[p] = <<<<"load", u, batch>>>>
    <2>1. Head(proc[p]) = <<"load", u, batch>>
      BY <1>3, LiteralTails
    <2>2. LoadBatch(p)
      BY <2>1, SMTT(30) DEF Statement, StorageFails, At, ListComments, Wipe, UnrelateTo, ListAtts, DropMemo, WriteFile, InsertAtt,
                  Drop, DropFile, DropAttRow, DropAttRows, SetAtts, Deny, Attach, InsertMemo, Relate, ClearRefs, Lookup,
                  AddRow, DropRow, Rebuild, Mention, DeleteUserTx, Lock, CheckEmpty
    <2>3. proc' = [proc EXCEPT ![p] = <<>> \o Tail(proc[p])]
      BY <2>2 DEF LoadBatch, Continue
    <2>4. <<>> \o Tail(proc[p]) = <<>>
      BY <1>3, LiteralTails
    <2> QED
      BY <2>3, <2>4 DEF StoreTypeOK
  <1> QED
    BY <1>1, <1>2, <1>3 DEF ImportTail

LEMMA ImportStep ==
    ASSUME StoreTypeOK, ImportInv, [StoreNext]_storeVars
    PROVE  ImportInv'
  <1>1. ASSUME NEW p \in Procs, Statement(p) \/ StorageFails(p), NEW q \in Procs
        PROVE  ImportShape(q)'
    <2>1. CASE q # p
      <3>1. proc'[q] = proc[q]
        BY <1>1, <2>1, StatementMoves, PlanMoves DEF Ends, Refuse, Abort, StoreTypeOK
      <3>2. writer = q => db' = db /\ writer' = q
        BY <1>1, <2>1, WriterBlocks
      <3>3. ASSUME NEW u \in Users, NEW batch \in SUBSET Memos, ImportTail(q, u, batch)
            PROVE  ImportTail(q, u, batch)'
        BY <3>1, <3>2, <3>3 DEF ImportTail
      <3>4. ImportShape(q)
        BY DEF ImportInv
      <3> QED
        BY <3>1, <3>3, <3>4 DEF ImportShape
    <2>2. CASE q = p
      <3>1. CASE \E u \in Users, batch \in SUBSET Memos : ImportTail(p, u, batch)
        <4>1. PICK u \in Users, batch \in SUBSET Memos : ImportTail(p, u, batch)
          BY <3>1
        <4>2. ImportTail(p, u, batch)' \/ proc'[p] = <<>>
          BY <1>1, <4>1, ImportMoves
        <4>3. CASE ImportTail(p, u, batch)'
          BY <2>2, <4>3 DEF ImportShape
        <4>4. CASE proc'[p] = <<>>
          BY <2>2, <4>4 DEF ImportShape
        <4> QED
          BY <4>2, <4>3, <4>4
      <3>2. CASE ~\E u \in Users, batch \in SUBSET Memos : ImportTail(p, u, batch)
        <4>1. \A i \in DOMAIN proc[p] : ~ImportOp(proc[p][i])
          BY <3>2 DEF ImportInv, ImportShape, ImportOp
        <4>2. ASSUME NEW k \in DOMAIN proc'[p]
              PROVE  ~ImportOp(proc'[p][k])
          <5>1. CASE Ends(p)
            BY <5>1 DEF Ends, Refuse, Abort, StoreTypeOK
          <5>2. CASE \E more : Replaced(p, more) /\ \A s \in Stmts(more) : Produced(Head(proc[p]), s)
            <6>1. PICK more : Replaced(p, more) /\ \A s \in Stmts(more) : Produced(Head(proc[p]), s)
              BY <5>2
            <6>2. CameFrom(proc[p], more, proc'[p], k)
              BY <6>1, PlanMoves
            <6>3. \A s \in Stmts(more) : ~ImportOp(s)
              BY <6>1, NoImportProduced
            <6>4. PICK s : s = proc'[p][k]
              OBVIOUS
            <6>5. s \in Stmts(more) \/ \E i \in DOMAIN proc[p] : s = proc[p][i]
              BY <6>2, <6>4 DEF CameFrom, Stmts
            <6>6. ~ImportOp(s)
              BY <4>1, <6>3, <6>5 DEF ImportOp
            <6> QED
              BY <6>4, <6>6 DEF ImportOp
          <5> QED
            BY <1>1, <5>1, <5>2, StatementMoves
        <4> QED
          BY <2>2, <4>2 DEF ImportShape, ImportOp
      <3> QED
        BY <3>1, <3>2
    <2> QED
      BY <2>1, <2>2
  <1>2. ASSUME NEW p \in Procs, StatementFails(p), NEW q \in Procs
        PROVE  ImportShape(q)'
    <2>1. db' = db /\ proc' = [proc EXCEPT ![p] = <<>>] /\ writer' = IF writer = p THEN None ELSE writer
      BY <1>2 DEF StatementFails, Abort
    <2>2. CASE q = p
      <3>1. proc'[p] = <<>>
        BY <2>1 DEF StoreTypeOK
      <3> QED
        BY <2>2, <3>1 DEF ImportShape
    <2>3. CASE q # p
      <3>1. proc'[q] = proc[q] /\ (writer = q => writer' = q)
        BY <2>1, <2>3 DEF StoreTypeOK
      <3>2. ASSUME NEW u \in Users, NEW batch \in SUBSET Memos, ImportTail(q, u, batch)
            PROVE  ImportTail(q, u, batch)'
        BY <2>1, <3>1, <3>2 DEF ImportTail
      <3>3. ImportShape(q)
        BY DEF ImportInv
      <3> QED
        BY <3>1, <3>2, <3>3 DEF ImportShape
    <2> QED
      BY <2>2, <2>3
  <1>3. ASSUME NEW p \in Procs, NEW u \in db.users, Request(p, u), NEW q \in Procs
        PROVE  ImportShape(q)'
    <2>1. PICK ids, ops : Begun(p, u, ids, ops)
      BY <1>3, RequestBegins
    <2>2. u \in Users
      BY DEF StoreTypeOK, Tables
    <2>3. proc' = [proc EXCEPT ![p] = ops] /\ db' = db /\ writer' = writer
      BY <2>1 DEF Begun
    <2>4. CASE q # p
      <3>1. proc'[q] = proc[q]
        BY <2>3, <2>4 DEF StoreTypeOK
      <3>2. ASSUME NEW v \in Users, NEW batch \in SUBSET Memos, ImportTail(q, v, batch)
            PROVE  ImportTail(q, v, batch)'
        BY <2>3, <3>1, <3>2 DEF ImportTail
      <3>3. ImportShape(q)
        BY DEF ImportInv
      <3> QED
        BY <3>1, <3>2, <3>3 DEF ImportShape
    <2>5. CASE q = p
      <3>1. proc'[p] = ops
        BY <2>3 DEF StoreTypeOK
      <3>2. CASE \E batch \in SUBSET Memos : ops = <<<<"lock", u>>, <<"empty", u>>, <<"load", u, batch>>>>
        BY <2>2, <2>5, <3>1, <3>2 DEF ImportShape, ImportTail
      <3>3. CASE ~\E batch \in SUBSET Memos : ops = <<<<"lock", u>>, <<"empty", u>>, <<"load", u, batch>>>>
        <4>1. ASSUME NEW k \in DOMAIN ops
              PROVE  ~ImportOp(ops[k])
          <5>1. \/ Plain(ops[k])
                \/ FreshStmt(u, ids, ops, k)
                \/ \E a \in Atts, m \in Memos \cup {None} :
                     ids = {a} /\ ops = <<<<"upload", a>>, <<"attInsert", a, u, m>>>>
            BY <2>1, <3>3, OpeningStatements DEF Begun
          <5>2. CASE Plain(ops[k])
            BY <5>2 DEF Plain, PlainOps, ImportOp
          <5>3. CASE FreshStmt(u, ids, ops, k)
            BY <5>3 DEF FreshStmt, ImportOp
          <5>4. CASE \E a \in Atts, m \in Memos \cup {None} : ops = <<<<"upload", a>>, <<"attInsert", a, u, m>>>>
            BY <5>4 DEF ImportOp
          <5> QED
            BY <5>1, <5>2, <5>3, <5>4
        <4> QED
          BY <2>5, <3>1, <4>1 DEF ImportShape, ImportOp
      <3> QED
        BY <3>2, <3>3
    <2> QED
      BY <2>4, <2>5
  <1>4. ASSUME Crash, NEW q \in Procs
        PROVE  ImportShape(q)'
    <2>1. proc'[q] = <<>>
      BY <1>4 DEF Crash
    <2> QED
      BY <2>1 DEF ImportShape
  <1>5. CASE UNCHANGED storeVars
    BY <1>5 DEF storeVars, ImportInv, ImportShape, ImportTail
  <1> QED
    BY <1>1, <1>2, <1>3, <1>4, <1>5 DEF StoreNext, ImportInv

\* Statements other than the insertion of a memo and the import add no memo.
LEMMA MemosAdded ==
    ASSUME StoreTypeOK, NEW p \in Procs, Statement(p) \/ StorageFails(p), ~InsertMemo(p), ~LoadBatch(p)
    PROVE  \A m \in Memos : db'.memo[m] \in {db.memo[m], None}
  <1>1. CASE DropMemo(p)
    <2>1. db' = [db EXCEPT !.memo[Arg(p, 2)] = None]
      BY <1>1 DEF DropMemo, Write
    <2> QED
      BY <2>1 DEF StoreTypeOK, Tables
  <1>2. CASE DeleteUserTx(p)
    <2>1. PICK tree : db'.memo = [m \in Memos |-> IF m \in tree THEN None ELSE db.memo[m]]
      BY <1>2 DEF DeleteUserTx
    <2> QED
      BY <2>1
  <1>3. CASE \/ Wipe(p) \/ UnrelateTo(p) \/ Relate(p) \/ ClearRefs(p) \/ InsertAtt(p) \/ DropAttRow(p) \/ DropAttRows(p)
             \/ Attach(p) \/ AddRow(p) \/ DropRow(p)
    <2>1. db'.memo = db.memo
      BY <1>3 DEF StoreTypeOK, Tables, Wipe, UnrelateTo, Relate, ClearRefs, InsertAtt, DropAttRow, DropAttRows,
                  Attach, AddRow, DropRow, Write
    <2> QED
      BY <2>1
  <1>4. CASE \/ ListComments(p) \/ ListAtts(p) \/ WriteFile(p) \/ Drop(p) \/ DropFile(p) \/ SetAtts(p) \/ Deny(p) \/ Lookup(p)
             \/ Rebuild(p) \/ Mention(p) \/ Lock(p) \/ CheckEmpty(p) \/ StorageFails(p)
    <2>1. db' = db
      BY <1>4 DEF StorageFails, ListComments, ListAtts, WriteFile, Drop, DropFile, SetAtts, Deny, Lookup,
                  Rebuild, Mention, Notify, Lock, CheckEmpty, Read, Refuse
    <2> QED
      BY <2>1
  <1> QED
    BY <1>1, <1>2, <1>3, <1>4 DEF Statement

Mine(tables, u) == {m \in Memos : tables[m] = u}

LEMMA AtMostOne ==
    ASSUME NEW S, NEW x, S \subseteq {x}
    PROVE  ~(Cardinality(S) > 1)
  <1>1. S = {} \/ S = {x}
    OBVIOUS
  <1>2. Cardinality({}) = 0 /\ Cardinality({x}) = 1
    BY FS_EmptySet, FS_Singleton
  <1>3. Cardinality(S) = 0 \/ Cardinality(S) = 1
    BY <1>1, <1>2
  <1> QED
    BY <1>3

LEMMA ImportFindsNone ==
    ASSUME StoreTypeOK, ImportInv, [StoreNext]_storeVars, NEW u \in Users,
           Cardinality(Mine(db'.memo, u) \ Mine(db.memo, u)) > 1
    PROVE  Mine(db.memo, u) = {}
  <1>1. u # None
    BY StoreAssumption
  <1>2. ASSUME \A m \in Memos : db'.memo[m] \in {db.memo[m], None}
        PROVE  FALSE
    <2>1. Mine(db'.memo, u) \ Mine(db.memo, u) \subseteq {u}
      BY <1>1, <1>2 DEF Mine
    <2> QED
      BY <2>1, AtMostOne
  <1>3. ASSUME NEW p \in Procs, InsertMemo(p)
        PROVE  FALSE
    <2>1. db' = [db EXCEPT !.memo[Arg(p, 2)] = Arg(p, 3)]
      BY <1>3 DEF InsertMemo, Write
    <2>2. Mine(db'.memo, u) \ Mine(db.memo, u) \subseteq {Arg(p, 2)}
      BY <2>1 DEF Mine, StoreTypeOK, Tables
    <2> QED
      BY <2>2, AtMostOne
  <1>4. ASSUME NEW p \in Procs, LoadBatch(p)
        PROVE  Mine(db.memo, u) = {}
    <2>1. PICK h : h = Head(proc[p])
      OBVIOUS
    <2>2. h[1] = "load" /\ proc[p] # <<>> /\ 1 \in DOMAIN proc[p] /\ h = proc[p][1]
      BY <1>4, <2>1, HeadOK DEF LoadBatch, At
    <2>3. PICK v \in Users, batch \in SUBSET Memos : ImportTail(p, v, batch)
      BY <2>2 DEF ImportInv, ImportShape
    <2>4. h = <<"load", v, batch>> /\ \A m \in Memos : db.memo[m] # v
      <3>1. CASE proc[p] = <<<<"lock", v>>, <<"empty", v>>, <<"load", v, batch>>>>
        BY <2>2, <3>1
      <3>2. CASE proc[p] = <<<<"empty", v>>, <<"load", v, batch>>>>
        BY <2>2, <3>2
      <3>3. CASE proc[p] = <<<<"load", v, batch>>>> /\ \A m \in Memos : db.memo[m] # v
        BY <2>2, <3>3
      <3> QED
        BY <2>3, <3>1, <3>2, <3>3 DEF ImportTail
    <2>5. CASE u = v
      BY <2>4, <2>5 DEF Mine
    <2>6. CASE u # v
      <3>1. db' = [db EXCEPT !.memo = [m \in Memos |-> IF m \in h[3] THEN h[2] ELSE db.memo[m]]]
        BY <1>4, <2>1 DEF LoadBatch, Arg
      <3>2. \A m \in Memos : db'.memo[m] \in {db.memo[m], v}
        BY <2>4, <3>1 DEF StoreTypeOK, Tables
      <3>3. Mine(db'.memo, u) \ Mine(db.memo, u) \subseteq {u}
        BY <2>6, <3>2 DEF Mine
      <3> QED
        BY <3>3, AtMostOne
    <2> QED
      BY <2>5, <2>6
  <1>5. ASSUME NEW p \in Procs, Statement(p) \/ StorageFails(p)
        PROVE  Mine(db.memo, u) = {}
    BY <1>2, <1>3, <1>4, <1>5, MemosAdded
  <1>6. ASSUME NEW p \in Procs, StatementFails(p)
        PROVE  FALSE
    BY <1>2, <1>6 DEF StatementFails
  <1>7. ASSUME NEW p \in Procs, NEW v \in db.users, Request(p, v)
        PROVE  FALSE
    BY <1>2, <1>7, RequestBegins DEF Begun
  <1>8. ASSUME Crash
        PROVE  FALSE
    BY <1>2, <1>8 DEF Crash
  <1>9. CASE UNCHANGED storeVars
    BY <1>2, <1>9 DEF storeVars
  <1> QED
    BY <1>5, <1>6, <1>7, <1>8, <1>9 DEF StoreNext

LEMMA ImportInit == StoreInit => ImportInv
  <1> SUFFICES ASSUME StoreInit PROVE ImportInv
    OBVIOUS
  <1>1. \A p \in Procs : proc[p] = <<>>
    BY DEF StoreInit
  <1> QED
    BY <1>1 DEF ImportInv, ImportShape

\* A step that adds several memos to an account finds none there, however
\* requests, failures and crashes interleave with the import.
THEOREM ImportsFindEmptyAccounts == StoreSpec => ImportIntoEmpty
  <1>1. StoreInit => StoreTypeOK /\ ImportInv
    BY TypeInit, ImportInit
  <1>2. StoreTypeOK /\ ImportInv /\ [StoreNext]_storeVars => StoreTypeOK' /\ ImportInv'
    BY TypeStep, ImportStep
  <1>3. StoreTypeOK /\ ImportInv /\ [StoreNext]_storeVars =>
          [\A u \in Users :
             LET mine(tables) == {m \in Memos : tables[m] = u}
             IN Cardinality(mine(db'.memo) \ mine(db.memo)) > 1 => mine(db.memo) = {}]_storeVars
    BY ImportFindsNone DEF Mine
  <1> QED
    BY <1>1, <1>2, <1>3, PTL DEF StoreSpec, ImportIntoEmpty

(***************************************************************************)
(* Attachment rows and stored content.                                     *)
(***************************************************************************)
FileOps == {"upload", "attInsert", "file", "cleanup", "attRow"}
Concerns(s, a) == s[1] \in FileOps /\ s[2] = a

BatchPending(a) == \E p \in Procs : \E i \in DOMAIN proc[p] : proc[p][i][1] = "attRows" /\ a \in proc[p][i][2]

\* An upload is two statements of a request of its own.
UploadTail(p, a, u, m) ==
    \/ proc[p] = <<<<"upload", a>>, <<"attInsert", a, u, m>>>>
    \/ proc[p] = <<<<"attInsert", a, u, m>>>> /\ a \in files

UploadShape(p) ==
    (\E i \in DOMAIN proc[p] : proc[p][i][1] \in {"upload", "attInsert"}) =>
      \E a \in Atts, u \in Users, m \in Memos \cup {None} : UploadTail(p, a, u, m)

Inserts(p, a) == \E i \in DOMAIN proc[p] : Is(proc[p][i], "attInsert", a)

UploadInv ==
    /\ \A p \in Procs : UploadShape(p)
    /\ \A p, q \in Procs, a \in Atts : Inserts(p, a) /\ Inserts(q, a) => p = q

\* Ids and rows: what is uploaded has no row yet and nobody removes it.
FileFacts(a) ==
    /\ Pending("attInsert", a) => a \in used /\ ~AttExists(a)
    /\ Pending("drop", a) \/ Pending("file", a) \/ Pending("cleanup", a) \/ Pending("attRow", a) \/ BatchPending(a) =>
         a \in used /\ ~Pending("attInsert", a)
    /\ Pending("cleanup", a) => ~AttExists(a)
    /\ AttExists(a) => a \in used

\* Content and row: which of the two is removed first, and by whom.
FileStory(a) ==
    \/ a \in cut
    \/ /\ Pending("file", a) => ~AttExists(a) \/ Pending("attRow", a)
       /\ \A p \in Procs : \A i \in DOMAIN proc[p] :
            Is(proc[p][i], "attRow", a) => a \notin files \/ Before(proc[p], i, "file", a)
       /\ AttExists(a) => a \in files \/ Pending("attRow", a)
       /\ a \in files => AttExists(a) \/ Pending("attInsert", a) \/ Pending("file", a) \/ Pending("cleanup", a)

FileInv == UploadInv /\ \A a \in Atts : FileFacts(a) /\ FileStory(a)

\* Content is stored under the id of an attachment.
FilesTyped == files \subseteq Atts

\* A step that changes nothing about an attachment: its row, its content and
\* the statements about it stay, except for statements that remove it if it is
\* there.
Shrinks(a) ==
    /\ \A op \in {"attInsert", "file", "cleanup", "attRow"} : Pending(op, a)' => Pending(op, a)
    /\ Pending("drop", a)' => Pending("drop", a) \/ AttExists(a)
    /\ BatchPending(a)' => BatchPending(a) \/ AttExists(a)

Follows(a) ==
    \A q \in Procs : \A k \in DOMAIN proc'[q] : Is(proc'[q][k], "attRow", a) =>
      \E i \in DOMAIN proc[q] : /\ Is(proc[q][i], "attRow", a)
                                /\ Before(proc[q], i, "file", a) => Before(proc'[q], k, "file", a)

Remains(a) ==
    /\ \A op \in {"attInsert", "file", "cleanup", "attRow"} : Pending(op, a) => Pending(op, a)'
    /\ Follows(a)

SameAtt(a) ==
    /\ AttExists(a)' <=> AttExists(a)
    /\ a \in used => a \in used'
    /\ a \in cut => a \in cut'

LEMMA FactsShrink ==
    ASSUME NEW a, FileFacts(a), Shrinks(a), SameAtt(a)
    PROVE  FileFacts(a)'
  BY DEF FileFacts, Shrinks, SameAtt

LEMMA StoryRemains ==
    ASSUME NEW a, FileStory(a), Shrinks(a), Remains(a), SameAtt(a), a \in files' <=> a \in files
    PROVE  FileStory(a)'
  <1>1. CASE a \in cut
    BY <1>1 DEF SameAtt, FileStory
  <1>2. CASE a \notin cut
    <2>1. \A q \in Procs : \A k \in DOMAIN proc'[q] :
            Is(proc'[q][k], "attRow", a) => a \notin files' \/ Before(proc'[q], k, "file", a)
      BY <1>2 DEF FileStory, Remains, Follows
    <2>2. Pending("file", a)' => ~AttExists(a)' \/ Pending("attRow", a)'
      BY <1>2 DEF FileStory, Remains, Shrinks, SameAtt
    <2>3. AttExists(a)' => a \in files' \/ Pending("attRow", a)'
      BY <1>2 DEF FileStory, Remains, SameAtt
    <2>4. a \in files' => AttExists(a)' \/ Pending("attInsert", a)' \/ Pending("file", a)' \/ Pending("cleanup", a)'
      BY <1>2 DEF FileStory, Remains, SameAtt
    <2> QED
      BY <2>1, <2>2, <2>3, <2>4 DEF FileStory, Before, Is
  <1> QED
    BY <1>1, <1>2

\* Which statements a step may add about an attachment that is left alone.
Harmless(s, a) ==
    /\ ~Concerns(s, a)
    /\ Is(s, "drop", a) => AttExists(a)
    /\ s[1] = "attRows" /\ a \in s[2] => AttExists(a)

LEMMA ReplacedShrinks ==
    ASSUME StoreTypeOK, NEW p \in Procs, NEW more, Replaced(p, more), NEW a,
           \A s \in Stmts(more) : Harmless(s, a)
    PROVE  Shrinks(a)
  <1>1. ASSUME NEW op \in FileOps, Pending(op, a)'
        PROVE  Pending(op, a)
    <2>1. \A s \in Stmts(more) : ~Is(s, op, a)
      BY DEF Harmless, Concerns, Is
    <2> QED
      BY <1>1, <2>1, PendingMoves
  <1>2. ASSUME Pending("drop", a)'
        PROVE  Pending("drop", a) \/ AttExists(a)
    <2>1. CASE \E s \in Stmts(more) : Is(s, "drop", a)
      BY <2>1 DEF Harmless
    <2>2. CASE ~\E s \in Stmts(more) : Is(s, "drop", a)
      BY <1>2, <2>2, PendingMoves
    <2> QED
      BY <2>1, <2>2
  <1>3. ASSUME NEW q \in Procs, NEW k \in DOMAIN proc'[q], proc'[q][k][1] = "attRows", a \in proc'[q][k][2]
        PROVE  BatchPending(a) \/ AttExists(a)
    <2>1. CASE q # p
      BY <1>3, <2>1, PlanMoves DEF BatchPending
    <2>2. CASE q = p
      <3>1. CameFrom(proc[p], more, proc'[p], k)
        BY <2>2, PlanMoves
      <3>2. CASE k \in DOMAIN more /\ proc'[p][k] = more[k]
        <4>1. PICK s : s = more[k]
          OBVIOUS
        <4>2. s \in Stmts(more) /\ s[1] = "attRows" /\ a \in s[2]
          BY <1>3, <2>2, <3>2, <4>1 DEF Stmts
        <4> QED
          BY <4>2 DEF Harmless
      <3>3. CASE \E i \in DOMAIN proc[p] : i >= 2 /\ k = i - 1 + Len(more) /\ proc'[p][k] = proc[p][i]
        BY <1>3, <2>2, <3>3 DEF BatchPending
      <3> QED
        BY <3>1, <3>2, <3>3 DEF CameFrom
    <2> QED
      BY <2>1, <2>2
  <1> QED
    BY <1>1, <1>2, <1>3 DEF Shrinks, FileOps, BatchPending

LEMMA ReplacedFollows ==
    ASSUME StoreTypeOK, NEW p \in Procs, NEW more, Replaced(p, more), NEW a,
           \A s \in Stmts(more) : ~Is(s, "attRow", a), ~Is(Head(proc[p]), "file", a)
    PROVE  Follows(a)
  <1> SUFFICES ASSUME NEW q \in Procs, NEW k \in DOMAIN proc'[q], Is(proc'[q][k], "attRow", a)
               PROVE  \E i \in DOMAIN proc[q] : /\ Is(proc[q][i], "attRow", a)
                                                /\ Before(proc[q], i, "file", a) => Before(proc'[q], k, "file", a)
    BY DEF Follows
  <1>1. CASE q # p
    <2>1. proc'[q] = proc[q]
      BY <1>1, PlanMoves
    <2> QED
      BY <2>1 DEF Before, Is
  <1>2. CASE q = p
    <2>1. CameFrom(proc[p], more, proc'[p], k)
      BY <1>2, PlanMoves
    <2>2. ~(k \in DOMAIN more /\ proc'[p][k] = more[k])
      BY <1>2 DEF Stmts, Is
    <2>3. PICK i \in DOMAIN proc[p] : i >= 2 /\ k = i - 1 + Len(more) /\ proc'[p][k] = proc[p][i]
      BY <2>1, <2>2 DEF CameFrom
    <2>4. Before(proc[p], i, "file", a) => Before(proc'[p], k, "file", a)
      BY <2>3, FrontMoves
    <2>5. Is(proc[p][i], "attRow", a)
      BY <1>2, <2>3 DEF Is
    <2> QED
      BY <1>2, <2>4, <2>5
  <1> QED
    BY <1>1, <1>2

LEMMA ReplacedRemains ==
    ASSUME StoreTypeOK, NEW p \in Procs, NEW more, Replaced(p, more), NEW a,
           \A s \in Stmts(more) : Harmless(s, a), ~Concerns(Head(proc[p]), a)
    PROVE  Remains(a)
  <1>1. PICK h : h = Head(proc[p])
    OBVIOUS
  <1>2. ~Concerns(h, a)
    BY <1>1
  <1>3. \A op \in FileOps : ~Is(h, op, a)
    BY <1>2 DEF Concerns, Is
  <1>4. ASSUME NEW op \in FileOps, Pending(op, a)
        PROVE  Pending(op, a)'
    <2>1. ~Is(Head(proc[p]), op, a)
      BY <1>1, <1>3
    <2> QED
      BY <1>4, <2>1, PendingMoves
  <1>5. Follows(a)
    <2>1. \A s \in Stmts(more) : ~Is(s, "attRow", a)
      BY DEF Harmless, Concerns, Is, FileOps
    <2>2. ~Is(Head(proc[p]), "file", a)
      BY <1>1, <1>3 DEF FileOps
    <2> QED
      BY <2>1, <2>2, ReplacedFollows
  <1> QED
    BY <1>4, <1>5 DEF Remains, FileOps

\* A request that ends: what it leaves undone is recorded.
LEMMA EndedFiles ==
    ASSUME StoreTypeOK, NEW p \in Procs, Abort(p), NEW a
    PROVE  Shrinks(a) /\ (a \in cut' \/ Remains(a)) /\ (a \in cut => a \in cut')
  <1>1. proc' = [proc EXCEPT ![p] = <<>>] /\ cut' = cut \cup Unfinished(p)
    BY DEF Abort
  <1>2. proc'[p] = <<>> /\ \A q \in Procs : q # p => proc'[q] = proc[q]
    BY <1>1 DEF StoreTypeOK
  <1>3. Shrinks(a)
    BY <1>2 DEF Shrinks, Pending, BatchPending
  <1>4. ASSUME a \notin cut'
        PROVE  Remains(a)
    <2>1. \A j \in DOMAIN proc[p] : proc[p][j][1] \in {"attInsert", "file", "cleanup", "attRow"} => proc[p][j][2] # a
      BY <1>1, <1>4 DEF Unfinished
    <2>2. ASSUME NEW op \in {"attInsert", "file", "cleanup", "attRow"}, Pending(op, a)
          PROVE  Pending(op, a)'
      BY <1>2, <2>1, <2>2 DEF Pending
    <2>3. Follows(a)
      BY <1>2 DEF Follows, Before, Is
    <2> QED
      BY <2>2, <2>3 DEF Remains
  <1> QED
    BY <1>1, <1>3, <1>4

LEMMA CrashFiles ==
    ASSUME StoreTypeOK, Crash, NEW a
    PROVE  Shrinks(a) /\ (a \in cut' \/ Remains(a)) /\ (a \in cut => a \in cut')
  <1>1. cut' = cut \cup UNION {Unfinished(p) : p \in Procs}
    BY DEF Crash
  <1>2. \A q \in Procs : proc'[q] = <<>>
    BY DEF Crash
  <1>3. Shrinks(a)
    BY <1>2 DEF Shrinks, Pending, BatchPending
  <1>4. ASSUME a \notin cut'
        PROVE  Remains(a)
    <2>1. \A p \in Procs : \A j \in DOMAIN proc[p] :
            proc[p][j][1] \in {"attInsert", "file", "cleanup", "attRow"} => proc[p][j][2] # a
      BY <1>1, <1>4 DEF Unfinished
    <2>2. ASSUME NEW op \in {"attInsert", "file", "cleanup", "attRow"}, Pending(op, a)
          PROVE  FALSE
      BY <2>1, <2>2 DEF Pending
    <2>3. Follows(a)
      BY <1>2 DEF Follows
    <2> QED
      BY <2>2, <2>3 DEF Remains
  <1> QED
    BY <1>1, <1>3, <1>4

LEMMA CutKeeps ==
    ASSUME NEW a, FileFacts(a), Shrinks(a), SameAtt(a), a \in cut'
    PROVE  FileFacts(a)' /\ FileStory(a)'
  BY FactsShrink DEF FileStory

LEMMA BegunPlans ==
    ASSUME StoreTypeOK, NEW p \in Procs, NEW u, NEW ids, NEW ops, Begun(p, u, ids, ops)
    PROVE  proc[p] = <<>> /\ proc'[p] = ops /\ \A q \in Procs : q # p => proc'[q] = proc[q]
  BY DEF Begun, StoreTypeOK

LEMMA OpeningHarmless ==
    ASSUME NEW u, NEW ids, NEW ops, IsPlan(ops), Opening(u, ids, ops), NEW k \in DOMAIN ops, NEW a \in Atts,
           ~\E m \in Memos \cup {None} : ids = {a} /\ ops = <<<<"upload", a>>, <<"attInsert", a, u, m>>>>
    PROVE  Harmless(ops[k], a)
  <1>1. CASE Plain(ops[k])
    BY <1>1 DEF Plain, PlainOps, Harmless, Concerns, FileOps, Is
  <1>2. CASE FreshStmt(u, ids, ops, k)
    BY <1>2 DEF FreshStmt, Harmless, Concerns, FileOps, Is
  <1>3. ASSUME NEW b \in Atts, NEW m \in Memos \cup {None}, ids = {b}, ops = <<<<"upload", b>>, <<"attInsert", b, u, m>>>>
        PROVE  Harmless(ops[k], a)
    <2>1. b # a
      BY <1>3
    <2> QED
      BY <1>3, <2>1 DEF Harmless, Concerns, FileOps, Is
  <1>4. ASSUME NEW batch \in SUBSET Memos, ops = <<<<"lock", u>>, <<"empty", u>>, <<"load", u, batch>>>>
        PROVE  Harmless(ops[k], a)
    BY <1>4 DEF Harmless, Concerns, FileOps, Is
  <1> QED
    BY <1>1, <1>2, <1>3, <1>4, OpeningStatements

LEMMA BegunFiles ==
    ASSUME StoreTypeOK, NEW p \in Procs, NEW u, NEW ids, NEW ops, Begun(p, u, ids, ops), NEW a \in Atts,
           FileFacts(a), FileStory(a)
    PROVE  FileFacts(a)' /\ FileStory(a)'
  <1>1. proc[p] = <<>> /\ proc'[p] = ops /\ \A q \in Procs : q # p => proc'[q] = proc[q]
    BY BegunPlans
  <1>2. SameAtt(a) /\ files' = files /\ used' = used \cup ids /\ db' = db /\ cut' = cut
    BY DEF Begun, SameAtt, AttExists
  <1>3. CASE \E m \in Memos \cup {None} : ids = {a} /\ ops = <<<<"upload", a>>, <<"attInsert", a, u, m>>>>
    <2>1. PICK m \in Memos \cup {None} : ids = {a} /\ ops = <<<<"upload", a>>, <<"attInsert", a, u, m>>>>
      BY <1>3
    <2>2. a \notin used
      BY <2>1 DEF Begun
    <2>3. /\ ~AttExists(a) /\ ~Pending("drop", a) /\ ~Pending("file", a) /\ ~Pending("cleanup", a)
          /\ ~Pending("attRow", a) /\ ~BatchPending(a)
      BY <2>2 DEF FileFacts
    <2>4. /\ ~Pending("drop", a)' /\ ~Pending("file", a)' /\ ~Pending("cleanup", a)' /\ ~Pending("attRow", a)'
      BY <1>1, <2>1, <2>3 DEF Pending
    <2>5. ~BatchPending(a)'
      BY <1>1, <2>1, <2>3 DEF BatchPending
    <2>6. ~AttExists(a)'
      BY <1>2, <2>3 DEF AttExists
    <2>7. Pending("attInsert", a)'
      BY <1>1, <2>1 DEF Pending
    <2>8. a \in used'
      BY <1>2, <2>1
    <2>9. FileFacts(a)'
      BY <2>4, <2>5, <2>6, <2>8 DEF FileFacts
    <2>10. \A q \in Procs : \A k \in DOMAIN proc'[q] : ~Is(proc'[q][k], "attRow", a)
      BY <2>4 DEF Pending, Is
    <2>11. FileStory(a)'
      BY <2>4, <2>6, <2>7, <2>10 DEF FileStory, Is
    <2> QED
      BY <2>9, <2>11
  <1>4. CASE ~\E m \in Memos \cup {None} : ids = {a} /\ ops = <<<<"upload", a>>, <<"attInsert", a, u, m>>>>
    <2>1. \A k \in DOMAIN ops : Harmless(ops[k], a)
      BY <1>4, OpeningHarmless DEF Begun
    <2>2. \A k \in DOMAIN ops : \A op \in FileOps : ~Is(ops[k], op, a)
      BY <2>1 DEF Harmless, Concerns, Is
    <2>3. ASSUME NEW op \in FileOps
          PROVE  Pending(op, a)' <=> Pending(op, a)
      BY <1>1, <2>2 DEF Pending, Is
    <2>4. Pending("drop", a)' => Pending("drop", a) \/ AttExists(a)
      BY <1>1, <2>1 DEF Pending, Harmless, Is
    <2>5. BatchPending(a)' => BatchPending(a) \/ AttExists(a)
      BY <1>1, <2>1 DEF BatchPending, Harmless
    <2>6. Follows(a)
      BY <1>1, <2>2 DEF Follows, Before, Is, FileOps
    <2>7. Shrinks(a) /\ Remains(a)
      BY <2>3, <2>4, <2>5, <2>6 DEF Shrinks, Remains, FileOps
    <2> QED
      BY <1>2, <2>7, FactsShrink, StoryRemains
  <1> QED
    BY <1>3, <1>4

LEMMA ProducedHarmless ==
    ASSUME NEW h, NEW s, Produced(h, s), NEW a,
           ~Is(h, "drop", a), ~(h[1] = "attRows" /\ a \in h[2]),
           ~(h[1] = "deleteUser" /\ a \in AttsOfUser(h[2], MemoTree(h[2])))
    PROVE  Harmless(s, a)
  <1>1. \A m : a \in AttsOf(m) => AttExists(a)
    BY DEF AttsOf
  <1> QED
    BY <1>1 DEF Produced, Harmless, Concerns, FileOps, Is

\* Which statements change the row of an attachment, and which its content.
RowStmt(h, a) ==
    \/ h[1] \in {"attInsert", "attRow"} /\ h[2] = a
    \/ h[1] = "attRows" /\ a \in h[2]
    \/ h[1] = "deleteUser" /\ a \in AttsOfUser(h[2], MemoTree(h[2]))

LEMMA AttRowsChange ==
    ASSUME StoreTypeOK, NEW p \in Procs, Statement(p) \/ StorageFails(p), NEW a \in Atts, ~RowStmt(Head(proc[p]), a)
    PROVE  AttExists(a)' <=> AttExists(a)
  <1>1. PICK h : h = Head(proc[p])
    OBVIOUS
  <1>2. ~RowStmt(h, a)
    BY <1>1
  <1>3. PICK t \in Tables : t = db
    BY DEF StoreTypeOK
  <1>4. CASE InsertAtt(p)
    <2>1. db' = [t EXCEPT !.att[h[2]] = [creator |-> h[3], memo |-> h[4]]] /\ h[1] = "attInsert"
      BY <1>1, <1>3, <1>4 DEF InsertAtt, Write, Arg, At
    <2> QED
      BY <1>2, <1>3, <2>1 DEF RowStmt, AttExists, Tables
  <1>5. CASE DropAttRow(p)
    <2>1. db' = [t EXCEPT !.att[h[2]] = NoAtt] /\ h[1] = "attRow"
      BY <1>1, <1>3, <1>5 DEF DropAttRow, Write, Arg, At
    <2> QED
      BY <1>2, <1>3, <2>1 DEF RowStmt, AttExists, Tables
  <1>6. CASE DropAttRows(p)
    <2>1. db' = [t EXCEPT !.att = [b \in Atts |-> IF b \in h[2] THEN NoAtt ELSE t.att[b]]] /\ h[1] = "attRows"
      BY <1>1, <1>3, <1>6 DEF DropAttRows, Arg, At
    <2> QED
      BY <1>2, <1>3, <2>1 DEF RowStmt, AttExists, Tables
  <1>7. CASE Attach(p)
    <2>1. db' = t \/ db' = [t EXCEPT !.att[h[2]].memo = h[3]]
      BY <1>1, <1>3, <1>7 DEF Attach, Write, Arg
    <2> QED
      BY <1>3, <2>1 DEF AttExists, Tables, AttRow
  <1>8. CASE DeleteUserTx(p)
    <2>1. PICK S : S = AttsOfUser(h[2], MemoTree(h[2]))
      OBVIOUS
    <2>2. db'.att = [b \in Atts |-> IF b \in S THEN NoAtt ELSE t.att[b]] /\ h[1] = "deleteUser"
      BY <1>1, <1>3, <1>8, <2>1 DEF DeleteUserTx, Arg, At
    <2>3. a \notin S
      BY <1>2, <2>1, <2>2 DEF RowStmt
    <2> QED
      BY <1>3, <2>2, <2>3 DEF AttExists
  <1>9. CASE \/ Wipe(p) \/ UnrelateTo(p) \/ Relate(p) \/ ClearRefs(p) \/ InsertMemo(p) \/ DropMemo(p) \/ LoadBatch(p)
             \/ AddRow(p) \/ DropRow(p)
    <2>1. db'.att = db.att
      BY <1>9 DEF StoreTypeOK, Tables, Wipe, UnrelateTo, Relate, ClearRefs, InsertMemo, DropMemo, LoadBatch,
                  AddRow, DropRow, Write
    <2> QED
      BY <2>1 DEF AttExists
  <1>10. CASE \/ ListComments(p) \/ ListAtts(p) \/ WriteFile(p) \/ Drop(p) \/ DropFile(p) \/ SetAtts(p) \/ Deny(p) \/ Lookup(p)
              \/ Rebuild(p) \/ Mention(p) \/ Lock(p) \/ CheckEmpty(p) \/ StorageFails(p)
    <2>1. db' = db
      BY <1>10 DEF StorageFails, ListComments, ListAtts, WriteFile, Drop, DropFile, SetAtts, Deny, Lookup,
                  Rebuild, Mention, Notify, Lock, CheckEmpty, Read, Refuse
    <2> QED
      BY <2>1 DEF AttExists
  <1> QED
    BY <1>4, <1>5, <1>6, <1>7, <1>8, <1>9, <1>10 DEF Statement

LEMMA ContentChange ==
    ASSUME NEW p \in Procs, Statement(p) \/ StorageFails(p), NEW a, ~Concerns(Head(proc[p]), a)
    PROVE  a \in files' <=> a \in files
  <1>1. CASE WriteFile(p)
    BY <1>1 DEF WriteFile, Arg, At, Concerns, FileOps
  <1>2. CASE DropFile(p)
    BY <1>2 DEF DropFile, Arg, At, Concerns, FileOps
  <1>3. CASE ~WriteFile(p) /\ ~DropFile(p)
    BY <1>3 DEF Statement, StorageFails, ListComments, Wipe, UnrelateTo, ListAtts, DropMemo, InsertAtt,
                  Drop, DropAttRow, DropAttRows, SetAtts, Deny, Attach, InsertMemo, Relate, ClearRefs, Lookup, AddRow,
                  DropRow, Rebuild, Mention, Notify, DeleteUserTx, Lock, CheckEmpty, LoadBatch, Read, Write, Refuse
  <1> QED
    BY <1>1, <1>2, <1>3

LEMMA UsedAndCut ==
    ASSUME NEW p \in Procs, Statement(p) \/ StorageFails(p)
    PROVE  used' = used /\ cut \subseteq cut'
  <1>1. used' = used
    BY DEF Statement, StorageFails, ListComments, Wipe, UnrelateTo, ListAtts, DropMemo, InsertAtt, WriteFile, DropFile,
                  Drop, DropAttRow, DropAttRows, SetAtts, Deny, Attach, InsertMemo, Relate, ClearRefs, Lookup, AddRow,
                  DropRow, Rebuild, Mention, Notify, DeleteUserTx, Lock, CheckEmpty, LoadBatch, Read, Write, Refuse
  <1>2. cut \subseteq cut'
    BY DEF Statement, StorageFails, ListComments, Wipe, UnrelateTo, ListAtts, DropMemo, InsertAtt, WriteFile, DropFile,
                  Drop, DropAttRow, DropAttRows, SetAtts, Deny, Attach, InsertMemo, Relate, ClearRefs, Lookup, AddRow,
                  DropRow, Rebuild, Mention, Notify, DeleteUserTx, Lock, CheckEmpty, LoadBatch, Read, Write, Refuse, Abort
  <1> QED
    BY <1>1, <1>2

LEMMA HeadPending ==
    ASSUME StoreTypeOK, NEW p \in Procs, proc[p] # <<>>, NEW h, h = Head(proc[p])
    PROVE  /\ \A op, x : Is(h, op, x) => Pending(op, x)
           /\ \A a : h[1] = "attRows" /\ a \in h[2] => BatchPending(a)
           /\ 1 \in DOMAIN proc[p] /\ h = proc[p][1]
  <1>1. 1 \in DOMAIN proc[p] /\ h = proc[p][1]
    BY HeadOK
  <1> QED
    BY <1>1 DEF Pending, BatchPending, Is

LEMMA UploadHead ==
    ASSUME StoreTypeOK, UploadInv, NEW p \in Procs, proc[p] # <<>>, NEW h, h = Head(proc[p]),
           h[1] \in {"upload", "attInsert"}
    PROVE  \E u \in Users, m \in Memos \cup {None} :
             /\ h[2] \in Atts
             /\ \/ h[1] = "upload" /\ proc[p] = <<<<"upload", h[2]>>, <<"attInsert", h[2], u, m>>>>
                \/ h = <<"attInsert", h[2], u, m>> /\ proc[p] = <<<<"attInsert", h[2], u, m>>>> /\ h[2] \in files
  <1>1. 1 \in DOMAIN proc[p] /\ h = proc[p][1]
    BY HeadPending
  <1>2. PICK a \in Atts, u \in Users, m \in Memos \cup {None} : UploadTail(p, a, u, m)
    BY <1>1 DEF UploadInv, UploadShape
  <1>3. CASE proc[p] = <<<<"upload", a>>, <<"attInsert", a, u, m>>>>
    <2>1. h = <<"upload", a>>
      BY <1>1, <1>3
    <2> QED
      BY <1>3, <2>1
  <1>4. CASE proc[p] = <<<<"attInsert", a, u, m>>>> /\ a \in files
    <2>1. h = <<"attInsert", a, u, m>>
      BY <1>1, <1>4
    <2> QED
      BY <1>4, <2>1
  <1> QED
    BY <1>2, <1>3, <1>4 DEF UploadTail

LEMMA WriteFileKeeps ==
    ASSUME StoreTypeOK, UploadInv, NEW p \in Procs, WriteFile(p), NEW a \in Atts, a = Arg(p, 2),
           FileFacts(a), FileStory(a)
    PROVE  FileFacts(a)' /\ FileStory(a)'
  <1>1. PICK h : h = Head(proc[p])
    OBVIOUS
  <1>2. h[1] = "upload" /\ h[2] = a /\ proc[p] # <<>>
    BY <1>1 DEF WriteFile, At, Arg
  <1>3. PICK u \in Users, m \in Memos \cup {None} : proc[p] = <<<<"upload", a>>, <<"attInsert", a, u, m>>>>
    BY <1>1, <1>2, UploadHead
  <1>4. proc' = [proc EXCEPT ![p] = <<>> \o Tail(proc[p])] /\ files' = files \cup {a}
    BY DEF WriteFile, Continue
  <1>5. <<>> \o Tail(proc[p]) = <<<<"attInsert", a, u, m>>>>
    BY <1>3, LiteralTails
  <1>6. proc'[p] = <<<<"attInsert", a, u, m>>>> /\ \A q \in Procs : q # p => proc'[q] = proc[q]
    BY <1>4, <1>5 DEF StoreTypeOK
  <1>7. Pending("attInsert", a) /\ Pending("attInsert", a)'
    BY <1>3, <1>6 DEF Pending
  <1>8. /\ ~AttExists(a) /\ a \in used /\ ~Pending("drop", a) /\ ~Pending("file", a) /\ ~Pending("cleanup", a)
        /\ ~Pending("attRow", a) /\ ~BatchPending(a)
    BY <1>7 DEF FileFacts
  <1>9. ~Pending("drop", a)' /\ ~Pending("file", a)' /\ ~Pending("cleanup", a)' /\ ~Pending("attRow", a)'
    BY <1>6, <1>8 DEF Pending
  <1>10. ~BatchPending(a)'
    BY <1>6, <1>8 DEF BatchPending
  <1>11. ~AttExists(a)' /\ a \in used'
    BY <1>8 DEF WriteFile, AttExists
  <1>12. FileFacts(a)'
    BY <1>9, <1>10, <1>11 DEF FileFacts
  <1>13. \A q \in Procs : \A k \in DOMAIN proc'[q] : ~Is(proc'[q][k], "attRow", a)
    BY <1>9 DEF Pending, Is
  <1>14. FileStory(a)'
    BY <1>7, <1>9, <1>11, <1>13 DEF FileStory, Is
  <1> QED
    BY <1>12, <1>14

LEMMA InsertAttKeeps ==
    ASSUME StoreTypeOK, UploadInv, NEW p \in Procs, InsertAtt(p), NEW a \in Atts, a = Arg(p, 2),
           FileFacts(a), FileStory(a)
    PROVE  FileFacts(a)' /\ FileStory(a)'
  <1>1. PICK h : h = Head(proc[p])
    OBVIOUS
  <1>2. h[1] = "attInsert" /\ h[2] = a /\ proc[p] # <<>>
    BY <1>1 DEF InsertAtt, At, Arg
  <1>3. PICK u \in Users, m \in Memos \cup {None} :
          h = <<"attInsert", a, u, m>> /\ proc[p] = <<<<"attInsert", a, u, m>>>> /\ a \in files
    BY <1>1, <1>2, UploadHead
  <1>4. proc' = [proc EXCEPT ![p] = <<>> \o Tail(proc[p])] /\ files' = files /\ used' = used
    BY DEF InsertAtt, Write, Continue
  <1>5. <<>> \o Tail(proc[p]) = <<>>
    BY <1>3, LiteralTails
  <1>6. proc'[p] = <<>> /\ \A q \in Procs : q # p => proc'[q] = proc[q]
    BY <1>4, <1>5 DEF StoreTypeOK
  <1>7. Pending("attInsert", a)
    BY <1>1, <1>2, HeadPending DEF Is
  <1>8. /\ ~AttExists(a) /\ a \in used /\ ~Pending("drop", a) /\ ~Pending("file", a) /\ ~Pending("cleanup", a)
        /\ ~Pending("attRow", a) /\ ~BatchPending(a)
    BY <1>7 DEF FileFacts
  <1>9. ~Pending("drop", a)' /\ ~Pending("file", a)' /\ ~Pending("cleanup", a)' /\ ~Pending("attRow", a)'
    BY <1>6, <1>8 DEF Pending
  <1>10. ~BatchPending(a)'
    BY <1>6, <1>8 DEF BatchPending
  <1>11. ~Pending("attInsert", a)'
    <2>1. Inserts(p, a)
      <3>1. 1 \in DOMAIN proc[p] /\ h = proc[p][1]
        BY <1>1, <1>2, HeadPending
      <3> QED
        BY <1>2, <3>1 DEF Inserts, Is
    <2>2. \A q \in Procs : q # p => ~Inserts(q, a)
      BY <2>1 DEF UploadInv
    <2> QED
      BY <1>6, <2>2 DEF Pending, Inserts, Is
  <1>12. AttExists(a)'
    <2>1. db' = [db EXCEPT !.att[a] = [creator |-> u, memo |-> m]]
      BY <1>1, <1>3 DEF InsertAtt, Write, Arg
    <2>2. PICK t \in Tables : t = db
      BY DEF StoreTypeOK
    <2>3. db'.att[a] = [creator |-> u, memo |-> m]
      BY <2>1, <2>2 DEF Tables
    <2> QED
      BY <2>3, StoreAssumption DEF AttExists
  <1>13. FileFacts(a)'
    BY <1>4, <1>8, <1>9, <1>10, <1>11, <1>12 DEF FileFacts
  <1>14. \A q \in Procs : \A k \in DOMAIN proc'[q] : ~Is(proc'[q][k], "attRow", a)
    BY <1>9 DEF Pending, Is
  <1>15. FileStory(a)'
    BY <1>3, <1>4, <1>9, <1>12, <1>14 DEF FileStory, Is
  <1> QED
    BY <1>13, <1>15

LEMMA SimpleMoves ==
    ASSUME StoreTypeOK, NEW p \in Procs, Simple(p), NEW a
    PROVE  /\ proc[p] # <<>>
           /\ Shrinks(a)
           /\ \A op : Pending(op, a) => Pending(op, a)' \/ Is(Head(proc[p]), op, a)
           /\ ~Is(Head(proc[p]), "file", a) => Follows(a)
  <1>1. PICK more : more = <<>>
    OBVIOUS
  <1>2. Replaced(p, more) /\ Stmts(more) = {}
    BY <1>1, SimplePlan, LiteralPlans
  <1>3. Shrinks(a)
    BY <1>2, ReplacedShrinks
  <1>4. \A op : Pending(op, a) => Pending(op, a)' \/ Is(Head(proc[p]), op, a)
    BY <1>2, PendingMoves
  <1>5. ~Is(Head(proc[p]), "file", a) => Follows(a)
    BY <1>2, ReplacedFollows
  <1> QED
    BY <1>2, <1>3, <1>4, <1>5 DEF Replaced

LEMMA DropFileKeeps ==
    ASSUME StoreTypeOK, NEW p \in Procs, DropFile(p), NEW a \in Atts, a = Arg(p, 2),
           FileFacts(a), FileStory(a)
    PROVE  FileFacts(a)' /\ FileStory(a)'
  <1>1. PICK h : h = Head(proc[p])
    OBVIOUS
  <1>2. h[1] \in {"file", "cleanup"} /\ h[2] = a /\ proc[p] # <<>>
    BY <1>1 DEF DropFile, At, Arg
  <1>3. Simple(p)
    BY DEF Simple
  <1>4. Shrinks(a) /\ (Pending("attRow", a) => Pending("attRow", a)')
    <2>1. \A op : Pending(op, a) => Pending(op, a)' \/ Is(h, op, a)
      BY <1>1, <1>3, SimpleMoves
    <2>2. ~Is(h, "attRow", a)
      BY <1>2 DEF Is
    <2> QED
      BY <1>3, <2>1, <2>2, SimpleMoves
  <1>5. SameAtt(a)
    BY DEF DropFile, SameAtt, AttExists
  <1>6. a \notin files'
    BY DEF DropFile
  <1>7. FileFacts(a)'
    BY <1>4, <1>5, FactsShrink
  <1>8. CASE a \in cut
    BY <1>5, <1>7, <1>8 DEF SameAtt, FileStory
  <1>9. CASE a \notin cut
    <2>1. AttExists(a) => Pending("attRow", a)
      <3>1. CASE h[1] = "file"
        <4>1. Pending("file", a)
          BY <1>1, <1>2, <3>1, HeadPending DEF Is
        <4> QED
          BY <1>9, <4>1 DEF FileStory
      <3>2. CASE h[1] = "cleanup"
        <4>1. Pending("cleanup", a)
          BY <1>1, <1>2, <3>2, HeadPending DEF Is
        <4> QED
          BY <4>1 DEF FileFacts
      <3> QED
        BY <1>2, <3>1, <3>2
    <2>2. AttExists(a)' => Pending("attRow", a)'
      BY <1>4, <1>5, <2>1 DEF SameAtt
    <2>3. FileStory(a)'
      BY <1>6, <2>2 DEF FileStory
    <2> QED
      BY <1>7, <2>3
  <1> QED
    BY <1>8, <1>9

LEMMA DropAttRowKeeps ==
    ASSUME StoreTypeOK, NEW p \in Procs, DropAttRow(p), NEW a \in Atts, a = Arg(p, 2),
           FileFacts(a), FileStory(a)
    PROVE  FileFacts(a)' /\ FileStory(a)'
  <1>1. PICK h : h = Head(proc[p])
    OBVIOUS
  <1>2. h[1] = "attRow" /\ h[2] = a /\ proc[p] # <<>>
    BY <1>1 DEF DropAttRow, At, Arg
  <1>3. Simple(p)
    BY DEF Simple
  <1>4. 1 \in DOMAIN proc[p] /\ h = proc[p][1]
    BY <1>1, <1>2, HeadPending
  <1>5. Shrinks(a) /\ Follows(a)
    <2>1. ~Is(h, "file", a)
      BY <1>2 DEF Is
    <2> QED
      BY <1>1, <1>3, <2>1, SimpleMoves
  <1>6. ~AttExists(a)'
    <2>1. PICK t \in Tables : t = db
      BY DEF StoreTypeOK
    <2>2. db' = [t EXCEPT !.att[a] = NoAtt]
      BY <2>1 DEF DropAttRow, Write
    <2>3. db'.att[a] = NoAtt
      BY <2>1, <2>2 DEF Tables
    <2> QED
      BY <2>3 DEF AttExists, NoAtt
  <1>7. files' = files /\ used' = used /\ cut' = cut
    BY DEF DropAttRow, Write
  <1>8. Pending("attRow", a)
    BY <1>1, <1>2, HeadPending DEF Is
  <1>9. a \in used /\ ~Pending("attInsert", a)
    BY <1>8 DEF FileFacts
  <1>10. FileFacts(a)'
    BY <1>5, <1>6, <1>7, <1>9 DEF FileFacts, Shrinks
  <1>11. CASE a \in cut
    BY <1>7, <1>10, <1>11 DEF FileStory
  <1>12. CASE a \notin cut
    <2>1. a \notin files
      <3>1. ~Before(proc[p], 1, "file", a)
        BY DEF Before
      <3> QED
        BY <1>2, <1>4, <1>12, <3>1 DEF FileStory, Is
    <2>2. FileStory(a)'
      BY <1>6, <1>7, <2>1 DEF FileStory
    <2> QED
      BY <1>10, <2>2
  <1> QED
    BY <1>11, <1>12

LEMMA DropKeeps ==
    ASSUME StoreTypeOK, NEW p \in Procs, Drop(p), NEW a \in Atts, a = Arg(p, 2), AttExists(a),
           FileFacts(a), FileStory(a)
    PROVE  FileFacts(a)' /\ FileStory(a)'
  <1>1. PICK h : h = Head(proc[p])
    OBVIOUS
  <1>2. h[1] = "drop" /\ h[2] = a /\ proc[p] # <<>>
    BY <1>1 DEF Drop, At, Arg
  <1>3. PICK more : more = <<<<"file", a>>, <<"attRow", a>>>> /\ Replaced(p, more)
    <2>1. PICK more : more = <<<<"file", a>>, <<"attRow", a>>>>
      OBVIOUS
    <2>2. IsPlan(more)
      BY <2>1, LiteralPlans
    <2>3. Replaced(p, more)
      BY <1>2, <2>1, <2>2 DEF Drop, Read, Continue, Replaced
    <2> QED
      BY <2>1, <2>3
  <1>4. Stmts(more) = {<<"file", a>>, <<"attRow", a>>}
    BY <1>3, LiteralPlans
  <1>5. db' = db /\ files' = files /\ used' = used /\ cut' = cut
    BY DEF Drop, Read
  <1>6. /\ Pending("file", a)' /\ Pending("attRow", a)'
        /\ \A op \in {"attInsert", "cleanup", "drop"} : Pending(op, a)' => Pending(op, a)
    <2>1. Is(<<"file", a>>, "file", a) /\ Is(<<"attRow", a>>, "attRow", a)
      BY DEF Is
    <2>2. Pending("file", a)' /\ Pending("attRow", a)'
      BY <1>3, <1>4, <2>1, PendingMoves
    <2>3. ASSUME NEW op \in {"attInsert", "cleanup", "drop"}, Pending(op, a)'
          PROVE  Pending(op, a)
      <3>1. ~\E s \in Stmts(more) : Is(s, op, a)
        BY <1>4 DEF Is
      <3> QED
        BY <1>3, <2>3, <3>1, PendingMoves
    <2> QED
      BY <2>2, <2>3
  <1>7. a \in used /\ ~Pending("attInsert", a)
    BY DEF FileFacts
  <1>8. AttExists(a)'
    BY <1>5 DEF AttExists
  <1>9. FileFacts(a)'
    BY <1>5, <1>6, <1>7 DEF FileFacts, AttExists
  <1>10. CASE a \in cut
    BY <1>5, <1>9, <1>10 DEF FileStory
  <1>11. CASE a \notin cut
    <2>1. ASSUME NEW q \in Procs, NEW k \in DOMAIN proc'[q], Is(proc'[q][k], "attRow", a)
          PROVE  a \notin files \/ Before(proc'[q], k, "file", a)
      <3>1. CASE q # p
        <4>1. proc'[q] = proc[q]
          BY <1>3, <3>1, PlanMoves
        <4>2. a \notin files \/ Before(proc[q], k, "file", a)
          BY <1>11, <2>1, <4>1 DEF FileStory, Is
        <4> QED
          BY <4>1, <4>2 DEF Before, Is
      <3>2. CASE q = p
        <4>1. CameFrom(proc[p], more, proc'[p], k)
          BY <1>3, <3>2, PlanMoves
        <4>2. CASE k \in DOMAIN more /\ proc'[p][k] = more[k]
          <5>1. k = 2
            <6>1. DOMAIN more = {1, 2} /\ more[1] = <<"file", a>>
              BY <1>3
            <6> QED
              BY <2>1, <3>2, <4>2, <6>1 DEF Is
          <5>2. 1 \in DOMAIN more /\ more[1] = <<"file", a>>
            BY <1>3
          <5>3. proc'[p][1] = <<"file", a>>
            BY <1>3, <5>2, PlanMoves
          <5> QED
            BY <3>2, <5>1, <5>3 DEF Before, Is
        <4>3. CASE \E i \in DOMAIN proc[p] : i >= 2 /\ k = i - 1 + Len(more) /\ proc'[p][k] = proc[p][i]
          <5>1. PICK i \in DOMAIN proc[p] : i >= 2 /\ k = i - 1 + Len(more) /\ proc'[p][k] = proc[p][i]
            BY <4>3
          <5>2. \E s \in Stmts(more) : Is(s, "file", a)
            BY <1>4 DEF Is
          <5>3. Before(proc'[p], k, "file", a)
            BY <1>3, <5>1, <5>2, FrontMoves
          <5> QED
            BY <3>2, <5>3
        <4> QED
          BY <4>1, <4>2, <4>3 DEF CameFrom
      <3> QED
        BY <3>1, <3>2
    <2>2. FileStory(a)'
      BY <1>5, <1>6, <1>8, <2>1 DEF FileStory, Before, Is
    <2> QED
      BY <1>9, <2>2
  <1> QED
    BY <1>10, <1>11

\* The row goes first: by the list of a batch, or with its owner or memo.
LEMMA RowFirstKeeps ==
    ASSUME StoreTypeOK, NEW p \in Procs, NEW more, Replaced(p, more), NEW a \in Atts, NEW op \in {"file", "cleanup"},
           \A s \in Stmts(more) : s[1] = op, \E s \in Stmts(more) : Is(s, op, a),
           ~Is(Head(proc[p]), "file", a), FileFacts(a), FileStory(a),
           a \in used /\ ~Pending("attInsert", a),
           ~AttExists(a)', files' = files, used' = used, cut' = cut
    PROVE  FileFacts(a)' /\ FileStory(a)'
  <1>1. Pending(op, a)' /\ ~Pending("attInsert", a)'
    <2>1. ~\E s \in Stmts(more) : Is(s, "attInsert", a)
      BY DEF Is
    <2> QED
      BY <2>1, PendingMoves
  <1>2. FileFacts(a)'
    BY <1>1 DEF FileFacts
  <1>3. CASE a \in cut
    BY <1>2, <1>3 DEF FileStory
  <1>4. CASE a \notin cut
    <2>1. \A s \in Stmts(more) : ~Is(s, "attRow", a)
      BY DEF Is
    <2>2. Follows(a)
      BY <2>1, ReplacedFollows
    <2>3. \A q \in Procs : \A k \in DOMAIN proc'[q] :
            Is(proc'[q][k], "attRow", a) => a \notin files \/ Before(proc'[q], k, "file", a)
      BY <1>4, <2>2 DEF FileStory, Follows
    <2>4. Pending("file", a)' \/ Pending("cleanup", a)'
      BY <1>1
    <2>5. FileStory(a)'
      BY <2>3, <2>4 DEF FileStory, Before, Is
    <2> QED
      BY <1>2, <2>5
  <1> QED
    BY <1>3, <1>4

LEMMA DropAttRowsKeeps ==
    ASSUME StoreTypeOK, NEW p \in Procs, DropAttRows(p), NEW a \in Atts, a \in Arg(p, 2),
           FileFacts(a), FileStory(a)
    PROVE  FileFacts(a)' /\ FileStory(a)'
  <1>1. PICK h : h = Head(proc[p])
    OBVIOUS
  <1>2. h[1] = "attRows" /\ a \in h[2] /\ proc[p] # <<>>
    BY <1>1 DEF DropAttRows, At, Arg
  <1>3. PICK more : Stmts(more) = {<<"file", x>> : x \in Arg(p, 2)} /\ Replaced(p, more)
    BY DropAttRowsPlan
  <1>4. a \in used /\ ~Pending("attInsert", a)
    <2>1. BatchPending(a)
      BY <1>1, <1>2, HeadPending
    <2> QED
      BY <2>1 DEF FileFacts
  <1>5. ~AttExists(a)'
    <2>1. db' = [db EXCEPT !.att = [b \in Atts |-> IF b \in Arg(p, 2) THEN NoAtt ELSE db.att[b]]]
      BY DEF DropAttRows
    <2>2. db'.att[a] = NoAtt
      BY <2>1 DEF StoreTypeOK, Tables
    <2> QED
      BY <2>2 DEF AttExists, NoAtt
  <1>6. files' = files /\ used' = used /\ cut' = cut
    BY DEF DropAttRows
  <1>7. ~Is(Head(proc[p]), "file", a)
    BY <1>1, <1>2 DEF Is
  <1>8. PICK op \in {"file", "cleanup"} : op = "file"
    OBVIOUS
  <1>9. \A s \in Stmts(more) : s[1] = op
    BY <1>3, <1>8
  <1>10. \E s \in Stmts(more) : Is(s, op, a)
    <2>1. PICK s : s = <<op, a>>
      OBVIOUS
    <2>2. s \in Stmts(more)
      BY <1>3, <1>8, <2>1
    <2> QED
      BY <2>1, <2>2 DEF Is
  <1> QED
    BY <1>3, <1>4, <1>5, <1>6, <1>7, <1>9, <1>10, RowFirstKeeps

LEMMA DeleteUserKeeps ==
    ASSUME StoreTypeOK, NEW p \in Procs, DeleteUserTx(p), NEW a \in Atts,
           a \in AttsOfUser(Arg(p, 2), MemoTree(Arg(p, 2))), FileFacts(a), FileStory(a)
    PROVE  FileFacts(a)' /\ FileStory(a)'
  <1>1. PICK S : S = AttsOfUser(Arg(p, 2), MemoTree(Arg(p, 2)))
    OBVIOUS
  <1>2. a \in S
    BY <1>1
  <1>3. PICK more : Stmts(more) = {<<"cleanup", x>> : x \in S} /\ Replaced(p, more)
    BY <1>1, DeleteUserPlan
  <1>4. a \in used /\ ~Pending("attInsert", a)
    <2>1. AttExists(a)
      BY DEF AttsOfUser
    <2> QED
      BY <2>1 DEF FileFacts
  <1>5. ~AttExists(a)'
    <2>1. db'.att = [b \in Atts |-> IF b \in S THEN NoAtt ELSE db.att[b]]
      BY <1>1 DEF DeleteUserTx
    <2>2. db'.att[a] = NoAtt
      BY <1>2, <2>1
    <2> QED
      BY <2>2 DEF AttExists, NoAtt
  <1>6. files' = files /\ used' = used /\ cut' = cut
    BY DEF DeleteUserTx
  <1>7. ~Is(Head(proc[p]), "file", a)
    BY DEF Is, DeleteUserTx, At
  <1>8. PICK op \in {"file", "cleanup"} : op = "cleanup"
    OBVIOUS
  <1>9. \A s \in Stmts(more) : s[1] = op
    BY <1>2, <1>3, <1>8
  <1>10. \E s \in Stmts(more) : Is(s, op, a)
    <2>1. PICK s : s = <<op, a>>
      OBVIOUS
    <2>2. s \in Stmts(more)
      BY <1>2, <1>3, <1>8, <2>1
    <2> QED
      BY <2>1, <2>2 DEF Is
  <1> QED
    BY <1>3, <1>4, <1>5, <1>6, <1>7, <1>9, <1>10, RowFirstKeeps

\* An error of the storage: the content may stay.
LEMMA StorageFailsKeeps ==
    ASSUME StoreTypeOK, NEW p \in Procs, StorageFails(p), NEW a \in Atts, a = Arg(p, 2), FileFacts(a)
    PROVE  FileFacts(a)' /\ FileStory(a)'
  <1>1. Simple(p)
    BY DEF Simple
  <1>2. Shrinks(a)
    BY <1>1, SimpleMoves
  <1>3. SameAtt(a) /\ a \in cut'
    BY DEF StorageFails, SameAtt, AttExists
  <1> QED
    BY <1>2, <1>3, CutKeeps

\* Statements that have nothing to do with the attachment.
LEMMA QuietKeeps ==
    ASSUME StoreTypeOK, NEW p \in Procs, Statement(p) \/ StorageFails(p), NEW a \in Atts,
           ~Concerns(Head(proc[p]), a), ~RowStmt(Head(proc[p]), a), ~Is(Head(proc[p]), "drop", a),
           FileFacts(a), FileStory(a)
    PROVE  FileFacts(a)' /\ FileStory(a)'
  <1>1. SameAtt(a)
    <2>1. AttExists(a)' <=> AttExists(a)
      BY AttRowsChange
    <2>2. used' = used /\ cut \subseteq cut'
      BY UsedAndCut
    <2> QED
      BY <2>1, <2>2 DEF SameAtt
  <1>2. a \in files' <=> a \in files
    BY ContentChange
  <1>3. CASE Ends(p)
    <2>1. Shrinks(a) /\ (a \in cut' \/ Remains(a))
      BY <1>3, EndedFiles DEF Ends, Refuse
    <2> QED
      BY <1>1, <1>2, <2>1, CutKeeps, FactsShrink, StoryRemains
  <1>4. CASE \E more : Replaced(p, more) /\ \A s \in Stmts(more) : Produced(Head(proc[p]), s)
    <2>1. PICK more : Replaced(p, more) /\ \A s \in Stmts(more) : Produced(Head(proc[p]), s)
      BY <1>4
    <2>2. PICK h : h = Head(proc[p])
      OBVIOUS
    <2>3. \A s \in Stmts(more) : Harmless(s, a)
      <3>1. ~Is(h, "drop", a) /\ ~RowStmt(h, a) /\ \A s \in Stmts(more) : Produced(h, s)
        BY <2>1, <2>2
      <3> QED
        BY <3>1, ProducedHarmless DEF RowStmt
    <2>4. Shrinks(a) /\ Remains(a)
      BY <2>1, <2>3, ReplacedShrinks, ReplacedRemains
    <2>5. FileFacts(a)'
      BY <1>1, <2>4, FactsShrink
    <2>6. FileStory(a)'
      BY <1>1, <1>2, <2>4, StoryRemains, SMTT(30)
    <2> QED
      BY <2>5, <2>6
  <1> QED
    BY <1>3, <1>4, StatementMoves

\* The head of the plan decides what is executed.
LEMMA HeadDecides ==
    ASSUME NEW p \in Procs, Statement(p) \/ StorageFails(p), NEW h, h = Head(proc[p])
    PROVE  /\ proc[p] # <<>>
           /\ h[1] = "upload" => WriteFile(p)
           /\ h[1] = "attInsert" => InsertAtt(p)
           /\ h[1] \in {"file", "cleanup"} => DropFile(p) \/ StorageFails(p)
           /\ h[1] = "attRow" => DropAttRow(p)
           /\ h[1] = "attRows" => DropAttRows(p)
           /\ h[1] = "deleteUser" => DeleteUserTx(p)
           /\ h[1] = "drop" => Drop(p)
  BY DEF Statement, StorageFails, At, ListComments, Wipe, UnrelateTo, ListAtts, DropMemo, WriteFile, InsertAtt,
         Drop, DropFile, DropAttRow, DropAttRows, SetAtts, Deny, Attach, InsertMemo, Relate, ClearRefs, Lookup,
         AddRow, DropRow, Rebuild, Mention, DeleteUserTx, Lock, CheckEmpty, LoadBatch

LEMMA StatementFiles ==
    ASSUME StoreTypeOK, FileInv, NEW p \in Procs, Statement(p) \/ StorageFails(p), NEW a \in Atts
    PROVE  FileFacts(a)' /\ FileStory(a)'
  <1>1. UploadInv /\ FileFacts(a) /\ FileStory(a)
    BY DEF FileInv
  <1>2. PICK h : h = Head(proc[p])
    OBVIOUS
  <1>3. h[2] = Arg(p, 2)
    BY <1>2 DEF Arg
  <1>4. CASE h[1] = "upload" /\ h[2] = a
    BY <1>1, <1>2, <1>3, <1>4, HeadDecides, WriteFileKeeps
  <1>5. CASE h[1] = "attInsert" /\ h[2] = a
    BY <1>1, <1>2, <1>3, <1>5, HeadDecides, InsertAttKeeps
  <1>6. CASE h[1] \in {"file", "cleanup"} /\ h[2] = a
    <2>1. CASE DropFile(p)
      BY <1>1, <1>3, <1>6, <2>1, DropFileKeeps
    <2>2. CASE StorageFails(p)
      BY <1>1, <1>3, <1>6, <2>2, StorageFailsKeeps
    <2> QED
      BY <1>2, <1>6, <2>1, <2>2, HeadDecides
  <1>7. CASE h[1] = "attRow" /\ h[2] = a
    BY <1>1, <1>2, <1>3, <1>7, HeadDecides, DropAttRowKeeps
  <1>8. CASE h[1] = "attRows" /\ a \in h[2]
    <2>1. a \in Arg(p, 2)
      BY <1>3, <1>8
    <2> QED
      BY <1>1, <1>2, <1>8, <2>1, HeadDecides, DropAttRowsKeeps
  <1>9. CASE h[1] = "deleteUser" /\ a \in AttsOfUser(h[2], MemoTree(h[2]))
    <2>1. a \in AttsOfUser(Arg(p, 2), MemoTree(Arg(p, 2)))
      BY <1>2, <1>9 DEF Arg
    <2> QED
      BY <1>1, <1>2, <1>9, <2>1, HeadDecides, DeleteUserKeeps
  <1>10. CASE h[1] = "drop" /\ h[2] = a
    <2>1. Drop(p)
      BY <1>2, <1>10, HeadDecides
    <2>2. CASE AttExists(a)
      BY <1>1, <1>3, <1>10, <2>1, <2>2, DropKeeps
    <2>3. CASE ~AttExists(a)
      <3>1. Refuse(p)
        BY <1>3, <1>10, <2>1, <2>3 DEF Drop
      <3>2. SameAtt(a) /\ (a \in files' <=> a \in files)
        BY <3>1 DEF Refuse, Abort, SameAtt, AttExists
      <3>3. Shrinks(a) /\ (a \in cut' \/ Remains(a))
        BY <3>1, EndedFiles DEF Refuse
      <3> QED
        BY <1>1, <3>2, <3>3, CutKeeps, FactsShrink, StoryRemains
    <2> QED
      BY <2>2, <2>3
  <1>11. CASE ~Concerns(h, a) /\ ~RowStmt(h, a) /\ ~Is(h, "drop", a)
    <2>1. ~Concerns(Head(proc[p]), a) /\ ~RowStmt(Head(proc[p]), a) /\ ~Is(Head(proc[p]), "drop", a)
      BY <1>2, <1>11
    <2> QED
      BY <1>1, <2>1, QuietKeeps
  <1> QED
    BY <1>4, <1>5, <1>6, <1>7, <1>8, <1>9, <1>10, <1>11 DEF Concerns, FileOps, RowStmt, Is

LEMMA UploadMoves ==
    ASSUME StoreTypeOK, FileInv, NEW p \in Procs, Statement(p) \/ StorageFails(p)
    PROVE  UploadInv'
  <1>1. UploadInv
    BY DEF FileInv
  <1>2. PICK h : h = Head(proc[p])
    OBVIOUS
  <1>3. proc[p] # <<>>
    BY <1>2, HeadDecides
  <1>4. \A q \in Procs : q # p => proc'[q] = proc[q]
    BY StatementMoves, PlanMoves DEF Ends, Refuse, Abort, StoreTypeOK
  <1>5. \/ \A k \in DOMAIN proc'[p] : proc'[p][k][1] \notin {"upload", "attInsert"}
        \/ h[1] = "upload" /\ \E u \in Users, m \in Memos \cup {None} :
             proc'[p] = <<<<"attInsert", h[2], u, m>>>> /\ proc[p] = <<<<"upload", h[2]>>, <<"attInsert", h[2], u, m>>>>
             /\ h[2] \in Atts /\ h[2] \in files'
    <2>1. CASE h[1] = "upload"
      <3>1. WriteFile(p)
        BY <1>2, <2>1, HeadDecides
      <3>2. PICK u \in Users, m \in Memos \cup {None} :
              proc[p] = <<<<"upload", h[2]>>, <<"attInsert", h[2], u, m>>>> /\ h[2] \in Atts
        BY <1>1, <1>2, <1>3, <2>1, UploadHead
      <3>3. proc' = [proc EXCEPT ![p] = <<>> \o Tail(proc[p])] /\ h[2] \in files'
        BY <1>2, <3>1 DEF WriteFile, Continue, Arg
      <3>4. <<>> \o Tail(proc[p]) = <<<<"attInsert", h[2], u, m>>>>
        BY <3>2, LiteralTails
      <3> QED
        BY <2>1, <3>2, <3>3, <3>4 DEF StoreTypeOK
    <2>2. CASE h[1] = "attInsert"
      <3>1. InsertAtt(p)
        BY <1>2, <2>2, HeadDecides
      <3>2. PICK u \in Users, m \in Memos \cup {None} : proc[p] = <<<<"attInsert", h[2], u, m>>>>
        BY <1>1, <1>2, <1>3, <2>2, UploadHead
      <3>3. proc' = [proc EXCEPT ![p] = <<>> \o Tail(proc[p])]
        BY <3>1 DEF InsertAtt, Write, Continue
      <3>4. <<>> \o Tail(proc[p]) = <<>>
        BY <3>2, LiteralTails
      <3> QED
        BY <3>3, <3>4 DEF StoreTypeOK
    <2>3. CASE h[1] \notin {"upload", "attInsert"}
      <3>1. \A i \in DOMAIN proc[p] : proc[p][i][1] \notin {"upload", "attInsert"}
        <4>1. 1 \in DOMAIN proc[p] /\ h = proc[p][1]
          BY <1>2, <1>3, HeadPending
        <4> SUFFICES ASSUME ~\A i \in DOMAIN proc[p] : proc[p][i][1] \notin {"upload", "attInsert"}
                     PROVE  FALSE
          OBVIOUS
        <4>2. PICK a \in Atts, u \in Users, m \in Memos \cup {None} : UploadTail(p, a, u, m)
          BY <1>1 DEF UploadInv, UploadShape
        <4>3. CASE proc[p] = <<<<"upload", a>>, <<"attInsert", a, u, m>>>>
          BY <2>3, <4>1, <4>3
        <4>4. CASE proc[p] = <<<<"attInsert", a, u, m>>>>
          BY <2>3, <4>1, <4>4
        <4> QED
          BY <4>2, <4>3, <4>4 DEF UploadTail
      <3>2. CASE Ends(p)
        BY <3>2 DEF Ends, Refuse, Abort, StoreTypeOK
      <3>3. CASE \E more : Replaced(p, more) /\ \A s \in Stmts(more) : Produced(Head(proc[p]), s)
        <4>1. PICK more : Replaced(p, more) /\ \A s \in Stmts(more) : Produced(h, s)
          BY <1>2, <3>3
        <4>2. \A s \in Stmts(more) : s[1] \notin {"upload", "attInsert"}
          BY <4>1 DEF Produced
        <4>3. \A k \in DOMAIN proc'[p] : CameFrom(proc[p], more, proc'[p], k)
          BY <4>1, PlanMoves
        <4>4. ASSUME NEW k \in DOMAIN proc'[p] PROVE proc'[p][k][1] \notin {"upload", "attInsert"}
          <5>1. PICK s : s = proc'[p][k]
            OBVIOUS
          <5>2. s \in Stmts(more) \/ \E i \in DOMAIN proc[p] : s = proc[p][i]
            BY <4>3, <5>1 DEF CameFrom, Stmts
          <5> QED
            BY <3>1, <4>2, <5>1, <5>2
        <4> QED
          BY <4>4
      <3> QED
        BY <3>2, <3>3, StatementMoves
    <2> QED
      BY <2>1, <2>2, <2>3
  <1>6. ASSUME NEW a \in Atts, NEW u \in Users, NEW m \in Memos \cup {None}, NEW q \in Procs, q # p,
               proc[q] = <<<<"attInsert", a, u, m>>>>, a \in files
        PROVE  a \in files'
    <2>1. Pending("attInsert", a)
      BY <1>6 DEF Pending
    <2>2. ~Pending("file", a) /\ ~Pending("cleanup", a)
      BY <2>1 DEF FileInv, FileFacts
    <2>3. ~Is(h, "file", a) /\ ~Is(h, "cleanup", a)
      BY <1>2, <1>3, <2>2, HeadPending
    <2>4. CASE ~Concerns(h, a)
      BY <1>2, <1>6, <2>4, ContentChange
    <2>5. CASE WriteFile(p)
      BY <1>6, <2>5 DEF WriteFile
    <2>6. CASE InsertAtt(p) \/ DropAttRow(p)
      BY <1>6, <2>6 DEF InsertAtt, DropAttRow, Write
    <2> QED
      BY <1>2, <2>3, <2>4, <2>5, <2>6, HeadDecides DEF Concerns, FileOps, Is
  <1>7. ASSUME NEW q \in Procs
        PROVE  UploadShape(q)'
    <2>1. CASE q = p
      BY <1>5, <2>1 DEF UploadShape, UploadTail
    <2>2. CASE q # p
      <3>1. UploadShape(q)
        BY <1>1 DEF UploadInv
      <3> QED
        BY <1>4, <1>6, <2>2, <3>1 DEF UploadShape, UploadTail
    <2> QED
      BY <2>1, <2>2
  <1>8. ASSUME NEW q \in Procs, NEW a \in Atts, Inserts(q, a)'
        PROVE  Inserts(q, a)
    <2>1. CASE q = p
      BY <1>5, <1>8, <2>1 DEF Inserts, Is
    <2>2. CASE q # p
      BY <1>4, <1>8, <2>2 DEF Inserts, Is
    <2> QED
      BY <2>1, <2>2
  <1> QED
    BY <1>1, <1>7, <1>8 DEF UploadInv

LEMMA EndedUploads ==
    ASSUME StoreTypeOK, UploadInv, files' = files,
           \A q \in Procs : proc'[q] = proc[q] \/ proc'[q] = <<>>
    PROVE  UploadInv'
  <1>1. ASSUME NEW q \in Procs
        PROVE  UploadShape(q)'
    <2>1. UploadShape(q)
      BY DEF UploadInv
    <2>2. CASE proc'[q] = proc[q]
      BY <2>1, <2>2 DEF UploadShape, UploadTail
    <2>3. CASE proc'[q] = <<>>
      BY <2>3 DEF UploadShape
    <2> QED
      BY <2>2, <2>3
  <1>2. ASSUME NEW q \in Procs, NEW a \in Atts, Inserts(q, a)'
        PROVE  Inserts(q, a)
    <2>1. proc'[q] = proc[q]
      BY <1>2 DEF Inserts
    <2> QED
      BY <1>2, <2>1 DEF Inserts, Is
  <1> QED
    BY <1>1, <1>2 DEF UploadInv

LEMMA BegunUploads ==
    ASSUME StoreTypeOK, FileInv, NEW p \in Procs, NEW u \in Users, NEW ids, NEW ops, Begun(p, u, ids, ops)
    PROVE  UploadInv'
  <1>1. proc[p] = <<>> /\ proc'[p] = ops /\ \A q \in Procs : q # p => proc'[q] = proc[q]
    BY BegunPlans
  <1>2. files' = files /\ UploadInv
    BY DEF Begun, FileInv
  <1>3. \/ \A k \in DOMAIN ops : ops[k][1] \notin {"upload", "attInsert"}
        \/ \E a \in Atts, m \in Memos \cup {None} : ids = {a} /\ ops = <<<<"upload", a>>, <<"attInsert", a, u, m>>>>
    <2>1. ASSUME NEW k \in DOMAIN ops,
                 ~\E a \in Atts, m \in Memos \cup {None} : ids = {a} /\ ops = <<<<"upload", a>>, <<"attInsert", a, u, m>>>>
          PROVE  ops[k][1] \notin {"upload", "attInsert"}
      <3>1. CASE Plain(ops[k])
        BY <3>1 DEF Plain, PlainOps
      <3>2. CASE FreshStmt(u, ids, ops, k)
        BY <3>2 DEF FreshStmt
      <3>3. ASSUME NEW batch \in SUBSET Memos, ops = <<<<"lock", u>>, <<"empty", u>>, <<"load", u, batch>>>>
            PROVE  ops[k][1] \notin {"upload", "attInsert"}
        BY <3>3
      <3> QED
        BY <2>1, <3>1, <3>2, <3>3, OpeningStatements DEF Begun
    <2> QED
      BY <2>1
  <1>4. ASSUME NEW q \in Procs
        PROVE  UploadShape(q)'
    <2>1. UploadShape(q)
      BY <1>2 DEF UploadInv
    <2>2. CASE q = p
      BY <1>1, <1>3, <2>2 DEF UploadShape, UploadTail
    <2>3. CASE q # p
      BY <1>1, <1>2, <2>1, <2>3 DEF UploadShape, UploadTail
    <2> QED
      BY <2>2, <2>3
  <1>5. ASSUME NEW q \in Procs, NEW r \in Procs, NEW a \in Atts, Inserts(q, a)', Inserts(r, a)'
        PROVE  q = r
    <2>1. ASSUME NEW s \in Procs, s # p, Inserts(s, a)'
          PROVE  Inserts(s, a) /\ a \in used
      <3>1. Inserts(s, a)
        BY <1>1, <2>1 DEF Inserts, Is
      <3>2. Pending("attInsert", a)
        BY <3>1 DEF Pending, Inserts, Is
      <3> QED
        BY <3>1, <3>2 DEF FileInv, FileFacts
    <2>2. Inserts(p, a)' => ids = {a}
      BY <1>1, <1>3 DEF Inserts, Is
    <2>3. ids \cap used = {}
      BY DEF Begun
    <2> QED
      BY <1>2, <1>5, <2>1, <2>2, <2>3 DEF UploadInv
  <1> QED
    BY <1>4, <1>5 DEF UploadInv

LEMMA FileStep ==
    ASSUME StoreTypeOK, FileInv, [StoreNext]_storeVars
    PROVE  FileInv'
  <1>1. ASSUME NEW p \in Procs, Statement(p) \/ StorageFails(p)
        PROVE  FileInv'
    BY <1>1, StatementFiles, UploadMoves DEF FileInv
  <1>2. ASSUME NEW p \in Procs, StatementFails(p)
        PROVE  FileInv'
    <2>1. Abort(p) /\ UNCHANGED <<db, files, used>>
      BY <1>2 DEF StatementFails
    <2>2. UploadInv'
      <3>1. \A q \in Procs : proc'[q] = proc[q] \/ proc'[q] = <<>>
        BY <2>1 DEF Abort, StoreTypeOK
      <3> QED
        BY <2>1, <3>1, EndedUploads DEF FileInv
    <2>3. ASSUME NEW a \in Atts
          PROVE  FileFacts(a)' /\ FileStory(a)'
      <3>1. SameAtt(a) /\ (a \in files' <=> a \in files)
        BY <2>1 DEF Abort, SameAtt, AttExists
      <3>2. Shrinks(a) /\ (a \in cut' \/ Remains(a))
        BY <2>1, EndedFiles
      <3> QED
        BY <3>1, <3>2, CutKeeps, FactsShrink, StoryRemains DEF FileInv
    <2> QED
      BY <2>2, <2>3 DEF FileInv
  <1>3. ASSUME NEW p \in Procs, NEW u \in db.users, Request(p, u)
        PROVE  FileInv'
    <2>1. PICK ids, ops : Begun(p, u, ids, ops)
      BY <1>3, RequestBegins
    <2>2. u \in Users
      BY DEF StoreTypeOK, Tables
    <2> QED
      BY <2>1, <2>2, BegunFiles, BegunUploads DEF FileInv
  <1>4. ASSUME Crash
        PROVE  FileInv'
    <2>1. UNCHANGED <<db, files, used>> /\ \A q \in Procs : proc'[q] = <<>>
      BY <1>4 DEF Crash
    <2>2. UploadInv'
      BY <2>1, EndedUploads DEF FileInv
    <2>3. ASSUME NEW a \in Atts
          PROVE  FileFacts(a)' /\ FileStory(a)'
      <3>1. Shrinks(a) /\ (a \in cut' \/ Remains(a)) /\ (a \in cut => a \in cut')
        BY <1>4, CrashFiles
      <3>2. SameAtt(a) /\ (a \in files' <=> a \in files)
        BY <2>1, <3>1 DEF SameAtt, AttExists
      <3> QED
        BY <3>1, <3>2, CutKeeps, FactsShrink, StoryRemains DEF FileInv
    <2> QED
      BY <2>2, <2>3 DEF FileInv
  <1>5. CASE UNCHANGED storeVars
    BY <1>5 DEF storeVars, FileInv, UploadInv, UploadShape, UploadTail, Inserts, FileFacts, FileStory, Pending, BatchPending,
                AttExists, Before, Is
  <1> QED
    BY <1>1, <1>2, <1>3, <1>4, <1>5 DEF StoreNext

LEMMA FileInit == StoreInit => FileInv
  <1> SUFFICES ASSUME StoreInit PROVE FileInv
    OBVIOUS
  <1>1. \A p \in Procs : proc[p] = <<>>
    BY DEF StoreInit
  <1>2. \A a \in Atts : (AttExists(a) <=> a \in files) /\ (a \in files => a \in used)
    <2>0. PICK memo \in [Memos -> Users \cup {None}], parent \in [Memos -> Memos \cup {None}],
               att \in [Atts -> {NoAtt} \cup [creator : Users, memo : Memos \cup {None}]] : Holds(memo, parent, att)
      BY DEF StoreInit
    <2>1. db.att = att /\ files = {a \in Atts : att[a] # NoAtt}
      BY <2>0 DEF Holds
    <2>2. \A a \in files : a \in used
      BY <2>0 DEF Holds
    <2>3. \A a \in Atts : att[a].creator # None <=> att[a] # NoAtt
      BY StoreAssumption DEF NoAtt
    <2> QED
      BY <2>1, <2>2, <2>3 DEF AttExists
  <1>3. UploadInv
    BY <1>1 DEF UploadInv, UploadShape, Inserts
  <1>4. \A op, x : ~Pending(op, x)
    BY <1>1 DEF Pending
  <1>5. \A a : ~BatchPending(a)
    BY <1>1 DEF BatchPending
  <1> QED
    BY <1>1, <1>2, <1>3, <1>4, <1>5 DEF FileInv, FileFacts, FileStory

LEMMA FilesTypedStep ==
    ASSUME StoreTypeOK, FilesTyped, [StoreNext]_storeVars
    PROVE  FilesTyped'
  <1>1. ASSUME NEW p \in Procs, Statement(p) \/ StorageFails(p)
        PROVE  FilesTyped'
    <2>1. StmtOK(Head(proc[p]))
      BY <1>1, HeadOK, StatementMoves DEF Replaced, Ends
    <2>2. PICK h : h = Head(proc[p])
      OBVIOUS
    <2>3. CASE WriteFile(p)
      <3>1. h[2] \in Atts
        BY <2>1, <2>2, <2>3 DEF WriteFile, At, StmtOK, AboutAtt
      <3> QED
        BY <2>2, <2>3, <3>1 DEF WriteFile, Arg, FilesTyped
    <2>4. CASE ~WriteFile(p)
      <3>1. \A a : a \in files' => a \in files
        <4> SUFFICES ASSUME NEW a, a \in files' PROVE a \in files
          OBVIOUS
        <4>1. CASE DropFile(p)
          BY <4>1 DEF DropFile
        <4>2. CASE ~DropFile(p)
          BY <1>1, <2>4, <4>2 DEF Statement, StorageFails, ListComments, Wipe, UnrelateTo, ListAtts, DropMemo, InsertAtt,
                  Drop, DropAttRow, DropAttRows, SetAtts, Deny, Attach, InsertMemo, Relate, ClearRefs, Lookup, AddRow,
                  DropRow, Rebuild, Mention, Notify, DeleteUserTx, Lock, CheckEmpty, LoadBatch, Read, Write, Refuse
        <4> QED
          BY <4>1, <4>2
      <3> QED
        BY <3>1 DEF FilesTyped
    <2> QED
      BY <2>3, <2>4
  <1>2. ASSUME NEW p \in Procs, StatementFails(p)
        PROVE  FilesTyped'
    BY <1>2 DEF StatementFails, FilesTyped
  <1>3. ASSUME NEW p \in Procs, NEW u \in db.users, Request(p, u)
        PROVE  FilesTyped'
    BY <1>3, RequestBegins DEF Begun, FilesTyped
  <1>4. ASSUME Crash
        PROVE  FilesTyped'
    BY <1>4 DEF Crash, FilesTyped
  <1>5. CASE UNCHANGED storeVars
    BY <1>5 DEF storeVars, FilesTyped
  <1> QED
    BY <1>1, <1>2, <1>3, <1>4, <1>5 DEF StoreNext

\* Attachment rows and stored content agree, wherever requests interleave,
\* fail or are cut short by a crash.
THEOREM RowsAndContentAgree == StoreSpec => []RowsMatchContent
  <1>1. StoreInit => StoreTypeOK /\ FileInv /\ FilesTyped
    <2>1. StoreInit => FilesTyped
      BY DEF StoreInit, Holds, FilesTyped
    <2> QED
      BY <2>1, TypeInit, FileInit
  <1>2. StoreTypeOK /\ FileInv /\ FilesTyped /\ [StoreNext]_storeVars => StoreTypeOK' /\ FileInv' /\ FilesTyped'
    BY TypeStep, FileStep, FilesTypedStep
  <1>3. StoreTypeOK /\ FileInv /\ FilesTyped => RowsMatchContent
    <2> SUFFICES ASSUME StoreTypeOK, FileInv, FilesTyped PROVE RowsMatchContent
      OBVIOUS
    <2>1. \A a \in Atts : AttExists(a) => a \in files \/ Pending("attRow", a) \/ a \in cut
      BY DEF FileInv, FileStory
    <2>2. ASSUME NEW a \in files
          PROVE  \/ AttExists(a)
                 \/ \E op \in {"attInsert", "file", "cleanup"} : Pending(op, a)
                 \/ a \in cut
      BY DEF FilesTyped, FileInv, FileStory
    <2> QED
      BY <2>1, <2>2 DEF RowsMatchContent
  <1> QED
    BY <1>1, <1>2, <1>3, PTL DEF StoreSpec

(***************************************************************************)
(* Comments.                                                               *)
(***************************************************************************)
\* Requests that write the row of a memo, or tie it to a parent.
Inserter(q, c) == \E i \in DOMAIN proc[q] : Is(proc[q][i], "insert", c)
Commenter(q, c) == \E i \in DOMAIN proc[q] : Is(proc[q][i], "relate", c) /\ proc[q][i][4] = "COMMENT"
Loader(q, c) == \E i \in DOMAIN proc[q] : proc[q][i][1] = "load" /\ c \in proc[q][i][3]

\* A memo is written before it is tied to a parent, by the one request that
\* its id was given to.
ComposeFacts(c) ==
    /\ \A q \in Procs : Inserter(q, c) \/ Loader(q, c) => c \in used /\ parentOf[c] = None
    /\ \A q, r \in Procs : Commenter(q, c) => c \in used /\ ~Loader(r, c) /\ (Inserter(r, c) => q = r)
    /\ parentOf[c] # None => c \in used
    /\ \A m \in Memos : <<c, m, "COMMENT">> \in db.rel => parentOf[c] # None

InsertsFirst(q) == \A i \in DOMAIN proc[q] : proc[q][i][1] = "insert" => i = 1

ComposeInv == (\A c \in Memos : ComposeFacts(c)) /\ \A q \in Procs : InsertsFirst(q)

\* A step after which no other request writes or ties the memo.
NoNewWriter(c) == \A q \in Procs : /\ Inserter(q, c)' => Inserter(q, c)
                                   /\ Commenter(q, c)' => Commenter(q, c)
                                   /\ Loader(q, c)' => Loader(q, c)

LEMMA FactsWithoutWriters ==
    ASSUME NEW c \in Memos, ComposeFacts(c), NoNewWriter(c), used \subseteq used', parentOf'[c] = parentOf[c],
           \A m \in Memos : <<c, m, "COMMENT">> \in db'.rel => <<c, m, "COMMENT">> \in db.rel
    PROVE  ComposeFacts(c)'
  <1>1. \A q \in Procs : Inserter(q, c)' \/ Loader(q, c)' => c \in used' /\ parentOf'[c] = None
    BY DEF ComposeFacts, NoNewWriter
  <1>2. \A q, r \in Procs : Commenter(q, c)' => c \in used' /\ ~Loader(r, c)' /\ (Inserter(r, c)' => q = r)
    BY DEF ComposeFacts, NoNewWriter
  <1>3. parentOf'[c] # None => c \in used'
    BY DEF ComposeFacts
  <1>4. \A m \in Memos : <<c, m, "COMMENT">> \in db'.rel => parentOf'[c] # None
    BY DEF ComposeFacts
  <1> QED
    BY <1>1, <1>2, <1>3, <1>4 DEF ComposeFacts

\* Statements are not followed by new ones that write or tie memos.
LEMMA ReplacedWriters ==
    ASSUME StoreTypeOK, NEW p \in Procs, NEW more, Replaced(p, more),
           \A s \in Stmts(more) : Produced(Head(proc[p]), s), NEW c
    PROVE  NoNewWriter(c) /\ ((\A q \in Procs : InsertsFirst(q)) => \A q \in Procs : InsertsFirst(q)')
  <1>1. PICK h : h = Head(proc[p])
    OBVIOUS
  <1>2. \A s \in Stmts(more) : s[1] \notin {"insert", "load"} /\ (s[1] = "relate" => s[4] = "REFERENCE")
    <2> SUFFICES ASSUME NEW s \in Stmts(more)
                 PROVE  s[1] \notin {"insert", "load"} /\ (s[1] = "relate" => s[4] = "REFERENCE")
      OBVIOUS
    <2>1. Produced(h, s)
      BY <1>1
    <2> QED
      BY <2>1 DEF Produced
  <1>3. ASSUME NEW k \in DOMAIN proc'[p],
               \/ proc'[p][k][1] \in {"insert", "load"}
               \/ proc'[p][k][1] = "relate" /\ proc'[p][k][4] = "COMMENT"
        PROVE  \E i \in DOMAIN proc[p] : i >= 2 /\ proc'[p][k] = proc[p][i]
    <2>1. \/ k \in DOMAIN more /\ proc'[p][k] = more[k]
          \/ \E i \in DOMAIN proc[p] : i >= 2 /\ k = i - 1 + Len(more) /\ proc'[p][k] = proc[p][i]
      BY PlanMoves DEF CameFrom
    <2>2. k \in DOMAIN more /\ proc'[p][k] = more[k] => FALSE
      BY <1>2, <1>3 DEF Stmts
    <2> QED
      BY <1>3, <2>1, <2>2
  <1>4. ASSUME NEW q \in Procs
        PROVE  /\ Inserter(q, c)' => Inserter(q, c)
               /\ Commenter(q, c)' => Commenter(q, c)
               /\ Loader(q, c)' => Loader(q, c)
    <2>1. CASE q # p
      BY <2>1, PlanMoves DEF Inserter, Commenter, Loader
    <2>2. CASE q = p
      <3>1. ASSUME Inserter(p, c)' PROVE Inserter(p, c)
        <4>1. PICK k \in DOMAIN proc'[p] : Is(proc'[p][k], "insert", c)
          BY <3>1 DEF Inserter, Is
        <4>2. PICK i \in DOMAIN proc[p] : proc'[p][k] = proc[p][i]
          BY <1>3, <4>1 DEF Is
        <4> QED
          BY <4>1, <4>2 DEF Inserter, Is
      <3>2. ASSUME Commenter(p, c)' PROVE Commenter(p, c)
        <4>1. PICK k \in DOMAIN proc'[p] : Is(proc'[p][k], "relate", c) /\ proc'[p][k][4] = "COMMENT"
          BY <3>2 DEF Commenter, Is
        <4>2. PICK i \in DOMAIN proc[p] : proc'[p][k] = proc[p][i]
          BY <1>3, <4>1 DEF Is
        <4> QED
          BY <4>1, <4>2 DEF Commenter, Is
      <3>3. ASSUME Loader(p, c)' PROVE Loader(p, c)
        <4>1. PICK k \in DOMAIN proc'[p] : proc'[p][k][1] = "load" /\ c \in proc'[p][k][3]
          BY <3>3 DEF Loader
        <4>2. PICK i \in DOMAIN proc[p] : proc'[p][k] = proc[p][i]
          BY <1>3, <4>1
        <4> QED
          BY <4>1, <4>2 DEF Loader
      <3> QED
        BY <2>2, <3>1, <3>2, <3>3
    <2> QED
      BY <2>1, <2>2
  <1>5. ASSUME \A q \in Procs : InsertsFirst(q), NEW q \in Procs
        PROVE  InsertsFirst(q)'
    <2>1. CASE q # p
      BY <1>5, <2>1, PlanMoves DEF InsertsFirst
    <2>2. CASE q = p
      <3> SUFFICES ASSUME NEW k \in DOMAIN proc'[p], proc'[p][k][1] = "insert" PROVE FALSE
        BY <2>2 DEF InsertsFirst
      <3>1. PICK i \in DOMAIN proc[p] : i >= 2 /\ proc'[p][k] = proc[p][i]
        BY <1>3
      <3>2. i = 1
        BY <1>5, <3>1 DEF InsertsFirst
      <3> QED
        BY <3>1, <3>2
    <2> QED
      BY <2>1, <2>2
  <1> QED
    BY <1>4, <1>5 DEF NoNewWriter

LEMMA EndedWriters ==
    ASSUME \A q \in Procs : proc'[q] = proc[q] \/ proc'[q] = <<>>, NEW c
    PROVE  NoNewWriter(c) /\ ((\A q \in Procs : InsertsFirst(q)) => \A q \in Procs : InsertsFirst(q)')
  <1>1. ASSUME NEW q \in Procs
        PROVE  /\ Inserter(q, c)' => Inserter(q, c)
               /\ Commenter(q, c)' => Commenter(q, c)
               /\ Loader(q, c)' => Loader(q, c)
               /\ InsertsFirst(q) => InsertsFirst(q)'
    <2>1. CASE proc'[q] = proc[q]
      BY <2>1 DEF Inserter, Commenter, Loader, Is, InsertsFirst
    <2>2. CASE proc'[q] = <<>>
      BY <2>2 DEF Inserter, Commenter, Loader, InsertsFirst
    <2> QED
      BY <2>1, <2>2
  <1> QED
    BY <1>1 DEF NoNewWriter

\* Only Relate ties a memo to another.
LEMMA RelationsChange ==
    ASSUME StoreTypeOK, NEW p \in Procs, Statement(p) \/ StorageFails(p)
    PROVE  \/ Relate(p)
           \/ parentOf' = parentOf /\ db'.rel \subseteq db.rel
  <1>1. CASE Wipe(p)
    BY <1>1 DEF Wipe, StoreTypeOK, Tables
  <1>2. CASE UnrelateTo(p)
    BY <1>2 DEF UnrelateTo, Write, NoHistory, StoreTypeOK, Tables
  <1>3. CASE ClearRefs(p)
    BY <1>3 DEF ClearRefs, Write, NoHistory, StoreTypeOK, Tables
  <1>4. CASE DeleteUserTx(p)
    BY <1>4 DEF DeleteUserTx
  <1>5. CASE \/ DropMemo(p) \/ InsertAtt(p) \/ DropAttRow(p) \/ DropAttRows(p) \/ InsertMemo(p) \/ DropRow(p)
             \/ LoadBatch(p)
    <2>1. db'.rel = db.rel /\ parentOf' = parentOf
      BY <1>5 DEF DropMemo, InsertAtt, DropAttRow, DropAttRows, InsertMemo, DropRow, LoadBatch, Write, NoHistory,
                  StoreTypeOK, Tables
    <2> QED
      BY <2>1
  <1>6. CASE AddRow(p) \/ Attach(p)
    <2>1. PICK t \in Tables : t = db
      BY DEF StoreTypeOK
    <2>2. t.rel = db'.rel /\ parentOf' = parentOf
      BY <1>6, <2>1 DEF AddRow, Attach, Write, Tables
    <2> QED
      BY <2>1, <2>2
  <1>7. CASE \/ ListComments(p) \/ ListAtts(p) \/ WriteFile(p) \/ Drop(p) \/ DropFile(p) \/ SetAtts(p) \/ Deny(p)
             \/ Lookup(p) \/ Rebuild(p) \/ Mention(p) \/ Lock(p) \/ CheckEmpty(p) \/ StorageFails(p)
    <2>1. db' = db /\ parentOf' = parentOf
      BY <1>7 DEF StorageFails, ListComments, ListAtts, WriteFile, Drop, DropFile, SetAtts, Deny, Lookup,
                  Rebuild, Mention, Notify, Lock, CheckEmpty, Read, Refuse
    <2> QED
      BY <2>1
  <1> QED
    BY <1>1, <1>2, <1>3, <1>4, <1>5, <1>6, <1>7 DEF Statement

LEMMA RelateEffect ==
    ASSUME StoreTypeOK, NEW p \in Procs, Relate(p), NEW h, h = Head(proc[p])
    PROVE  /\ h[1] = "relate" /\ h[2] \in Memos /\ h[3] \in Memos /\ proc[p] # <<>> /\ CanWrite(p)
           /\ Replaced(p, <<>>)
           /\ db'.rel = db.rel \cup {<<h[2], h[3], h[4]>>} /\ db'.memo = db.memo /\ db'.users = db.users
           /\ used' = used /\ cut' = cut
           /\ late' = late \cup (IF Going(h[2]) \/ Going(h[3]) THEN {<<"rel", <<h[2], h[3], h[4]>>>>} ELSE {})
           /\ parentOf' = IF h[4] = "COMMENT" THEN [parentOf EXCEPT ![h[2]] = h[3]] ELSE parentOf
  <1>1. h[1] = "relate" /\ proc[p] # <<>>
    BY DEF Relate, At
  <1>2. StmtOK(h)
    BY <1>1, HeadOK
  <1>3. h[2] \in Memos /\ h[3] \in Memos
    BY <1>1, <1>2 DEF StmtOK, AboutMemo
  <1>4. PICK t \in Tables : t = db
    BY DEF StoreTypeOK
  <1>5. db' = [t EXCEPT !.rel = t.rel \cup {<<h[2], h[3], h[4]>>}]
    BY <1>4 DEF Relate, Write, Arg
  <1>6. db'.rel = db.rel \cup {<<h[2], h[3], h[4]>>} /\ db'.memo = db.memo /\ db'.users = db.users
    BY <1>4, <1>5 DEF Tables
  <1>7. Replaced(p, <<>>)
    BY SimplePlan DEF Simple
  <1>8. PICK r : r = <<h[2], h[3], h[4]>>
    OBVIOUS
  <1>9. r[1] = h[2] /\ r[2] = h[3] /\ r[3] = h[4]
    BY <1>8
  <1>10. late' = late \cup (IF Going(h[2]) \/ Going(h[3]) THEN {<<"rel", <<h[2], h[3], h[4]>>>>} ELSE {})
    <2>1. late' = late \cup (IF Going(<<h[2], h[3], h[4]>>[1]) \/ Going(<<h[2], h[3], h[4]>>[2])
                               THEN {<<"rel", <<h[2], h[3], h[4]>>>>} ELSE {})
      BY DEF Relate, Arg
    <2>2. Going(<<h[2], h[3], h[4]>>[1]) = Going(h[2]) /\ Going(<<h[2], h[3], h[4]>>[2]) = Going(h[3])
      OBVIOUS
    <2> QED
      BY <2>1, <2>2
  <1>11. parentOf' = IF h[4] = "COMMENT" THEN [parentOf EXCEPT ![h[2]] = h[3]] ELSE parentOf
    BY DEF Relate, Arg
  <1> QED
    BY <1>1, <1>3, <1>6, <1>7, <1>10, <1>11 DEF Relate, Write

LEMMA RelateFacts ==
    ASSUME StoreTypeOK, ComposeInv, NEW p \in Procs, Relate(p), NEW c \in Memos
    PROVE  ComposeFacts(c)'
  <1>1. PICK h : h = Head(proc[p])
    OBVIOUS
  <1>2. /\ h[1] = "relate" /\ h[2] \in Memos /\ h[3] \in Memos
        /\ db'.rel = db.rel \cup {<<h[2], h[3], h[4]>>} /\ used' = used
        /\ parentOf' = IF h[4] = "COMMENT" THEN [parentOf EXCEPT ![h[2]] = h[3]] ELSE parentOf
    BY <1>1, RelateEffect
  <1>3. NoNewWriter(c)
    <2>1. PICK more : more = <<>>
      OBVIOUS
    <2>2. Replaced(p, more) /\ Stmts(more) = {}
      BY <2>1, RelateEffect, LiteralPlans
    <2> QED
      BY <2>2, ReplacedWriters
  <1>4. ComposeFacts(c)
    BY DEF ComposeInv
  <1>5. CASE h[4] = "COMMENT" /\ h[2] = c
    <2>1. 1 \in DOMAIN proc[p] /\ h = proc[p][1]
      BY <1>1, RelateEffect, HeadPending
    <2>2. Commenter(p, c)
      BY <1>2, <1>5, <2>1 DEF Commenter, Is
    <2>3. c \in used /\ \A r \in Procs : ~Loader(r, c) /\ (Inserter(r, c) => p = r)
      BY <1>4, <2>2 DEF ComposeFacts
    <2>4. ~Inserter(p, c)
      <3>1. \A i \in DOMAIN proc[p] : proc[p][i][1] = "insert" => i = 1
        BY DEF ComposeInv, InsertsFirst
      <3> QED
        BY <1>2, <2>1, <3>1 DEF Inserter, Is
    <2>5. \A r \in Procs : ~Inserter(r, c)' /\ ~Loader(r, c)'
      BY <1>3, <2>3, <2>4 DEF NoNewWriter
    <2>6. parentOf'[c] = h[3] /\ h[3] # None
      BY <1>2, <1>5, StoreAssumption DEF StoreTypeOK
    <2>7. c \in used'
      BY <1>2, <2>3
    <2> QED
      BY <2>5, <2>6, <2>7 DEF ComposeFacts
  <1>6. CASE h[4] # "COMMENT" \/ h[2] # c
    <2>1. parentOf'[c] = parentOf[c]
      BY <1>2, <1>6 DEF StoreTypeOK
    <2>2. \A m \in Memos : <<c, m, "COMMENT">> \in db'.rel => <<c, m, "COMMENT">> \in db.rel
      BY <1>2, <1>6
    <2> QED
      BY <1>2, <1>3, <1>4, <2>1, <2>2, FactsWithoutWriters
  <1> QED
    BY <1>5, <1>6

LEMMA BegunWriters ==
    ASSUME StoreTypeOK, ComposeInv, NEW p \in Procs, NEW u, NEW ids, NEW ops, Begun(p, u, ids, ops)
    PROVE  ComposeInv'
  <1>1. proc[p] = <<>> /\ proc'[p] = ops /\ \A q \in Procs : q # p => proc'[q] = proc[q]
    BY BegunPlans
  <1>2. db' = db /\ parentOf' = parentOf /\ used' = used \cup ids /\ ids \cap used = {}
    BY DEF Begun
  <1>3. ASSUME NEW k \in DOMAIN ops
        PROVE  /\ ops[k][1] = "insert" => k = 1 /\ ops[k][2] \in ids
               /\ ops[k][1] = "relate" /\ ops[k][4] = "COMMENT" => ops[k][2] \in ids
               /\ ops[k][1] = "load" => ops[k][3] = ids /\ \A j \in DOMAIN ops : ops[j][1] # "relate"
    <2>1. CASE Plain(ops[k])
      BY <2>1 DEF Plain, PlainOps
    <2>2. CASE FreshStmt(u, ids, ops, k)
      BY <2>2 DEF FreshStmt
    <2>3. ASSUME NEW a \in Atts, NEW m \in Memos \cup {None}, ops = <<<<"upload", a>>, <<"attInsert", a, u, m>>>>
          PROVE  ops[k][1] \notin {"insert", "relate", "load"}
      BY <2>3
    <2>4. ASSUME NEW batch \in SUBSET Memos, ids = batch, ops = <<<<"lock", u>>, <<"empty", u>>, <<"load", u, batch>>>>
          PROVE  /\ ops[k][1] \notin {"insert", "relate"}
                 /\ ops[k][1] = "load" => ops[k][3] = ids
                 /\ \A j \in DOMAIN ops : ops[j][1] # "relate"
      BY <2>4
    <2> QED
      BY <2>1, <2>2, <2>3, <2>4, OpeningStatements DEF Begun
  <1>4. ASSUME NEW q \in Procs
        PROVE  InsertsFirst(q)'
    <2>1. CASE q = p
      BY <1>1, <1>3, <2>1 DEF InsertsFirst
    <2>2. CASE q # p
      BY <1>1, <2>2 DEF InsertsFirst, ComposeInv
    <2> QED
      BY <2>1, <2>2
  <1>5. ASSUME NEW c \in Memos
        PROVE  ComposeFacts(c)'
    <2>1. ComposeFacts(c)
      BY DEF ComposeInv
    <2>2. \A q \in Procs : q # p => /\ Inserter(q, c)' <=> Inserter(q, c)
                                    /\ Commenter(q, c)' <=> Commenter(q, c)
                                    /\ Loader(q, c)' <=> Loader(q, c)
      BY <1>1 DEF Inserter, Commenter, Loader, Is
    <2>3. Inserter(p, c)' \/ Commenter(p, c)' \/ Loader(p, c)' => c \in ids
      BY <1>1, <1>3 DEF Inserter, Commenter, Loader, Is
    <2>4. ~(Commenter(p, c)' /\ Loader(p, c)')
      BY <1>1, <1>3 DEF Commenter, Loader, Is
    <2>5. CASE c \notin ids
      <3>1. NoNewWriter(c)
        BY <2>2, <2>3, <2>5 DEF NoNewWriter
      <3> QED
        BY <1>2, <2>1, <3>1, FactsWithoutWriters
    <2>6. CASE c \in ids
      <3>1. c \notin used /\ c \in used'
        BY <1>2, <2>6
      <3>2. parentOf[c] = None /\ \A q \in Procs : ~Inserter(q, c) /\ ~Commenter(q, c) /\ ~Loader(q, c)
        BY <2>1, <3>1 DEF ComposeFacts
      <3>3. \A q \in Procs : Inserter(q, c)' \/ Commenter(q, c)' \/ Loader(q, c)' => q = p
        BY <2>2, <3>2
      <3> QED
        BY <1>2, <2>1, <2>4, <3>1, <3>2, <3>3 DEF ComposeFacts
    <2> QED
      BY <2>5, <2>6
  <1> QED
    BY <1>4, <1>5 DEF ComposeInv

LEMMA ComposeStep ==
    ASSUME StoreTypeOK, ComposeInv, [StoreNext]_storeVars
    PROVE  ComposeInv'
  <1>1. ASSUME NEW p \in Procs, Statement(p) \/ StorageFails(p)
        PROVE  ComposeInv'
    <2>1. (\A c \in Memos : NoNewWriter(c)) /\ \A q \in Procs : InsertsFirst(q)'
      <3>1. \A q \in Procs : InsertsFirst(q)
        BY DEF ComposeInv
      <3>2. CASE \E more : Replaced(p, more) /\ \A s \in Stmts(more) : Produced(Head(proc[p]), s)
        BY <3>1, <3>2, ReplacedWriters
      <3>3. CASE Ends(p)
        <4>1. \A q \in Procs : proc'[q] = proc[q] \/ proc'[q] = <<>>
          BY <3>3 DEF Ends, Refuse, Abort, StoreTypeOK
        <4> QED
          BY <3>1, <4>1, EndedWriters
      <3> QED
        BY <1>1, <3>2, <3>3, StatementMoves
    <2>2. CASE Relate(p)
      BY <2>1, <2>2, RelateFacts DEF ComposeInv
    <2>3. CASE parentOf' = parentOf /\ db'.rel \subseteq db.rel
      <3>1. used \subseteq used'
        BY <1>1, UsedAndCut
      <3>2. \A c \in Memos : ComposeFacts(c)'
        BY <2>1, <2>3, <3>1, FactsWithoutWriters DEF ComposeInv
      <3> QED
        BY <2>1, <3>2 DEF ComposeInv
    <2> QED
      BY <1>1, <2>2, <2>3, RelationsChange
  <1>2. ASSUME NEW p \in Procs, StatementFails(p)
        PROVE  ComposeInv'
    <2>1. Abort(p) /\ UNCHANGED <<db, used, parentOf>>
      BY <1>2 DEF StatementFails
    <2>2. \A q \in Procs : proc'[q] = proc[q] \/ proc'[q] = <<>>
      BY <2>1 DEF Abort, StoreTypeOK
    <2> QED
      BY <2>1, <2>2, EndedWriters, FactsWithoutWriters DEF ComposeInv
  <1>3. ASSUME NEW p \in Procs, NEW u \in db.users, Request(p, u)
        PROVE  ComposeInv'
    BY <1>3, RequestBegins, BegunWriters
  <1>4. ASSUME Crash
        PROVE  ComposeInv'
    <2>1. UNCHANGED <<db, used, parentOf>> /\ \A q \in Procs : proc'[q] = <<>>
      BY <1>4 DEF Crash
    <2> QED
      BY <2>1, EndedWriters, FactsWithoutWriters DEF ComposeInv
  <1>5. CASE UNCHANGED storeVars
    BY <1>5 DEF storeVars, ComposeInv, ComposeFacts, InsertsFirst, Inserter, Commenter, Loader, Is
  <1> QED
    BY <1>1, <1>2, <1>3, <1>4, <1>5 DEF StoreNext

LEMMA ComposeInit == StoreInit => ComposeInv
  <1> SUFFICES ASSUME StoreInit PROVE ComposeInv
    OBVIOUS
  <1>1. \A p \in Procs : proc[p] = <<>>
    BY DEF StoreInit
  <1>0. PICK memo \in [Memos -> Users \cup {None}], parent \in [Memos -> Memos \cup {None}],
             att \in [Atts -> {NoAtt} \cup [creator : Users, memo : Memos \cup {None}]] : Holds(memo, parent, att)
    BY DEF StoreInit
  <1>2. /\ \A m \in Memos : parent[m] # None => memo[m] # None
        /\ used = {m \in Memos : memo[m] # None} \cup files
        /\ parentOf = parent
    BY <1>0 DEF Holds
  <1>3. \A c \in Memos : parentOf[c] # None => c \in used
    BY <1>2
  <1>4. \A c, m \in Memos : <<c, m, "COMMENT">> \in db.rel => parentOf[c] # None
    <2>1. /\ db.rel = {<<m, parent[m], "COMMENT">> : m \in {n \in Memos : parent[n] # None}}
          /\ parentOf = parent
      BY <1>0 DEF Holds
    <2> QED
      BY <2>1
  <1>5. \A c \in Memos : ComposeFacts(c)
    BY <1>1, <1>3, <1>4 DEF ComposeFacts, Inserter, Commenter, Loader
  <1>6. \A q \in Procs : InsertsFirst(q)
    BY <1>1 DEF InsertsFirst
  <1> QED
    BY <1>5, <1>6 DEF ComposeInv

\* A comment whose tie to its parent may be gone: it was tied while the parent
\* was being deleted, or its own deletion is under way or was cut short.
Excused(c, m) ==
    \/ <<"rel", <<c, m, "COMMENT">>>> \in late
    \/ c \in cut
    \/ ~MemoExists(c)
    \/ Pending("memoRow", c)

\* The deletion of a memo deletes its comments before it unties them.
UntiesLast(c, m) ==
    \A p \in Procs : \A i \in DOMAIN proc[p] :
      proc[p][i][1] \in {"wipe", "unrelateTo"} /\ proc[p][i][2] = m /\ parentOf[m] = None /\ <<c, m, "COMMENT">> \in db.rel =>
        Excused(c, m) \/ Before(proc[p], i, "wipe", c)

Tied(c) ==
    \A m \in Memos : MemoExists(c) /\ parentOf[c] = m =>
      <<c, m, "COMMENT">> \in db.rel \/ Excused(c, m) \/ parentOf[m] # None

CommentInv == \A c \in Memos : Tied(c) /\ \A m \in Memos : UntiesLast(c, m)

LEMMA MemosChange ==
    ASSUME StoreTypeOK, NEW p \in Procs, Statement(p) \/ StorageFails(p), NEW c \in Memos, MemoExists(c)', ~MemoExists(c)
    PROVE  Inserter(p, c) \/ Loader(p, c)
  <1>1. PICK h : h = Head(proc[p])
    OBVIOUS
  <1>2. PICK t \in Tables : t = db
    BY DEF StoreTypeOK
  <1>3. proc[p] # <<>> => 1 \in DOMAIN proc[p] /\ h = proc[p][1]
    BY <1>1, HeadPending
  <1>4. CASE InsertMemo(p)
    <2>1. db' = [t EXCEPT !.memo[h[2]] = h[3]] /\ h[1] = "insert" /\ proc[p] # <<>>
      BY <1>1, <1>2, <1>4 DEF InsertMemo, Write, Arg, At
    <2>2. h[2] = c
      BY <1>2, <2>1 DEF MemoExists, Tables
    <2> QED
      BY <1>3, <2>1, <2>2 DEF Inserter, Is
  <1>5. CASE LoadBatch(p)
    <2>1. db' = [t EXCEPT !.memo = [m \in Memos |-> IF m \in h[3] THEN h[2] ELSE t.memo[m]]] /\ h[1] = "load" /\ proc[p] # <<>>
      BY <1>1, <1>2, <1>5 DEF LoadBatch, Arg, At
    <2>2. c \in h[3]
      BY <1>2, <2>1 DEF MemoExists, Tables
    <2> QED
      BY <1>3, <2>1, <2>2 DEF Loader
  <1>6. CASE DropMemo(p)
    <2>1. db' = [t EXCEPT !.memo[h[2]] = None]
      BY <1>1, <1>2, <1>6 DEF DropMemo, Write, Arg
    <2> QED
      BY <1>2, <2>1 DEF MemoExists, Tables
  <1>7. CASE DeleteUserTx(p)
    <2>1. db'.memo = [m \in Memos |-> IF m \in MemoTree(h[2]) THEN None ELSE t.memo[m]]
      BY <1>1, <1>2, <1>7 DEF DeleteUserTx, Arg
    <2> QED
      BY <1>2, <2>1 DEF MemoExists
  <1>8. CASE \/ Wipe(p) \/ UnrelateTo(p) \/ ClearRefs(p) \/ InsertAtt(p) \/ DropAttRow(p) \/ DropAttRows(p) \/ DropRow(p)
             \/ Relate(p)
    <2>1. db'.memo = db.memo
      BY <1>8 DEF Wipe, UnrelateTo, ClearRefs, InsertAtt, DropAttRow, DropAttRows, DropRow, Relate, Write, StoreTypeOK, Tables
    <2> QED
      BY <2>1 DEF MemoExists
  <1>9. CASE AddRow(p) \/ Attach(p)
    <2>1. t.memo = db'.memo
      BY <1>2, <1>9 DEF AddRow, Attach, Write, Tables
    <2> QED
      BY <1>2, <2>1 DEF MemoExists
  <1>10. CASE \/ ListComments(p) \/ ListAtts(p) \/ WriteFile(p) \/ Drop(p) \/ DropFile(p) \/ SetAtts(p) \/ Deny(p)
              \/ Lookup(p) \/ Rebuild(p) \/ Mention(p) \/ Lock(p) \/ CheckEmpty(p) \/ StorageFails(p)
    <2>1. db' = db
      BY <1>10 DEF StorageFails, ListComments, ListAtts, WriteFile, Drop, DropFile, SetAtts, Deny, Lookup,
                  Rebuild, Mention, Notify, Lock, CheckEmpty, Read, Refuse
    <2> QED
      BY <2>1 DEF MemoExists
  <1> QED
    BY <1>4, <1>5, <1>6, <1>7, <1>8, <1>9, <1>10 DEF Statement

\* The comments of a memo in the tree of a user are in the tree.
LEMMA TreeIsClosed ==
    ASSUME NEW u, NEW m \in MemoTree(u), NEW c \in Memos, c \in CommentsOf(m), MemoExists(c)
    PROVE  c \in MemoTree(u)
  BY DEF MemoTree

LEMMA RelationsLost ==
    ASSUME StoreTypeOK, NEW p \in Procs, Statement(p) \/ StorageFails(p), NEW c \in Memos, NEW m \in Memos,
           <<c, m, "COMMENT">> \in db.rel, <<c, m, "COMMENT">> \notin db'.rel
    PROVE  \/ Wipe(p) /\ Is(Head(proc[p]), "wipe", c)
           \/ UnrelateTo(p) /\ Is(Head(proc[p]), "unrelateTo", m)
           \/ ~MemoExists(c) \/ ~MemoExists(c)'
  <1>1. PICK h : h = Head(proc[p])
    OBVIOUS
  <1>2. PICK t \in Tables : t = db
    BY DEF StoreTypeOK
  <1>3. PICK r \in t.rel : r = <<c, m, "COMMENT">> /\ r[1] = c /\ r[2] = m /\ r[3] = "COMMENT" /\ r \notin db'.rel
    BY <1>2
  <1>4. CASE Wipe(p)
    <2>1. db' = [t EXCEPT !.rel = {x \in t.rel : x[1] # h[2]}] /\ h[1] = "wipe"
      BY <1>1, <1>2, <1>4 DEF Wipe, Arg, At
    <2>2. h[2] = c
      BY <1>3, <2>1 DEF Tables
    <2> QED
      BY <1>1, <1>4, <2>1, <2>2 DEF Is
  <1>5. CASE UnrelateTo(p)
    <2>1. db' = [t EXCEPT !.rel = {x \in t.rel : x[2] # h[2]}] /\ h[1] = "unrelateTo"
      BY <1>1, <1>2, <1>5 DEF UnrelateTo, Write, Arg, At
    <2>2. h[2] = m
      BY <1>3, <2>1 DEF Tables
    <2> QED
      BY <1>1, <1>5, <2>1, <2>2 DEF Is
  <1>6. CASE ClearRefs(p)
    <2>1. db' = [t EXCEPT !.rel = {x \in t.rel : x[1] # h[2] \/ x[3] # "REFERENCE"}]
      BY <1>1, <1>2, <1>6 DEF ClearRefs, Write, Arg
    <2> QED
      BY <1>3, <2>1 DEF Tables
  <1>7. CASE DeleteUserTx(p)
    <2>1. PICK tree : tree = MemoTree(h[2])
      OBVIOUS
    <2>2. /\ db'.rel = {x \in t.rel : x[1] \notin tree /\ x[2] \notin tree}
          /\ db'.memo = [x \in Memos |-> IF x \in tree THEN None ELSE t.memo[x]]
      BY <1>1, <1>2, <1>7, <2>1 DEF DeleteUserTx, Arg
    <2>3. c \in tree \/ m \in tree
      BY <1>3, <2>2
    <2>4. c \in CommentsOf(m)
      BY <1>2, <1>3 DEF CommentsOf
    <2>5. MemoExists(c) => c \in tree
      BY <2>1, <2>3, <2>4, TreeIsClosed
    <2> QED
      BY <2>2, <2>5 DEF MemoExists
  <1>8. CASE Relate(p)
    <2>1. db.rel \subseteq db'.rel
      BY <1>1, <1>8, RelateEffect
    <2> QED
      BY <2>1
  <1>9. CASE \/ DropMemo(p) \/ InsertAtt(p) \/ DropAttRow(p) \/ DropAttRows(p) \/ InsertMemo(p) \/ DropRow(p)
             \/ LoadBatch(p)
    <2>1. db'.rel = db.rel
      BY <1>9 DEF DropMemo, InsertAtt, DropAttRow, DropAttRows, InsertMemo, DropRow, LoadBatch, Write,
                  StoreTypeOK, Tables
    <2> QED
      BY <2>1
  <1>10. CASE AddRow(p) \/ Attach(p)
    <2>1. t.rel = db'.rel
      BY <1>2, <1>10 DEF AddRow, Attach, Write, Tables
    <2> QED
      BY <1>2, <2>1
  <1>11. CASE \/ ListComments(p) \/ ListAtts(p) \/ WriteFile(p) \/ Drop(p) \/ DropFile(p) \/ SetAtts(p) \/ Deny(p)
              \/ Lookup(p) \/ Rebuild(p) \/ Mention(p) \/ Lock(p) \/ CheckEmpty(p) \/ StorageFails(p)
    <2>1. db' = db
      BY <1>11 DEF StorageFails, ListComments, ListAtts, WriteFile, Drop, DropFile, SetAtts, Deny, Lookup,
                  Rebuild, Mention, Notify, Lock, CheckEmpty, Read, Refuse
    <2> QED
      BY <2>1
  <1> QED
    BY <1>4, <1>5, <1>6, <1>7, <1>8, <1>9, <1>10, <1>11 DEF Statement

LEMMA LateGrows ==
    ASSUME NEW p \in Procs, Statement(p) \/ StorageFails(p)
    PROVE  late \subseteq late'
  <1>1. CASE InsertAtt(p) \/ Attach(p) \/ InsertMemo(p) \/ Relate(p) \/ AddRow(p)
    BY <1>1 DEF InsertAtt, Attach, InsertMemo, Relate, AddRow
  <1>2. CASE \/ UnrelateTo(p) \/ DropMemo(p) \/ DropAttRow(p) \/ ClearRefs(p) \/ DropRow(p)
    BY <1>2 DEF UnrelateTo, DropMemo, DropAttRow, ClearRefs, DropRow, NoHistory
  <1>3. CASE \/ ListComments(p) \/ Wipe(p) \/ ListAtts(p) \/ WriteFile(p) \/ Drop(p) \/ DropFile(p) \/ DropAttRows(p)
             \/ SetAtts(p) \/ Deny(p) \/ Lookup(p) \/ Rebuild(p) \/ Mention(p) \/ DeleteUserTx(p) \/ Lock(p)
             \/ CheckEmpty(p) \/ LoadBatch(p) \/ StorageFails(p)
    <2>1. late' = late
      BY <1>3 DEF ListComments, Wipe, ListAtts, WriteFile, Drop, DropFile, DropAttRows, SetAtts, Deny, Lookup, Rebuild,
                  Mention, Notify, DeleteUserTx, Lock, CheckEmpty, LoadBatch, StorageFails, Read, Refuse
    <2> QED
      BY <2>1
  <1> QED
    BY <1>1, <1>2, <1>3 DEF Statement

\* A removal that a request gives up is recorded.
LEMMA EndedRemoval ==
    ASSUME StoreTypeOK, NEW p \in Procs, Abort(p), NEW op \in {"unrelateTo", "listAtts", "memoRow", "attRow"}, NEW c, Pending(op, c)
    PROVE  Pending(op, c)' \/ c \in cut'
  <1>1. PICK q \in Procs : \E i \in DOMAIN proc[q] : proc[q][i][1] = op /\ proc[q][i][2] = c
    BY DEF Pending
  <1>2. CASE q = p
    BY <1>1, <1>2 DEF Abort, Unfinished
  <1>3. CASE q # p
    <2>1. proc'[q] = proc[q]
      BY <1>3 DEF Abort, StoreTypeOK
    <2> QED
      BY <1>1, <2>1 DEF Pending
  <1> QED
    BY <1>2, <1>3

LEMMA CrashedRemoval ==
    ASSUME Crash, NEW op \in {"unrelateTo", "listAtts", "memoRow", "attRow"}, NEW c, Pending(op, c)
    PROVE  c \in cut'
  <1>1. PICK q \in Procs : \E i \in DOMAIN proc[q] : proc[q][i][1] = op /\ proc[q][i][2] = c
    BY DEF Pending
  <1>2. c \in Unfinished(q)
    BY <1>1, SMTT(30) DEF Unfinished
  <1> QED
    BY <1>2 DEF Crash

LEMMA RemovalHead ==
    ASSUME NEW p \in Procs, Statement(p) \/ StorageFails(p), NEW h, h = Head(proc[p])
    PROVE  /\ h[1] = "comments" => ListComments(p)
           /\ h[1] = "wipe" => Wipe(p)
           /\ h[1] = "unrelateTo" => UnrelateTo(p)
           /\ h[1] = "listAtts" => ListAtts(p)
           /\ h[1] = "memoRow" => DropMemo(p)
  BY DEF Statement, StorageFails, At, ListComments, Wipe, UnrelateTo, ListAtts, DropMemo, WriteFile, InsertAtt,
         Drop, DropFile, DropAttRow, DropAttRows, SetAtts, Deny, Attach, InsertMemo, Relate, ClearRefs, Lookup,
         AddRow, DropRow, Rebuild, Mention, DeleteUserTx, Lock, CheckEmpty, LoadBatch

LEMMA DropMemoEffect ==
    ASSUME StoreTypeOK, NEW p \in Procs, DropMemo(p), NEW h, h = Head(proc[p])
    PROVE  /\ h[1] = "memoRow" /\ h[2] \in Memos
           /\ db' = [db EXCEPT !.memo = [m \in Memos |-> IF m = h[2] THEN None ELSE db.memo[m]]]
  <1>1. h[1] = "memoRow" /\ proc[p] # <<>>
    BY DEF DropMemo, At
  <1>2. h[2] \in Memos
    BY <1>1, HeadOK DEF StmtOK, AboutMemo
  <1>3. PICK t \in Tables : t = db
    BY DEF StoreTypeOK
  <1>4. db' = [t EXCEPT !.memo[h[2]] = None]
    BY <1>3 DEF DropMemo, Write, Arg
  <1>5. t.memo \in [Memos -> Users \cup {None}]
    BY DEF Tables
  <1>6. [t.memo EXCEPT ![h[2]] = None] = [m \in Memos |-> IF m = h[2] THEN None ELSE t.memo[m]]
    BY <1>5
  <1>7. db' = [t EXCEPT !.memo = [m \in Memos |-> IF m = h[2] THEN None ELSE t.memo[m]]]
    BY <1>4, <1>6
  <1> QED
    BY <1>1, <1>2, <1>3, <1>7

LEMMA ExcusedStays ==
    ASSUME StoreTypeOK, NEW p \in Procs, Statement(p) \/ StorageFails(p), NEW c \in Memos, NEW m,
           ComposeFacts(c), parentOf[c] # None, Excused(c, m)
    PROVE  Excused(c, m)'
  <1>1. late \subseteq late' /\ cut \subseteq cut'
    BY LateGrows, UsedAndCut
  <1>2. ASSUME ~MemoExists(c)
        PROVE  ~MemoExists(c)'
    BY <1>2, MemosChange DEF ComposeFacts
  <1>3. ASSUME Pending("memoRow", c)
        PROVE  Pending("memoRow", c)' \/ c \in cut' \/ ~MemoExists(c)'
    <2>1. CASE Ends(p)
      BY <1>3, <2>1, EndedRemoval DEF Ends, Refuse
    <2>2. CASE \E more : Replaced(p, more) /\ \A s \in Stmts(more) : Produced(Head(proc[p]), s)
      <3>1. Pending("memoRow", c)' \/ Is(Head(proc[p]), "memoRow", c)
        BY <1>3, <2>2, PendingMoves
      <3>2. PICK h : h = Head(proc[p])
        OBVIOUS
      <3>3. CASE Is(h, "memoRow", c)
        <4>1. DropMemo(p) /\ h[2] = c
          BY <3>2, <3>3, RemovalHead DEF Is
        <4>2. db' = [db EXCEPT !.memo = [x \in Memos |-> IF x = c THEN None ELSE db.memo[x]]]
          BY <3>2, <4>1, DropMemoEffect
        <4> QED
          BY <4>2 DEF MemoExists, StoreTypeOK, Tables
      <3> QED
        BY <3>1, <3>2, <3>3
    <2> QED
      BY <2>1, <2>2, StatementMoves
  <1> QED
    BY <1>1, <1>2, <1>3 DEF Excused

LEMMA TiedStays ==
    ASSUME StoreTypeOK, NEW p \in Procs, Statement(p) \/ StorageFails(p), NEW c \in Memos,
           ComposeFacts(c), Tied(c), \A m \in Memos : UntiesLast(c, m)
    PROVE  Tied(c)'
  <1> SUFFICES ASSUME NEW m \in Memos, MemoExists(c)', parentOf'[c] = m
               PROVE  <<c, m, "COMMENT">> \in db'.rel \/ Excused(c, m)' \/ parentOf'[m] # None
    BY DEF Tied
  <1>1. PICK h : h = Head(proc[p])
    OBVIOUS
  <1>2. CASE Relate(p) /\ h[4] = "COMMENT" /\ h[2] = c
    BY <1>1, <1>2, RelateEffect DEF StoreTypeOK
  <1>3. CASE ~(Relate(p) /\ h[4] = "COMMENT" /\ h[2] = c)
    <2>1. /\ parentOf'[c] = parentOf[c]
          /\ \A x \in Memos : parentOf[x] # None => parentOf'[x] # None
      <3>1. CASE Relate(p)
        <4>1. /\ h[2] \in Memos /\ h[3] \in Memos
              /\ parentOf' = IF h[4] = "COMMENT" THEN [parentOf EXCEPT ![h[2]] = h[3]] ELSE parentOf
          BY <1>1, <3>1, RelateEffect
        <4> QED
          BY <1>3, <3>1, <4>1, StoreAssumption DEF StoreTypeOK
      <3>2. CASE parentOf' = parentOf
        BY <3>2
      <3> QED
        BY <3>1, <3>2, RelationsChange
    <2>2. m = parentOf[c] /\ parentOf[c] # None
      BY <2>1, StoreAssumption
    <2>3. MemoExists(c)
      BY <2>2, MemosChange DEF ComposeFacts
    <2>4. CASE Excused(c, m)
      BY <2>1, <2>2, <2>4, ExcusedStays
    <2>5. CASE parentOf[m] # None
      BY <2>1, <2>2, <2>5
    <2>6. CASE <<c, m, "COMMENT">> \in db.rel /\ <<c, m, "COMMENT">> \notin db'.rel /\ ~Excused(c, m) /\ parentOf[m] = None
      <3>1. CASE Wipe(p) /\ Is(h, "wipe", c)
        <4>1. PICK more : /\ more = <<<<"unrelateTo", Arg(p, 2)>>, <<"listAtts", Arg(p, 2)>>, <<"memoRow", Arg(p, 2)>>>>
                          /\ Replaced(p, more)
          BY <3>1, WipePlan
        <4>2. Arg(p, 2) = c
          BY <1>1, <3>1 DEF Arg, Is
        <4>3. <<"memoRow", c>> \in Stmts(more) /\ Is(<<"memoRow", c>>, "memoRow", c)
          BY <4>1, <4>2, LiteralPlans DEF Is
        <4>4. Pending("memoRow", c)'
          BY <4>1, <4>3, PendingMoves
        <4> QED
          BY <2>1, <2>2, <4>4 DEF Excused
      <3>2. CASE UnrelateTo(p) /\ Is(h, "unrelateTo", m)
        <4>1. 1 \in DOMAIN proc[p] /\ h = proc[p][1]
          BY <1>1, <3>2, HeadPending DEF UnrelateTo, At
        <4>2. Before(proc[p], 1, "wipe", c)
          BY <2>6, <3>2, <4>1 DEF UntiesLast, Is
        <4>3. \A j : ~(j \in 1 .. (1 - 1))
          OBVIOUS
        <4> QED
          BY <4>2, <4>3 DEF Before
      <3> QED
        BY <1>1, <2>3, <2>6, <3>1, <3>2, RelationsLost
    <2>7. <<c, m, "COMMENT">> \in db.rel \/ Excused(c, m) \/ parentOf[m] # None
      BY <2>1, <2>2, <2>3 DEF Tied
    <2> QED
      BY <2>1, <2>2, <2>4, <2>5, <2>6, <2>7
  <1> QED
    BY <1>2, <1>3

\* The list of deletions names every comment before the memo itself.
LEMMA CommentsFirst ==
    ASSUME NEW m, NEW C \in SUBSET Memos, m \notin C, NEW order \in SetToSeqs(C), NEW more,
           more = Each("wipe", order) \o <<<<"wipe", m>>>>, NEW k \in DOMAIN more, more[k][2] = m, NEW c \in C
    PROVE  \E j \in DOMAIN more : j < k /\ Is(more[j], "wipe", c)
  <1>1. IsFiniteSet(C)
    BY SubsetsAreFinite
  <1>2. PICK n \in Nat : DOMAIN order = 1 .. n
    BY <1>1, Orders
  <1>3. PICK e : e = Each("wipe", order)
    OBVIOUS
  <1>4. IsPlan(e) /\ DOMAIN e = 1 .. n /\ \A j \in 1 .. n : e[j] = <<"wipe", order[j]>>
    BY <1>1, <1>2, <1>3, EachPlan DEF Each
  <1>5. Len(e) = n
    BY <1>4, PlanDomain
  <1>6. PICK l : l = <<<<"wipe", m>>>>
    OBVIOUS
  <1>7. IsPlan(l) /\ Len(l) = 1
    BY <1>6, LiteralPlans
  <1>8. more = e \o l
    BY <1>3, <1>6
  <1>9. IsPlan(more) /\ Len(more) = n + 1
    <2>1. IsPlan(e \o l) /\ Len(e \o l) = Len(e) + Len(l)
      BY ONLY <1>4, <1>7, JoinedPlan
    <2> QED
      BY <1>5, <1>7, <1>8, <2>1
  <1>10. \A j \in 1 .. n : more[j] = e[j]
    <2>1. \A j \in 1 .. Len(e) : (e \o l)[j] = e[j]
      BY ONLY <1>4, <1>7, JoinedPlan
    <2> QED
      BY <1>5, <1>8, <2>1
  <1>11. DOMAIN more = 1 .. (n + 1)
    BY <1>9, PlanDomain
  <1>12. k = n + 1
    <2>1. CASE k \in 1 .. n
      <3>1. more[k] = <<"wipe", order[k]>> /\ order[k] \in C
        BY <1>1, <1>2, <1>4, <1>10, <2>1, Orders
      <3> QED
        BY <3>1
    <2> QED
      BY <1>11, <2>1
  <1>13. PICK j \in 1 .. n : order[j] = c
    BY <1>1, <1>2, Orders
  <1>14. more[j] = <<"wipe", c>>
    BY <1>4, <1>10, <1>13
  <1>15. j \in DOMAIN more /\ j < k
    BY <1>11, <1>12, <1>13
  <1>16. Is(more[j], "wipe", c)
    BY ONLY <1>14 DEF Is
  <1> QED
    BY <1>15, <1>16

LEMMA UntiesStays ==
    ASSUME StoreTypeOK, NEW p \in Procs, Statement(p) \/ StorageFails(p), NEW c \in Memos, NEW m \in Memos,
           ComposeFacts(c), ComposeFacts(m), UntiesLast(c, m),
           NEW more, Replaced(p, more), \A s \in Stmts(more) : Produced(Head(proc[p]), s),
           ListComments(p) => \E order \in SetToSeqs(CommentsOf(Arg(p, 2))) :
                                more = Each("wipe", order) \o <<<<"wipe", Arg(p, 2)>>>>
    PROVE  UntiesLast(c, m)'
  <1> SUFFICES ASSUME NEW q \in Procs, NEW k \in DOMAIN proc'[q],
                      proc'[q][k][1] \in {"wipe", "unrelateTo"}, proc'[q][k][2] = m, parentOf'[m] = None,
                      <<c, m, "COMMENT">> \in db'.rel, ~Excused(c, m)'
               PROVE  Before(proc'[q], k, "wipe", c)
    BY DEF UntiesLast
  <1>1. PICK h : h = Head(proc[p])
    OBVIOUS
  <1>2. parentOf[m] = None
    <2>1. CASE Relate(p)
      <3>1. /\ h[2] \in Memos /\ h[3] \in Memos
            /\ parentOf' = IF h[4] = "COMMENT" THEN [parentOf EXCEPT ![h[2]] = h[3]] ELSE parentOf
        BY <1>1, <2>1, RelateEffect
      <3> QED
        BY <3>1, StoreAssumption DEF StoreTypeOK
    <2>2. CASE parentOf' = parentOf
      BY <2>2
    <2> QED
      BY <2>1, <2>2, RelationsChange
  <1>3. proc[p] # <<>> /\ 1 \in DOMAIN proc[p] /\ h = proc[p][1]
    BY <1>1, HeadPending DEF Replaced
  <1>4. CASE <<c, m, "COMMENT">> \notin db.rel
    <2>1. CASE Relate(p)
      <3>1. /\ h[1] = "relate" /\ h[2] = c /\ h[3] = m /\ h[4] = "COMMENT"
            /\ late' = late \cup (IF Going(h[2]) \/ Going(h[3]) THEN {<<"rel", <<h[2], h[3], h[4]>>>>} ELSE {})
        BY <1>1, <1>4, <2>1, RelateEffect
      <3>2. Removing(m)
        <4>1. \A s \in Stmts(more) : s[1] \notin {"wipe", "unrelateTo"}
          <5> SUFFICES ASSUME NEW s \in Stmts(more) PROVE s[1] \notin {"wipe", "unrelateTo"}
            OBVIOUS
          <5>1. Produced(h, s)
            BY <1>1
          <5> QED
            BY <3>1, <5>1 DEF Produced
        <4>2. PICK op \in {"wipe", "unrelateTo"} : Pending(op, m)'
          BY DEF Pending
        <4>3. Pending(op, m)
          BY <4>1, <4>2, PendingMoves DEF Is
        <4> QED
          BY <4>3 DEF Pending, Removing
      <3>3. <<"rel", <<c, m, "COMMENT">>>> \in late'
        BY <3>1, <3>2, StoreAssumption DEF Going
      <3> QED
        BY <3>3 DEF Excused
    <2> QED
      BY <1>4, <2>1, RelationsChange
  <1>5. CASE <<c, m, "COMMENT">> \in db.rel
    <2>1. parentOf[c] # None
      BY <1>5 DEF ComposeFacts
    <2>2. ~Excused(c, m)
      BY <2>1, ExcusedStays
    <2>3. \A r \in Procs : \A i \in DOMAIN proc[r] :
            proc[r][i][1] \in {"wipe", "unrelateTo"} /\ proc[r][i][2] = m => Before(proc[r], i, "wipe", c)
      BY <1>2, <1>5, <2>2 DEF UntiesLast
    <2>4. CASE q # p
      BY <2>3, <2>4, PlanMoves
    <2>5. CASE q = p
      <3>1. ASSUME NEW i \in DOMAIN proc[p], i >= 2, k = i - 1 + Len(more), proc'[p][k] = proc[p][i]
            PROVE  Before(proc'[p], k, "wipe", c)
        <4>1. Before(proc[p], i, "wipe", c)
          BY <2>3, <2>5, <3>1
        <4>2. CASE Is(h, "wipe", c)
          <5>1. Wipe(p)
            BY <1>1, <4>2, RemovalHead DEF Is
          <5>2. PICK rest : /\ rest = <<<<"unrelateTo", Arg(p, 2)>>, <<"listAtts", Arg(p, 2)>>, <<"memoRow", Arg(p, 2)>>>>
                            /\ Replaced(p, rest)
            BY <5>1, WipePlan
          <5>3. Arg(p, 2) = c
            BY <1>1, <4>2 DEF Arg, Is
          <5>4. <<"memoRow", c>> \in Stmts(rest) /\ Is(<<"memoRow", c>>, "memoRow", c)
            BY <5>2, <5>3, LiteralPlans DEF Is
          <5>5. Pending("memoRow", c)'
            BY <5>2, <5>4, PendingMoves
          <5> QED
            BY <5>5 DEF Excused
        <4> QED
          BY <1>1, <3>1, <4>1, <4>2, FrontMoves
      <3>2. ASSUME k \in DOMAIN more, proc'[p][k] = more[k]
            PROVE  Before(proc'[p], k, "wipe", c)
        <4>1. PICK s : s = more[k]
          OBVIOUS
        <4>2. Produced(h, s) /\ s[1] \in {"wipe", "unrelateTo"} /\ s[2] = m
          BY <1>1, <2>5, <3>2, <4>1 DEF Stmts
        <4>3. CASE h[1] = "wipe"
          <5>1. h[2] = m
            BY <4>2, <4>3 DEF Produced
          <5>2. Before(proc[p], 1, "wipe", c)
            BY <1>3, <2>3, <4>3, <5>1
          <5>3. \A j : ~(j \in 1 .. (1 - 1))
            OBVIOUS
          <5> QED
            BY <5>2, <5>3 DEF Before
        <4>4. CASE h[1] = "comments"
          <5>1. ListComments(p) /\ h[2] = Arg(p, 2)
            BY <1>1, <4>4, RemovalHead DEF Arg
          <5>2. h[2] \in Memos
            BY <1>1, <1>3, <4>4, HeadOK DEF StmtOK, AboutMemo
          <5>3. PICK C \in SUBSET Memos : C = CommentsOf(h[2])
            BY CommentsAreMemos
          <5>4. m \notin C
            BY <1>2, <5>2, <5>3 DEF CommentsOf, ComposeFacts, StoreTypeOK, Tables
          <5>5. m = h[2]
            BY <4>2, <4>4, <5>3, <5>4 DEF Produced
          <5>6. c \in C
            BY <1>5, <5>3, <5>5 DEF CommentsOf
          <5>7. PICK order \in SetToSeqs(C) : more = Each("wipe", order) \o <<<<"wipe", m>>>>
            BY <5>1, <5>3, <5>5
          <5>8. PICK j \in DOMAIN more : j < k /\ Is(more[j], "wipe", c)
            BY <3>2, <4>1, <4>2, <5>4, <5>6, <5>7, CommentsFirst
          <5>9. PICK n \in Nat : DOMAIN more = 1 .. n
            BY PlanDomain DEF Replaced
          <5>10. j \in 1 .. (k - 1)
            BY <3>2, <5>8, <5>9
          <5>11. Is(proc'[p][j], "wipe", c)
            BY <5>8, PlanMoves
          <5> QED
            BY <5>10, <5>11 DEF Before
        <4> QED
          BY <4>2, <4>3, <4>4 DEF Produced
      <3>3. \/ k \in DOMAIN more /\ proc'[p][k] = more[k]
            \/ \E i \in DOMAIN proc[p] : i >= 2 /\ k = i - 1 + Len(more) /\ proc'[p][k] = proc[p][i]
        BY <2>5, PlanMoves DEF CameFrom
      <3> QED
        BY <2>5, <3>1, <3>2, <3>3
    <2> QED
      BY <2>4, <2>5
  <1> QED
    BY <1>4, <1>5

\* A step that leaves the tables alone and begins no removal.
LEMMA CommentsLeftAlone ==
    ASSUME CommentInv, UNCHANGED <<db, parentOf, late>>, cut \subseteq cut',
           \A c \in Memos : Pending("memoRow", c) => Pending("memoRow", c)' \/ c \in cut',
           \A q \in Procs : \/ proc'[q] = proc[q]
                            \/ \A k \in DOMAIN proc'[q] : proc'[q][k][1] \notin {"wipe", "unrelateTo"}
    PROVE  CommentInv'
  <1>1. \A c, m \in Memos : Excused(c, m) => Excused(c, m)'
    BY DEF Excused, MemoExists
  <1>2. ASSUME NEW c \in Memos
        PROVE  Tied(c)'
    <2>1. \A m \in Memos : MemoExists(c) /\ parentOf[c] = m =>
            <<c, m, "COMMENT">> \in db.rel \/ Excused(c, m) \/ parentOf[m] # None
      BY DEF CommentInv, Tied
    <2> QED
      BY <1>1, <2>1 DEF Tied, MemoExists
  <1>3. ASSUME NEW c \in Memos, NEW m \in Memos
        PROVE  UntiesLast(c, m)'
    <2>1. UntiesLast(c, m)
      BY DEF CommentInv
    <2>2. ASSUME NEW q \in Procs, NEW k \in DOMAIN proc'[q],
                 proc'[q][k][1] \in {"wipe", "unrelateTo"}, proc'[q][k][2] = m, parentOf[m] = None, <<c, m, "COMMENT">> \in db.rel
          PROVE  Excused(c, m)' \/ Before(proc'[q], k, "wipe", c)
      <3>1. proc'[q] = proc[q]
        BY <2>2
      <3>2. Excused(c, m) \/ Before(proc[q], k, "wipe", c)
        BY <2>1, <2>2, <3>1 DEF UntiesLast
      <3> QED
        BY <1>1, <3>1, <3>2
    <2> QED
      BY <2>2 DEF UntiesLast
  <1> QED
    BY <1>2, <1>3 DEF CommentInv

LEMMA CommentStep ==
    ASSUME StoreTypeOK, ComposeInv, CommentInv, [StoreNext]_storeVars
    PROVE  CommentInv'
  <1>1. ASSUME NEW p \in Procs, Statement(p) \/ StorageFails(p)
        PROVE  CommentInv'
    <2>1. CASE Ends(p)
      <3>1. Abort(p) /\ UNCHANGED <<db, late, parentOf>>
        BY <2>1 DEF Ends, Refuse
      <3>2. \A q \in Procs : proc'[q] = proc[q] \/ proc'[q] = <<>>
        BY <3>1 DEF Abort, StoreTypeOK
      <3>3. \A c \in Memos : Pending("memoRow", c) => Pending("memoRow", c)' \/ c \in cut'
        BY <3>1, EndedRemoval
      <3>4. cut \subseteq cut'
        BY <3>1 DEF Abort
      <3> QED
        BY <3>1, <3>2, <3>3, <3>4, CommentsLeftAlone
    <2>2. CASE \E more : Replaced(p, more) /\ \A s \in Stmts(more) : Produced(Head(proc[p]), s)
      <3>1. \A c \in Memos : Tied(c)'
        BY <1>1, TiedStays DEF ComposeInv, CommentInv
      <3>2. PICK more : /\ Replaced(p, more) /\ \A s \in Stmts(more) : Produced(Head(proc[p]), s)
                        /\ ListComments(p) => \E order \in SetToSeqs(CommentsOf(Arg(p, 2))) :
                                                more = Each("wipe", order) \o <<<<"wipe", Arg(p, 2)>>>>
        <4>1. CASE ListComments(p)
          <5>1. PICK order \in SetToSeqs(CommentsOf(Arg(p, 2))) :
                  \E more : /\ more = Each("wipe", order) \o <<<<"wipe", Arg(p, 2)>>>>
                            /\ Replaced(p, more)
                            /\ \A s \in Stmts(more) : Produced(Head(proc[p]), s)
            BY <4>1, ListCommentsPlan
          <5> QED
            BY <5>1
        <4>2. CASE ~ListComments(p)
          BY <2>2, <4>2
        <4> QED
          BY <4>1, <4>2
      <3>3. ASSUME NEW c \in Memos, NEW m \in Memos
            PROVE  UntiesLast(c, m)'
        <4>1. ComposeFacts(c) /\ ComposeFacts(m) /\ UntiesLast(c, m)
          BY DEF ComposeInv, CommentInv
        <4> QED
          BY <1>1, <3>2, <4>1, UntiesStays
      <3> QED
        BY <3>1, <3>3 DEF CommentInv
    <2> QED
      BY <1>1, <2>1, <2>2, StatementMoves
  <1>2. ASSUME NEW p \in Procs, StatementFails(p)
        PROVE  CommentInv'
    <2>1. Abort(p) /\ UNCHANGED <<db, late, parentOf>>
      BY <1>2 DEF StatementFails
    <2>2. \A q \in Procs : proc'[q] = proc[q] \/ proc'[q] = <<>>
      BY <2>1 DEF Abort, StoreTypeOK
    <2>3. \A c \in Memos : Pending("memoRow", c) => Pending("memoRow", c)' \/ c \in cut'
      BY <2>1, EndedRemoval
    <2>4. cut \subseteq cut'
      BY <2>1 DEF Abort
    <2> QED
      BY <2>1, <2>2, <2>3, <2>4, CommentsLeftAlone
  <1>3. ASSUME NEW p \in Procs, NEW u \in db.users, Request(p, u)
        PROVE  CommentInv'
    <2>1. PICK ids, ops : Begun(p, u, ids, ops)
      BY <1>3, RequestBegins
    <2>2. proc[p] = <<>> /\ proc'[p] = ops /\ \A q \in Procs : q # p => proc'[q] = proc[q]
      BY <2>1, BegunPlans
    <2>3. ASSUME NEW k \in DOMAIN ops
          PROVE  ops[k][1] \notin {"wipe", "unrelateTo"}
      <3>1. CASE Plain(ops[k])
        BY <3>1 DEF Plain, PlainOps
      <3>2. CASE FreshStmt(u, ids, ops, k)
        BY <3>2 DEF FreshStmt
      <3>3. ASSUME NEW a \in Atts, NEW m \in Memos \cup {None}, ops = <<<<"upload", a>>, <<"attInsert", a, u, m>>>>
            PROVE  ops[k][1] \notin {"wipe", "unrelateTo"}
        BY <3>3
      <3>4. ASSUME NEW batch \in SUBSET Memos, ops = <<<<"lock", u>>, <<"empty", u>>, <<"load", u, batch>>>>
            PROVE  ops[k][1] \notin {"wipe", "unrelateTo"}
        BY <3>4
      <3> QED
        BY <2>1, <3>1, <3>2, <3>3, <3>4, OpeningStatements DEF Begun
    <2>4. \A c \in Memos : Pending("memoRow", c) => Pending("memoRow", c)'
      BY <2>2 DEF Pending
    <2>5. UNCHANGED <<db, parentOf, late, cut>>
      BY <2>1 DEF Begun
    <2> QED
      BY <2>2, <2>3, <2>4, <2>5, CommentsLeftAlone
  <1>4. ASSUME Crash
        PROVE  CommentInv'
    <2>1. UNCHANGED <<db, late, parentOf>> /\ cut \subseteq cut' /\ \A q \in Procs : proc'[q] = <<>>
      BY <1>4 DEF Crash
    <2>2. \A c \in Memos : Pending("memoRow", c) => Pending("memoRow", c)' \/ c \in cut'
      BY <1>4, CrashedRemoval
    <2> QED
      BY <2>1, <2>2, CommentsLeftAlone
  <1>5. CASE UNCHANGED storeVars
    <2>1. UNCHANGED <<db, late, parentOf, cut, proc>>
      BY <1>5 DEF storeVars
    <2>2. \A c \in Memos : Pending("memoRow", c) => Pending("memoRow", c)' \/ c \in cut'
      BY <2>1 DEF Pending
    <2> QED
      BY <2>1, <2>2, CommentsLeftAlone
  <1> QED
    BY <1>1, <1>2, <1>3, <1>4, <1>5 DEF StoreNext

LEMMA CommentInit == StoreInit => CommentInv
  <1> SUFFICES ASSUME StoreInit PROVE CommentInv
    OBVIOUS
  <1>1. \A p \in Procs : proc[p] = <<>>
    BY DEF StoreInit
  <1>0. PICK memo \in [Memos -> Users \cup {None}], parent \in [Memos -> Memos \cup {None}],
             att \in [Atts -> {NoAtt} \cup [creator : Users, memo : Memos \cup {None}]] : Holds(memo, parent, att)
    BY DEF StoreInit
  <1>2. /\ db.rel = {<<m, parent[m], "COMMENT">> : m \in {m \in Memos : parent[m] # None}}
        /\ parentOf = parent
    BY <1>0 DEF Holds
  <1>3. \A c, m \in Memos : parentOf[c] = m => <<c, m, "COMMENT">> \in db.rel
    BY <1>2, StoreAssumption
  <1> QED
    BY <1>1, <1>3 DEF CommentInv, Tied, UntiesLast

\* A comment never turns into a memo of the timeline, wherever requests
\* interleave, fail or are cut short by a crash.
THEOREM CommentsStayComments == StoreSpec => []CommentStaysComment
  <1>1. StoreInit => StoreTypeOK /\ ComposeInv /\ CommentInv
    BY TypeInit, ComposeInit, CommentInit
  <1>2. StoreTypeOK /\ ComposeInv /\ CommentInv /\ [StoreNext]_storeVars => StoreTypeOK' /\ ComposeInv' /\ CommentInv'
    BY TypeStep, ComposeStep, CommentStep
  <1>3. StoreTypeOK /\ CommentInv => CommentStaysComment
    <2> SUFFICES ASSUME StoreTypeOK, CommentInv, NEW c \in Memos, MemoExists(c), parentOf[c] # None,
                        <<c, parentOf[c], "COMMENT">> \notin db.rel, <<"rel", <<c, parentOf[c], "COMMENT">>>> \notin late,
                        c \notin cut, parentOf[parentOf[c]] = None
                 PROVE  Removing(c)
      BY DEF CommentStaysComment
    <2>1. PICK m \in Memos : m = parentOf[c]
      BY DEF StoreTypeOK
    <2>2. Excused(c, m)
      BY <2>1 DEF CommentInv, Tied
    <2>3. Pending("memoRow", c)
      BY <2>1, <2>2 DEF Excused
    <2> QED
      BY <2>3 DEF Pending, Removing
  <1> QED
    BY <1>1, <1>2, <1>3, PTL DEF StoreSpec

(***************************************************************************)
(* Rows that point to something that is gone.                              *)
(***************************************************************************)
\* Where the rows come from that are there after a statement.
LEMMA AttOrigin ==
    ASSUME StoreTypeOK, NEW p \in Procs, Statement(p) \/ StorageFails(p), NEW a \in Atts, AttExists(a)',
           NEW h, h = Head(proc[p])
    PROVE  \/ AttExists(a) /\ db'.att[a] = db.att[a]
           \/ InsertAtt(p) /\ h[2] = a /\ db'.att[a] = [creator |-> h[3], memo |-> h[4]]
           \/ Attach(p) /\ h[2] = a /\ AttExists(a) /\ db'.att[a] = [creator |-> db.att[a].creator, memo |-> h[3]]
  <1>2. PICK t \in Tables : t = db
    BY DEF StoreTypeOK
  <1>3. t.att \in [Atts -> AttRow]
    BY DEF Tables
  <1>4. CASE InsertAtt(p)
    <2>1. db' = [t EXCEPT !.att[h[2]] = [creator |-> h[3], memo |-> h[4]]]
      BY <1>2, <1>4 DEF InsertAtt, Write, Arg
    <2>2. db'.att[a] = IF a = h[2] THEN [creator |-> h[3], memo |-> h[4]] ELSE t.att[a]
      BY <1>3, <2>1 DEF Tables
    <2> QED
      BY <1>2, <1>4, <2>2 DEF AttExists
  <1>5. CASE DropAttRow(p)
    <2>1. db' = [t EXCEPT !.att[h[2]] = NoAtt]
      BY <1>2, <1>5 DEF DropAttRow, Write, Arg
    <2>2. db'.att[a] = IF a = h[2] THEN NoAtt ELSE t.att[a]
      BY <1>3, <2>1 DEF Tables
    <2> QED
      BY <1>2, <2>2 DEF AttExists, NoAtt
  <1>6. CASE DropAttRows(p)
    <2>1. db' = [t EXCEPT !.att = [b \in Atts |-> IF b \in h[2] THEN NoAtt ELSE t.att[b]]]
      BY <1>2, <1>6 DEF DropAttRows, Arg
    <2>2. db'.att[a] = IF a \in h[2] THEN NoAtt ELSE t.att[a]
      BY <2>1 DEF Tables
    <2> QED
      BY <1>2, <2>2 DEF AttExists, NoAtt
  <1>7. CASE Attach(p)
    <2>1. \/ db' = t
          \/ AttExists(h[2]) /\ db' = [t EXCEPT !.att[h[2]].memo = h[3]]
      BY <1>2, <1>7 DEF Attach, Write, Arg
    <2>2. CASE db' = [t EXCEPT !.att[h[2]].memo = h[3]] /\ AttExists(h[2]) /\ h[2] = a
      <3>1. db'.att[a] = [t.att[a] EXCEPT !.memo = h[3]]
        BY <1>3, <2>2 DEF Tables
      <3>2. t.att[a] \in AttRow
        BY <1>3
      <3>3. db'.att[a] = [creator |-> t.att[a].creator, memo |-> h[3]]
        BY <3>1, <3>2 DEF AttRow
      <3> QED
        BY <1>2, <1>7, <2>2, <3>3
    <2>3. CASE db' = t \/ h[2] # a
      <3>1. db'.att[a] = t.att[a]
        BY <1>3, <2>1, <2>3 DEF Tables
      <3> QED
        BY <1>2, <3>1 DEF AttExists
    <2> QED
      BY <2>1, <2>2, <2>3
  <1>8. CASE DeleteUserTx(p)
    <2>1. db'.att = [b \in Atts |-> IF b \in AttsOfUser(h[2], MemoTree(h[2])) THEN NoAtt ELSE t.att[b]]
      BY <1>2, <1>8 DEF DeleteUserTx, Arg
    <2> QED
      BY <1>2, <2>1 DEF AttExists, NoAtt
  <1>9. CASE \/ Wipe(p) \/ UnrelateTo(p) \/ Relate(p) \/ ClearRefs(p) \/ InsertMemo(p) \/ DropMemo(p) \/ LoadBatch(p)
             \/ DropRow(p)
    <2>1. db'.att = db.att
      BY <1>9 DEF StoreTypeOK, Tables, Wipe, UnrelateTo, Relate, ClearRefs, InsertMemo, DropMemo, LoadBatch, DropRow, Write
    <2> QED
      BY <2>1 DEF AttExists
  <1>10. CASE AddRow(p)
    <2>1. db'.att = t.att
      BY <1>2, <1>10 DEF AddRow, Write, Tables
    <2> QED
      BY <1>2, <2>1 DEF AttExists
  <1>11. CASE \/ ListComments(p) \/ ListAtts(p) \/ WriteFile(p) \/ Drop(p) \/ DropFile(p) \/ SetAtts(p) \/ Deny(p) \/ Lookup(p)
              \/ Rebuild(p) \/ Mention(p) \/ Lock(p) \/ CheckEmpty(p) \/ StorageFails(p)
    <2>1. db' = db
      BY <1>11 DEF StorageFails, ListComments, ListAtts, WriteFile, Drop, DropFile, SetAtts, Deny, Lookup,
                  Rebuild, Mention, Notify, Lock, CheckEmpty, Read, Refuse
    <2> QED
      BY <2>1 DEF AttExists
  <1> QED
    BY <1>4, <1>5, <1>6, <1>7, <1>8, <1>9, <1>10, <1>11 DEF Statement

LEMMA MemoOrigin ==
    ASSUME StoreTypeOK, NEW p \in Procs, Statement(p) \/ StorageFails(p), NEW m \in Memos, NEW h, h = Head(proc[p])
    PROVE  \/ db'.memo[m] = db.memo[m]
           \/ InsertMemo(p) /\ h[2] = m /\ db'.memo[m] = h[3]
           \/ LoadBatch(p) /\ m \in h[3] /\ db'.memo[m] = h[2]
           \/ DropMemo(p) /\ h[2] = m /\ ~MemoExists(m)'
           \/ DeleteUserTx(p) /\ m \in MemoTree(h[2]) /\ ~MemoExists(m)'
  <1>2. PICK t \in Tables : t = db
    BY DEF StoreTypeOK
  <1>3. t.memo \in [Memos -> Users \cup {None}]
    BY DEF Tables
  <1>4. CASE InsertMemo(p)
    <2>1. db' = [t EXCEPT !.memo[h[2]] = h[3]]
      BY <1>2, <1>4 DEF InsertMemo, Write, Arg
    <2>2. db'.memo[m] = IF m = h[2] THEN h[3] ELSE t.memo[m]
      BY <1>3, <2>1 DEF Tables
    <2> QED
      BY <1>2, <1>4, <2>2
  <1>5. CASE LoadBatch(p)
    <2>1. db' = [t EXCEPT !.memo = [x \in Memos |-> IF x \in h[3] THEN h[2] ELSE t.memo[x]]]
      BY <1>2, <1>5 DEF LoadBatch, Arg
    <2>2. db'.memo[m] = IF m \in h[3] THEN h[2] ELSE t.memo[m]
      BY <2>1 DEF Tables
    <2> QED
      BY <1>2, <1>5, <2>2
  <1>6. CASE DropMemo(p)
    <2>1. db' = [t EXCEPT !.memo[h[2]] = None]
      BY <1>2, <1>6 DEF DropMemo, Write, Arg
    <2>2. db'.memo[m] = IF m = h[2] THEN None ELSE t.memo[m]
      BY <1>3, <2>1 DEF Tables
    <2> QED
      BY <1>2, <1>6, <2>2 DEF MemoExists
  <1>7. CASE DeleteUserTx(p)
    <2>1. db'.memo = [x \in Memos |-> IF x \in MemoTree(h[2]) THEN None ELSE t.memo[x]]
      BY <1>2, <1>7 DEF DeleteUserTx, Arg
    <2> QED
      BY <1>2, <1>7, <2>1 DEF MemoExists
  <1>8. CASE \/ Wipe(p) \/ UnrelateTo(p) \/ ClearRefs(p) \/ InsertAtt(p) \/ DropAttRow(p) \/ DropAttRows(p) \/ DropRow(p)
             \/ Relate(p)
    <2>1. db'.memo = db.memo
      BY <1>8 DEF Wipe, UnrelateTo, ClearRefs, InsertAtt, DropAttRow, DropAttRows, DropRow, Relate, Write, StoreTypeOK, Tables
    <2> QED
      BY <2>1
  <1>9. CASE AddRow(p) \/ Attach(p)
    <2>1. t.memo = db'.memo
      BY <1>2, <1>9 DEF AddRow, Attach, Write, Tables
    <2> QED
      BY <1>2, <2>1
  <1>10. CASE \/ ListComments(p) \/ ListAtts(p) \/ WriteFile(p) \/ Drop(p) \/ DropFile(p) \/ SetAtts(p) \/ Deny(p)
              \/ Lookup(p) \/ Rebuild(p) \/ Mention(p) \/ Lock(p) \/ CheckEmpty(p) \/ StorageFails(p)
    <2>1. db' = db
      BY <1>10 DEF StorageFails, ListComments, ListAtts, WriteFile, Drop, DropFile, SetAtts, Deny, Lookup,
                  Rebuild, Mention, Notify, Lock, CheckEmpty, Read, Refuse
    <2> QED
      BY <2>1
  <1> QED
    BY <1>4, <1>5, <1>6, <1>7, <1>8, <1>9, <1>10 DEF Statement

LEMMA UsersStay ==
    ASSUME StoreTypeOK, NEW p \in Procs, Statement(p) \/ StorageFails(p), ~DeleteUserTx(p)
    PROVE  db'.users = db.users
  <1>2. PICK t \in Tables : t = db
    BY DEF StoreTypeOK
  <1>8. CASE \/ Wipe(p) \/ UnrelateTo(p) \/ ClearRefs(p) \/ InsertAtt(p) \/ DropAttRow(p) \/ DropAttRows(p) \/ DropRow(p)
             \/ Relate(p) \/ InsertMemo(p) \/ LoadBatch(p) \/ DropMemo(p)
    BY <1>8 DEF Wipe, UnrelateTo, ClearRefs, InsertAtt, DropAttRow, DropAttRows, DropRow, Relate, InsertMemo, LoadBatch,
                DropMemo, Write, StoreTypeOK, Tables
  <1>9. CASE AddRow(p) \/ Attach(p)
    BY <1>2, <1>9 DEF AddRow, Attach, Write, Tables
  <1>10. CASE \/ ListComments(p) \/ ListAtts(p) \/ WriteFile(p) \/ Drop(p) \/ DropFile(p) \/ SetAtts(p) \/ Deny(p)
              \/ Lookup(p) \/ Rebuild(p) \/ Mention(p) \/ Lock(p) \/ CheckEmpty(p) \/ StorageFails(p)
    <2>1. db' = db
      BY <1>10 DEF StorageFails, ListComments, ListAtts, WriteFile, Drop, DropFile, SetAtts, Deny, Lookup,
                  Rebuild, Mention, Notify, Lock, CheckEmpty, Read, Refuse
    <2> QED
      BY <2>1
  <1> QED
    BY <1>8, <1>9, <1>10 DEF Statement

\* Reactions, shares and messages.
Rows(t) == t.reaction \cup t.share \cup t.inbox

LEMMA RowOrigin ==
    ASSUME StoreTypeOK, NEW p \in Procs, Statement(p) \/ StorageFails(p), NEW h, h = Head(proc[p])
    PROVE  \/ /\ AddRow(p) /\ h[2] \in {"reaction", "share"}
              /\ db'.inbox = db.inbox
              /\ db'.reaction \cup db'.share \subseteq db.reaction \cup db.share \cup {h[3]}
           \/ AddRow(p) /\ db'.reaction = db.reaction /\ db'.share = db.share /\ db'.inbox = db.inbox \cup {h[3]}
           \/ /\ db'.reaction \subseteq db.reaction
              /\ db'.share \subseteq db.share
              /\ db'.inbox \subseteq db.inbox
  <1>2. PICK t \in Tables : t = db
    BY DEF StoreTypeOK
  <1>3. CASE AddRow(p)
    <2>1. db' = CASE h[2] = "reaction" -> [t EXCEPT !.reaction = t.reaction \cup {h[3]}]
                  [] h[2] = "share" -> [t EXCEPT !.share = t.share \cup {h[3]}]
                  [] OTHER -> [t EXCEPT !.inbox = t.inbox \cup {h[3]}]
      BY <1>2, <1>3 DEF AddRow, Write, Arg
    <2>2. CASE h[2] = "reaction"
      <3>1. db'.reaction = t.reaction \cup {h[3]} /\ db'.share = t.share /\ db'.inbox = t.inbox
        BY <2>1, <2>2 DEF Tables
      <3> QED
        BY <1>2, <1>3, <2>2, <3>1
    <2>3. CASE h[2] = "share"
      <3>1. db'.reaction = t.reaction /\ db'.share = t.share \cup {h[3]} /\ db'.inbox = t.inbox
        BY <2>1, <2>3 DEF Tables
      <3> QED
        BY <1>2, <1>3, <2>3, <3>1
    <2>4. CASE h[2] # "reaction" /\ h[2] # "share"
      BY <1>2, <1>3, <2>1, <2>4 DEF Tables
    <2> QED
      BY <2>2, <2>3, <2>4
  <1>4. CASE DropRow(p)
    <2>1. db' = [t EXCEPT !.reaction = t.reaction \ {h[2]}, !.share = t.share \ {h[2]}, !.inbox = t.inbox \ {h[2]}]
      BY <1>2, <1>4 DEF DropRow, Write, Arg
    <2> QED
      BY <1>2, <2>1 DEF Tables
  <1>7. CASE DeleteUserTx(p)
    BY <1>2, <1>7 DEF DeleteUserTx
  <1>8. CASE \/ Wipe(p) \/ UnrelateTo(p) \/ ClearRefs(p) \/ InsertAtt(p) \/ DropAttRow(p) \/ DropAttRows(p)
             \/ Relate(p) \/ InsertMemo(p) \/ LoadBatch(p) \/ DropMemo(p)
    <2>1. db'.reaction = db.reaction /\ db'.share = db.share /\ db'.inbox = db.inbox
      BY <1>8 DEF Wipe, UnrelateTo, ClearRefs, InsertAtt, DropAttRow, DropAttRows, Relate, InsertMemo, LoadBatch,
                DropMemo, Write, StoreTypeOK, Tables
    <2> QED
      BY <2>1
  <1>9. CASE Attach(p)
    <2>1. t.reaction = db'.reaction /\ t.share = db'.share /\ t.inbox = db'.inbox
      BY <1>2, <1>9 DEF Attach, Write, Tables
    <2> QED
      BY <1>2, <2>1
  <1>10. CASE \/ ListComments(p) \/ ListAtts(p) \/ WriteFile(p) \/ Drop(p) \/ DropFile(p) \/ SetAtts(p) \/ Deny(p)
              \/ Lookup(p) \/ Rebuild(p) \/ Mention(p) \/ Lock(p) \/ CheckEmpty(p) \/ StorageFails(p)
    <2>1. db' = db
      BY <1>10 DEF StorageFails, ListComments, ListAtts, WriteFile, Drop, DropFile, SetAtts, Deny, Lookup,
                  Rebuild, Mention, Notify, Lock, CheckEmpty, Read, Refuse
    <2> QED
      BY <2>1
  <1> QED
    BY <1>3, <1>4, <1>7, <1>8, <1>9, <1>10 DEF Statement

\* Before the row of a memo is deleted, the rows that point to it are.
MemoRowInv(m) ==
    \A p \in Procs : \A i \in DOMAIN proc[p] : Is(proc[p][i], "memoRow", m) =>
      /\ \A r \in db.rel : r[1] = m => <<"rel", r>> \in late
      /\ \A r \in db.rel : r[2] = m => <<"rel", r>> \in late \/ Before(proc[p], i, "unrelateTo", m)
      /\ \A a \in Atts : AttExists(a) /\ db.att[a].memo = m =>
           \/ <<"att", a>> \in late
           \/ Before(proc[p], i, "listAtts", m) \/ Before(proc[p], i, "drop", a) \/ Before(proc[p], i, "attRow", a)

DanglingInv ==
    /\ \A m \in Memos : MemoRowInv(m)
    /\ \A r \in db.reaction \cup db.share : r.by = r.to
    /\ NoDanglingRow

\* What is written about a memo that is being removed is recorded as late.
LEMMA LateRelation ==
    ASSUME StoreTypeOK, NEW p \in Procs, Statement(p) \/ StorageFails(p), NEW r \in db'.rel, NEW m \in Memos,
           r[1] = m \/ r[2] = m, Going(m)
    PROVE  r \in db.rel \/ <<"rel", r>> \in late'
  <1>1. PICK h : h = Head(proc[p])
    OBVIOUS
  <1>2. CASE Relate(p)
    <2>1. /\ db'.rel = db.rel \cup {<<h[2], h[3], h[4]>>}
          /\ late' = late \cup (IF Going(h[2]) \/ Going(h[3]) THEN {<<"rel", <<h[2], h[3], h[4]>>>>} ELSE {})
      BY <1>1, <1>2, RelateEffect
    <2>2. CASE r = <<h[2], h[3], h[4]>>
      <3>1. h[2] = m \/ h[3] = m
        BY <2>2
      <3> QED
        BY <2>1, <2>2, <3>1
    <2> QED
      BY <2>1, <2>2
  <1>3. CASE db'.rel \subseteq db.rel
    BY <1>3
  <1> QED
    BY <1>2, <1>3, RelationsChange

LEMMA LateAttachment ==
    ASSUME StoreTypeOK, NEW p \in Procs, Statement(p) \/ StorageFails(p), NEW a \in Atts, NEW m \in Memos,
           AttExists(a)', db'.att[a].memo = m, Going(m)
    PROVE  (AttExists(a) /\ db'.att[a] = db.att[a]) \/ <<"att", a>> \in late'
  <1>1. PICK h : h = Head(proc[p])
    OBVIOUS
  <1>2. CASE InsertAtt(p) /\ h[2] = a /\ db'.att[a] = [creator |-> h[3], memo |-> h[4]]
    <2>1. late' = late \cup (IF h[3] \notin db.users \/ Going(h[4]) THEN {<<"att", h[2]>>} ELSE {})
      BY <1>1, <1>2 DEF InsertAtt, Arg
    <2>2. h[4] = m
      BY <1>2
    <2> QED
      BY <1>2, <2>1, <2>2
  <1>3. CASE Attach(p) /\ h[2] = a /\ AttExists(a) /\ db'.att[a] = [creator |-> db.att[a].creator, memo |-> h[3]]
    <2>1. late' = late \cup (IF AttExists(h[2]) /\ Going(h[3]) THEN {<<"att", h[2]>>} ELSE {})
      BY <1>1, <1>3 DEF Attach, Arg
    <2>2. h[3] = m
      BY <1>3
    <2> QED
      BY <1>3, <2>1, <2>2
  <1> QED
    BY <1>1, <1>2, <1>3, AttOrigin

LEMMA WipedRelations ==
    ASSUME StoreTypeOK, NEW p \in Procs, NEW h, h = Head(proc[p])
    PROVE  /\ Wipe(p) => \A r \in db'.rel : r \in db.rel /\ r[1] # h[2]
           /\ UnrelateTo(p) => \A r \in db'.rel : r \in db.rel /\ r[2] # h[2]
  <1>1. PICK t \in Tables : t = db
    BY DEF StoreTypeOK
  <1>2. ASSUME Wipe(p)
        PROVE  \A r \in db'.rel : r \in db.rel /\ r[1] # h[2]
    <2>1. db' = [t EXCEPT !.rel = {x \in t.rel : x[1] # h[2]}]
      BY <1>1, <1>2 DEF Wipe, Arg
    <2> QED
      BY <1>1, <2>1 DEF Tables
  <1>3. ASSUME UnrelateTo(p)
        PROVE  \A r \in db'.rel : r \in db.rel /\ r[2] # h[2]
    <2>1. db' = [t EXCEPT !.rel = {x \in t.rel : x[2] # h[2]}]
      BY <1>1, <1>3 DEF UnrelateTo, Write, Arg
    <2> QED
      BY <1>1, <2>1 DEF Tables
  <1> QED
    BY <1>2, <1>3

LEMMA DroppedRow ==
    ASSUME StoreTypeOK, NEW p \in Procs, DropAttRow(p), NEW a \in Atts, Head(proc[p])[2] = a
    PROVE  ~AttExists(a)'
  <1>1. PICK t \in Tables : t = db
    BY DEF StoreTypeOK
  <1>2. db' = [t EXCEPT !.att[a] = NoAtt]
    BY <1>1 DEF DropAttRow, Write, Arg
  <1>3. db'.att[a] = NoAtt
    BY <1>2 DEF Tables
  <1> QED
    BY <1>3 DEF AttExists, NoAtt

LEMMA MemoRowStays ==
    ASSUME StoreTypeOK, NEW p \in Procs, Statement(p) \/ StorageFails(p), NEW m \in Memos, MemoRowInv(m),
           NEW more, Replaced(p, more), \A s \in Stmts(more) : Produced(Head(proc[p]), s),
           Wipe(p) => more = <<<<"unrelateTo", Arg(p, 2)>>, <<"listAtts", Arg(p, 2)>>, <<"memoRow", Arg(p, 2)>>>>,
           ListAtts(p) => Stmts(more) = {<<"drop", x>> : x \in AttsOf(Arg(p, 2))},
           Drop(p) => <<"attRow", Arg(p, 2)>> \in Stmts(more)
    PROVE  MemoRowInv(m)'
  <1> SUFFICES ASSUME NEW q \in Procs, NEW k \in DOMAIN proc'[q], Is(proc'[q][k], "memoRow", m)
               PROVE  /\ \A r \in db'.rel : r[1] = m => <<"rel", r>> \in late'
                      /\ \A r \in db'.rel : r[2] = m => <<"rel", r>> \in late' \/ Before(proc'[q], k, "unrelateTo", m)
                      /\ \A a \in Atts : AttExists(a)' /\ db'.att[a].memo = m =>
                           \/ <<"att", a>> \in late'
                           \/ Before(proc'[q], k, "listAtts", m) \/ Before(proc'[q], k, "drop", a)
                           \/ Before(proc'[q], k, "attRow", a)
    BY DEF MemoRowInv, Is
  <1>1. PICK h : h = Head(proc[p])
    OBVIOUS
  <1>2. proc[p] # <<>> /\ 1 \in DOMAIN proc[p] /\ h = proc[p][1]
    BY <1>1, HeadPending DEF Replaced
  <1>3. late \subseteq late'
    BY LateGrows
  <1>4. CASE h[1] = "wipe" /\ h[2] = m /\ q = p /\ k \in DOMAIN more
    <2>1. Wipe(p) /\ h[2] = Arg(p, 2)
      BY <1>1, <1>4, RemovalHead DEF Arg
    <2>2. more = <<<<"unrelateTo", m>>, <<"listAtts", m>>, <<"memoRow", m>>>>
      BY <1>4, <2>1
    <2>3. DOMAIN more = 1 .. 3 /\ more[1] = <<"unrelateTo", m>> /\ more[2] = <<"listAtts", m>>
      BY <2>2
    <2>4. \A j \in 1 .. 3 : proc'[p][j] = more[j]
      BY <2>3, PlanMoves
    <2>5. k = 3
      BY <1>4, <2>3, <2>4 DEF Is
    <2>6. Before(proc'[q], k, "unrelateTo", m) /\ Before(proc'[q], k, "listAtts", m)
      BY <1>4, <2>3, <2>4, <2>5 DEF Before, Is
    <2>7. \A r \in db'.rel : r[1] # m
      BY <1>1, <1>4, <2>1, WipedRelations
    <2> QED
      BY <2>6, <2>7
  <1>5. ASSUME NEW i \in DOMAIN proc[q], Is(proc[q][i], "memoRow", m),
               \/ q # p /\ i = k /\ proc'[q] = proc[q]
               \/ q = p /\ i >= 2 /\ k = i - 1 + Len(more)
        PROVE  /\ \A r \in db'.rel : r[1] = m => <<"rel", r>> \in late'
               /\ \A r \in db'.rel : r[2] = m => <<"rel", r>> \in late' \/ Before(proc'[q], k, "unrelateTo", m)
               /\ \A a \in Atts : AttExists(a)' /\ db'.att[a].memo = m =>
                    \/ <<"att", a>> \in late'
                    \/ Before(proc'[q], k, "listAtts", m) \/ Before(proc'[q], k, "drop", a)
                    \/ Before(proc'[q], k, "attRow", a)
    <2>1. Going(m)
      BY <1>5, StoreAssumption DEF Going, Removing, Is
    <2>2. /\ \A r \in db.rel : r[1] = m => <<"rel", r>> \in late
          /\ \A r \in db.rel : r[2] = m => <<"rel", r>> \in late \/ Before(proc[q], i, "unrelateTo", m)
          /\ \A a \in Atts : AttExists(a) /\ db.att[a].memo = m =>
               \/ <<"att", a>> \in late
               \/ Before(proc[q], i, "listAtts", m) \/ Before(proc[q], i, "drop", a) \/ Before(proc[q], i, "attRow", a)
      BY <1>5 DEF MemoRowInv
    <2>3. ASSUME NEW op, NEW x, Before(proc[q], i, op, x)
          PROVE  Before(proc'[q], k, op, x) \/ (q = p /\ Is(h, op, x))
      <3>1. CASE q # p
        BY <1>5, <2>3, <3>1
      <3>2. CASE q = p
        BY <1>1, <1>5, <2>3, <3>2, FrontMoves
      <3> QED
        BY <3>1, <3>2
    <2>4. ASSUME NEW r \in db'.rel, r[1] = m
          PROVE  <<"rel", r>> \in late'
      BY <1>3, <2>1, <2>2, <2>4, LateRelation
    <2>5. ASSUME NEW r \in db'.rel, r[2] = m
          PROVE  <<"rel", r>> \in late' \/ Before(proc'[q], k, "unrelateTo", m)
      <3>1. CASE Is(h, "unrelateTo", m)
        <4>1. UnrelateTo(p)
          BY <1>1, <3>1, RemovalHead DEF Is
        <4> QED
          BY <1>1, <2>5, <3>1, <4>1, WipedRelations DEF Is
      <3>2. CASE ~Is(h, "unrelateTo", m)
        BY <1>3, <2>1, <2>2, <2>3, <2>5, <3>2, LateRelation
      <3> QED
        BY <3>1, <3>2
    <2>6. ASSUME NEW a \in Atts, AttExists(a)', db'.att[a].memo = m
          PROVE  \/ <<"att", a>> \in late'
                 \/ Before(proc'[q], k, "listAtts", m) \/ Before(proc'[q], k, "drop", a)
                 \/ Before(proc'[q], k, "attRow", a)
      <3>1. CASE <<"att", a>> \in late \/ <<"att", a>> \in late'
        BY <1>3, <3>1
      <3>2. CASE AttExists(a) /\ db.att[a].memo = m /\ <<"att", a>> \notin late
        <4>1. CASE Before(proc[q], i, "listAtts", m) /\ q = p /\ Is(h, "listAtts", m)
          <5>1. ListAtts(p) /\ Arg(p, 2) = m
            BY <1>1, <4>1, RemovalHead DEF Is, Arg
          <5>2. a \in AttsOf(m)
            BY <3>2 DEF AttsOf
          <5>3. PICK s : s = <<"drop", a>>
            OBVIOUS
          <5>4. s \in Stmts(more) /\ Is(s, "drop", a)
            BY <5>1, <5>2, <5>3 DEF Is
          <5>5. Before(proc'[p], k, "drop", a)
            BY <1>5, <4>1, <5>4, FrontMoves
          <5> QED
            BY <4>1, <5>5
        <4>2. CASE Before(proc[q], i, "drop", a) /\ q = p /\ Is(h, "drop", a)
          <5>1. Drop(p) /\ Arg(p, 2) = a
            BY <1>1, <4>2, HeadDecides DEF Is, Arg
          <5>2. PICK s : s = <<"attRow", a>>
            OBVIOUS
          <5>3. s \in Stmts(more) /\ Is(s, "attRow", a)
            BY <5>1, <5>2 DEF Is
          <5>4. Before(proc'[p], k, "attRow", a)
            BY <1>5, <4>2, <5>3, FrontMoves
          <5> QED
            BY <4>2, <5>4
        <4>3. CASE Before(proc[q], i, "attRow", a) /\ q = p /\ Is(h, "attRow", a)
          <5>1. DropAttRow(p)
            BY <1>1, <4>3, HeadDecides DEF Is
          <5> QED
            BY <1>1, <2>6, <4>3, <5>1, DroppedRow DEF Is
        <4> QED
          BY <2>2, <2>3, <3>2, <4>1, <4>2, <4>3
      <3> QED
        BY <2>1, <2>6, <3>1, <3>2, LateAttachment
    <2> QED
      BY <2>4, <2>5, <2>6
  <1>6. CASE q # p
    <2>1. proc'[q] = proc[q]
      BY <1>6, PlanMoves
    <2> QED
      BY <1>5, <1>6, <2>1
  <1>7. CASE q = p
    <2>1. CASE k \in DOMAIN more /\ proc'[p][k] = more[k]
      <3>1. PICK s : s = more[k]
        OBVIOUS
      <3>2. Produced(h, s) /\ s[1] = "memoRow" /\ s[2] = m
        BY <1>1, <1>7, <2>1, <3>1 DEF Stmts, Is
      <3>3. h[1] = "wipe" /\ h[2] = m
        BY <3>2 DEF Produced
      <3> QED
        BY <1>4, <1>7, <2>1, <3>3
    <2>2. ASSUME NEW i \in DOMAIN proc[p], i >= 2, k = i - 1 + Len(more), proc'[p][k] = proc[p][i]
          PROVE  /\ \A r \in db'.rel : r[1] = m => <<"rel", r>> \in late'
                 /\ \A r \in db'.rel : r[2] = m => <<"rel", r>> \in late' \/ Before(proc'[q], k, "unrelateTo", m)
                 /\ \A a \in Atts : AttExists(a)' /\ db'.att[a].memo = m =>
                      \/ <<"att", a>> \in late'
                      \/ Before(proc'[q], k, "listAtts", m) \/ Before(proc'[q], k, "drop", a)
                      \/ Before(proc'[q], k, "attRow", a)
      <3>1. i \in DOMAIN proc[q] /\ Is(proc[q][i], "memoRow", m)
        BY <1>7, <2>2
      <3> QED
        BY <1>5, <1>7, <2>2, <3>1
    <2>3. CameFrom(proc[p], more, proc'[p], k)
      BY <1>7, PlanMoves
    <2> QED
      BY <2>1, <2>2, <2>3 DEF CameFrom
  <1> QED
    BY <1>6, <1>7

\* A memo that is at the head of a plan to be deleted: what points to it is late.
LEMMA LastToGo ==
    ASSUME StoreTypeOK, NEW p \in Procs, DropMemo(p), NEW h, h = Head(proc[p]), NEW m \in Memos, h[2] = m, MemoRowInv(m)
    PROVE  /\ \A r \in db.rel : r[1] = m \/ r[2] = m => <<"rel", r>> \in late
           /\ \A a \in Atts : AttExists(a) /\ db.att[a].memo = m => <<"att", a>> \in late
  <1>1. 1 \in DOMAIN proc[p] /\ h = proc[p][1] /\ h[1] = "memoRow"
    BY HeadPending DEF DropMemo, At
  <1>2. Is(proc[p][1], "memoRow", m)
    BY <1>1 DEF Is
  <1>3. \A op, x : ~Before(proc[p], 1, op, x)
    BY DEF Before
  <1> QED
    BY <1>1, <1>2, <1>3 DEF MemoRowInv

\* The memos of a user go with the user, and with them their comments.
LEMMA OwnInTree ==
    ASSUME NEW u, NEW m \in Memos, db.memo[m] = u
    PROVE  m \in MemoTree(u)
  BY DEF MemoTree

LEMMA DeletedUser ==
    ASSUME StoreTypeOK, NEW p \in Procs, DeleteUserTx(p), NEW u, u = Head(proc[p])[2]
    PROVE  /\ db'.users = db.users \ {u}
           /\ \A r \in db'.rel : r \in db.rel /\ r[1] \notin MemoTree(u) /\ r[2] \notin MemoTree(u)
           /\ \A m \in Memos : db'.memo[m] = IF m \in MemoTree(u) THEN None ELSE db.memo[m]
           /\ \A a \in Atts : AttExists(a)' => /\ AttExists(a) /\ db'.att[a] = db.att[a]
                                               /\ a \notin AttsOfUser(u, MemoTree(u))
           /\ \A r \in db'.reaction \cup db'.share : r \in db.reaction \cup db.share /\ r.by # u
           /\ \A r \in db'.inbox : r \in db.inbox /\ r.by # u /\ r.to # u
           /\ u # None
  <1>1. db' = [users |-> db.users \ {u},
               memo |-> [m \in Memos |-> IF m \in MemoTree(u) THEN None ELSE db.memo[m]],
               rel |-> {r \in db.rel : r[1] \notin MemoTree(u) /\ r[2] \notin MemoTree(u)},
               att |-> [a \in Atts |-> IF a \in AttsOfUser(u, MemoTree(u)) THEN NoAtt ELSE db.att[a]],
               reaction |-> {r \in db.reaction : r.by # u /\ r.memo \notin MemoTree(u)},
               share |-> {r \in db.share : r.by # u /\ r.memo \notin MemoTree(u)},
               inbox |-> {r \in db.inbox : ~TouchesUser(r, u, MemoTree(u))}]
    BY DEF DeleteUserTx, Arg
  <1>2. /\ db'.users = db.users \ {u}
        /\ db'.memo = [m \in Memos |-> IF m \in MemoTree(u) THEN None ELSE db.memo[m]]
        /\ db'.rel = {r \in db.rel : r[1] \notin MemoTree(u) /\ r[2] \notin MemoTree(u)}
        /\ db'.att = [a \in Atts |-> IF a \in AttsOfUser(u, MemoTree(u)) THEN NoAtt ELSE db.att[a]]
        /\ db'.reaction = {r \in db.reaction : r.by # u /\ r.memo \notin MemoTree(u)}
        /\ db'.share = {r \in db.share : r.by # u /\ r.memo \notin MemoTree(u)}
        /\ db'.inbox = {r \in db.inbox : ~TouchesUser(r, u, MemoTree(u))}
    BY <1>1
  <1>3. \A a \in Atts : AttExists(a)' => AttExists(a) /\ db'.att[a] = db.att[a] /\ a \notin AttsOfUser(u, MemoTree(u))
    BY <1>2 DEF AttExists, NoAtt
  <1>4. \A r \in db'.inbox : r \in db.inbox /\ r.by # u /\ r.to # u
    BY <1>2 DEF TouchesUser
  <1>5. u \in Users
    <2>1. proc[p] # <<>> /\ Head(proc[p])[1] = "deleteUser"
      BY DEF DeleteUserTx, At
    <2> QED
      BY <2>1, HeadOK DEF StmtOK
  <1> QED
    BY <1>2, <1>3, <1>4, <1>5, StoreAssumption

\* A memo that is neither deleted nor in the tree of a user who is stays.
LEMMA MemoLives ==
    ASSUME StoreTypeOK, NEW p \in Procs, Statement(p) \/ StorageFails(p), NEW m \in Memos, MemoExists(m),
           NEW h, h = Head(proc[p]), ~(DropMemo(p) /\ h[2] = m), ~DeleteUserTx(p)
    PROVE  MemoExists(m)'
  <1>1. \/ db'.memo[m] = db.memo[m]
        \/ InsertMemo(p) /\ h[2] = m /\ db'.memo[m] = h[3]
        \/ LoadBatch(p) /\ m \in h[3] /\ db'.memo[m] = h[2]
    BY MemoOrigin
  <1>2. CASE db'.memo[m] = db.memo[m]
    BY <1>2 DEF MemoExists
  <1>3. CASE InsertMemo(p) /\ db'.memo[m] = h[3]
    <2>1. proc[p] # <<>> /\ h[1] = "insert"
      BY <1>3 DEF InsertMemo, At
    <2>2. h[3] \in Users
      BY <2>1, HeadOK DEF StmtOK
    <2> QED
      BY <1>3, <2>2, StoreAssumption DEF MemoExists
  <1>4. CASE LoadBatch(p) /\ db'.memo[m] = h[2]
    <2>1. proc[p] # <<>> /\ h[1] = "load"
      BY <1>4 DEF LoadBatch, At
    <2>2. h[2] \in Users
      BY <2>1, HeadOK DEF StmtOK
    <2> QED
      BY <1>4, <2>2, StoreAssumption DEF MemoExists
  <1> QED
    BY <1>1, <1>2, <1>3, <1>4

\* Relations.
LEMMA RelationsRefer ==
    ASSUME StoreTypeOK, DanglingInv, NEW p \in Procs, Statement(p) \/ StorageFails(p), NEW r \in db'.rel
    PROVE  (MemoExists(r[1])' /\ MemoExists(r[2])') \/ <<"rel", r>> \in late'
  <1>1. PICK h : h = Head(proc[p])
    OBVIOUS
  <1>2. \A x \in db.rel : /\ (MemoExists(x[1]) /\ MemoExists(x[2])) \/ <<"rel", x>> \in late
                          /\ x[1] \in Memos /\ x[2] \in Memos
    BY DEF DanglingInv, NoDanglingRow, StoreTypeOK, Tables
  <1>3. late \subseteq late'
    BY LateGrows
  <1>4. CASE Relate(p)
    <2>1. /\ h[2] \in Memos /\ h[3] \in Memos
          /\ db'.rel = db.rel \cup {<<h[2], h[3], h[4]>>}
          /\ db'.memo = db.memo
          /\ late' = late \cup (IF Going(h[2]) \/ Going(h[3]) THEN {<<"rel", <<h[2], h[3], h[4]>>>>} ELSE {})
      BY <1>1, <1>4, RelateEffect
    <2>2. \A m : MemoExists(m)' <=> MemoExists(m)
      BY <2>1 DEF MemoExists
    <2>3. CASE r \in db.rel
      BY <1>2, <1>3, <2>2, <2>3
    <2>4. CASE r = <<h[2], h[3], h[4]>>
      <3>1. r[1] = h[2] /\ r[2] = h[3]
        BY <2>4
      <3>2. CASE Going(h[2]) \/ Going(h[3])
        BY <2>1, <2>4, <3>2
      <3>3. CASE ~Going(h[2]) /\ ~Going(h[3])
        <4>1. MemoExists(h[2]) /\ MemoExists(h[3])
          BY <2>1, <3>3, StoreAssumption DEF Going
        <4> QED
          BY <2>2, <3>1, <4>1
      <3> QED
        BY <3>2, <3>3
    <2> QED
      BY <2>1, <2>3, <2>4
  <1>5. CASE r \in db.rel /\ ~Relate(p)
    <2>1. CASE DropMemo(p) /\ (r[1] = h[2] \/ r[2] = h[2])
      <3>1. PICK m \in Memos : m = h[2]
        BY <1>2, <1>5, <2>1
      <3>2. MemoRowInv(m)
        BY DEF DanglingInv
      <3>3. <<"rel", r>> \in late
        BY <1>1, <1>5, <2>1, <3>1, <3>2, LastToGo
      <3> QED
        BY <1>3, <3>3
    <2>2. CASE DeleteUserTx(p)
      <3>1. PICK u : u = h[2]
        OBVIOUS
      <3>2. r[1] \notin MemoTree(u) /\ r[2] \notin MemoTree(u)
        BY <1>1, <2>2, <3>1, DeletedUser
      <3>3. \A m \in Memos : db'.memo[m] = IF m \in MemoTree(u) THEN None ELSE db.memo[m]
        BY <1>1, <2>2, <3>1, DeletedUser
      <3>4. db'.memo[r[1]] = db.memo[r[1]] /\ db'.memo[r[2]] = db.memo[r[2]]
        BY <1>2, <1>5, <3>2, <3>3
      <3> QED
        BY <1>2, <1>3, <1>5, <3>4 DEF MemoExists
    <2>3. CASE ~(DropMemo(p) /\ (r[1] = h[2] \/ r[2] = h[2])) /\ ~DeleteUserTx(p)
      <3>1. \A m \in Memos : m \in {r[1], r[2]} /\ MemoExists(m) => MemoExists(m)'
        BY <1>1, <2>3, MemoLives
      <3> QED
        BY <1>2, <1>3, <1>5, <3>1
    <2> QED
      BY <2>1, <2>2, <2>3
  <1> QED
    BY <1>4, <1>5, RelationsChange

\* Attachments.
LEMMA AttachmentsRefer ==
    ASSUME StoreTypeOK, DanglingInv, NEW p \in Procs, Statement(p) \/ StorageFails(p), NEW a \in Atts, AttExists(a)'
    PROVE  \/ db'.att[a].creator \in db'.users /\ (db.att[a].memo = None \/ MemoExists(db.att[a].memo))'
           \/ <<"att", a>> \in late'
  <1>1. PICK h : h = Head(proc[p])
    OBVIOUS
  <1>2. AttExists(a) => \/ db.att[a].creator \in db.users /\ (db.att[a].memo = None \/ MemoExists(db.att[a].memo))
                        \/ <<"att", a>> \in late
    BY DEF DanglingInv, NoDanglingRow
  <1>3. db.att[a].memo \in Memos \cup {None} /\ db.users \subseteq Users
    BY DEF StoreTypeOK, Tables, AttRow
  <1>4. late \subseteq late'
    BY LateGrows
  <1>5. CASE AttExists(a) /\ db'.att[a] = db.att[a]
    <2>1. CASE <<"att", a>> \in late
      BY <1>4, <2>1
    <2>2. CASE <<"att", a>> \notin late /\ DeleteUserTx(p)
      <3>1. PICK u : u = h[2]
        OBVIOUS
      <3>2. a \notin AttsOfUser(u, MemoTree(u)) /\ db'.users = db.users \ {u}
        BY <1>1, <2>2, <3>1, DeletedUser
      <3>3. db.att[a].creator # u /\ db.att[a].memo \notin MemoTree(u)
        BY <1>5, <3>2 DEF AttsOfUser
      <3>4. \A m \in Memos : db'.memo[m] = IF m \in MemoTree(u) THEN None ELSE db.memo[m]
        BY <1>1, <2>2, <3>1, DeletedUser
      <3>5. db.att[a].memo # None => db'.memo[db.att[a].memo] = db.memo[db.att[a].memo]
        BY <1>3, <3>3, <3>4
      <3> QED
        BY <1>2, <1>5, <2>2, <3>2, <3>3, <3>5 DEF MemoExists
    <2>3. CASE <<"att", a>> \notin late /\ ~DeleteUserTx(p)
      <3>1. db'.users = db.users
        BY <2>3, UsersStay
      <3>2. CASE db.att[a].memo = None
        BY <1>2, <1>5, <2>3, <3>1, <3>2
      <3>3. CASE db.att[a].memo # None
        <4>1. PICK m \in Memos : m = db.att[a].memo
          BY <1>3, <3>3
        <4>2. MemoExists(m) /\ m # None
          BY <1>2, <1>5, <2>3, <3>3, <4>1
        <4>3. ~(DropMemo(p) /\ h[2] = m)
          <5>1. MemoRowInv(m)
            BY DEF DanglingInv
          <5> QED
            BY <1>1, <1>5, <2>3, <4>1, <5>1, LastToGo
        <4>4. MemoExists(m)'
          BY <1>1, <2>3, <4>2, <4>3, MemoLives
        <4>5. db'.att[a].memo = m /\ db'.att[a].creator \in db'.users
          BY <1>2, <1>5, <2>3, <3>1, <4>1
        <4> QED
          BY <4>4, <4>5
      <3> QED
        BY <3>2, <3>3
    <2> QED
      BY <2>1, <2>2, <2>3
  <1>6. CASE InsertAtt(p) /\ h[2] = a /\ db'.att[a] = [creator |-> h[3], memo |-> h[4]]
    <2>1. late' = late \cup (IF h[3] \notin db.users \/ Going(h[4]) THEN {<<"att", h[2]>>} ELSE {})
      BY <1>1, <1>6 DEF InsertAtt, Arg
    <2>2. h[1] = "attInsert" /\ proc[p] # <<>>
      BY <1>1, <1>6 DEF InsertAtt, At
    <2>3. ~DeleteUserTx(p) /\ ~DropMemo(p)
      BY <1>1, <2>2 DEF DeleteUserTx, DropMemo, At
    <2>4. db'.users = db.users
      BY <2>3, UsersStay
    <2>5. h[4] \in Memos \cup {None}
      BY <1>1, <2>2, HeadOK DEF StmtOK
    <2>6. CASE h[3] \notin db.users \/ Going(h[4])
      BY <1>6, <2>1, <2>6
    <2>7. CASE h[3] \in db.users /\ ~Going(h[4])
      <3>1. h[4] # None => MemoExists(h[4])
        BY <2>7 DEF Going
      <3>2. \A m \in Memos : MemoExists(m) => MemoExists(m)'
        BY <2>3, <1>1, MemoLives
      <3>3. h[4] = None \/ MemoExists(h[4])'
        BY <2>5, <3>1, <3>2
      <3>4. db'.att[a].memo = h[4] /\ db'.att[a].creator = h[3]
        BY <1>6
      <3> QED
        BY <2>4, <2>7, <3>3, <3>4
    <2> QED
      BY <2>6, <2>7
  <1>7. CASE /\ Attach(p) /\ h[2] = a /\ AttExists(a)
             /\ db'.att[a] = [creator |-> db.att[a].creator, memo |-> h[3]]
    <2>1. late' = late \cup (IF AttExists(h[2]) /\ Going(h[3]) THEN {<<"att", h[2]>>} ELSE {})
      BY <1>1, <1>7 DEF Attach, Arg
    <2>2. h[1] = "attach" /\ proc[p] # <<>>
      BY <1>1, <1>7 DEF Attach, At
    <2>3. ~DeleteUserTx(p) /\ ~DropMemo(p)
      BY <1>1, <2>2 DEF DeleteUserTx, DropMemo, At
    <2>4. db'.users = db.users
      BY <2>3, UsersStay
    <2>5. h[3] \in Memos
      BY <1>1, <2>2, HeadOK DEF StmtOK
    <2>6. CASE Going(h[3]) \/ <<"att", a>> \in late
      BY <1>4, <1>7, <2>1, <2>6
    <2>7. CASE ~Going(h[3]) /\ <<"att", a>> \notin late
      <3>1. MemoExists(h[3])
        BY <2>5, <2>7, StoreAssumption DEF Going
      <3>2. MemoExists(h[3])'
        BY <1>1, <2>3, <2>5, <3>1, MemoLives
      <3>3. db'.att[a].memo = h[3] /\ db'.att[a].creator = db.att[a].creator
        BY <1>7
      <3>4. db.att[a].creator \in db.users
        BY <1>2, <1>7, <2>7
      <3> QED
        BY <2>4, <3>2, <3>3, <3>4
    <2> QED
      BY <2>6, <2>7
  <1> QED
    BY <1>1, <1>5, <1>6, <1>7, AttOrigin

\* Memos.
LEMMA MemosRefer ==
    ASSUME StoreTypeOK, ImportInv, DanglingInv, NEW p \in Procs, Statement(p) \/ StorageFails(p),
           NEW m \in Memos, MemoExists(m)'
    PROVE  db'.memo[m] \in db'.users \/ <<"memo", m>> \in late'
  <1>1. PICK h : h = Head(proc[p])
    OBVIOUS
  <1>2. MemoExists(m) => db.memo[m] \in db.users \/ <<"memo", m>> \in late
    BY DEF DanglingInv, NoDanglingRow
  <1>3. late \subseteq late'
    BY LateGrows
  <1>4. CASE db'.memo[m] = db.memo[m]
    <2>1. MemoExists(m)
      BY <1>4 DEF MemoExists
    <2>2. CASE DeleteUserTx(p)
      <3>1. PICK u : u = h[2]
        OBVIOUS
      <3>2. db'.users = db.users \ {u} /\ db'.memo[m] = IF m \in MemoTree(u) THEN None ELSE db.memo[m]
        BY <1>1, <2>2, <3>1, DeletedUser
      <3>3. m \notin MemoTree(u)
        BY <3>2 DEF MemoExists
      <3>4. db.memo[m] # u
        BY <3>3, OwnInTree
      <3> QED
        BY <1>2, <1>3, <1>4, <2>1, <3>2, <3>4
    <2>3. CASE ~DeleteUserTx(p)
      BY <1>2, <1>3, <1>4, <2>1, <2>3, UsersStay
    <2> QED
      BY <2>2, <2>3
  <1>5. CASE InsertMemo(p) /\ h[2] = m /\ db'.memo[m] = h[3]
    <2>1. late' = late \cup (IF h[3] \notin db.users THEN {<<"memo", h[2]>>} ELSE {})
      BY <1>1, <1>5 DEF InsertMemo, Arg
    <2>2. ~DeleteUserTx(p)
      BY <1>5 DEF InsertMemo, DeleteUserTx, At
    <2>3. db'.users = db.users
      BY <2>2, UsersStay
    <2> QED
      BY <1>5, <2>1, <2>3
  <1>6. CASE LoadBatch(p) /\ m \in h[3] /\ db'.memo[m] = h[2]
    <2>1. ~DeleteUserTx(p) /\ proc[p] # <<>> /\ h[1] = "load"
      BY <1>1, <1>6 DEF LoadBatch, DeleteUserTx, At
    <2>2. db'.users = db.users
      BY <2>1, UsersStay
    <2>3. 1 \in DOMAIN proc[p] /\ h = proc[p][1]
      BY <1>1, <2>1, HeadPending
    <2>4. PICK u \in Users, batch \in SUBSET Memos : ImportTail(p, u, batch)
      BY <2>1, <2>3 DEF ImportInv, ImportShape
    <2>5. proc[p] = <<<<"load", u, batch>>>> /\ u \in db.users
      BY <2>1, <2>3, <2>4 DEF ImportTail
    <2>6. h[2] = u
      BY <2>3, <2>5
    <2> QED
      BY <1>6, <2>2, <2>5, <2>6
  <1> QED
    BY <1>1, <1>4, <1>5, <1>6, MemoOrigin DEF MemoExists

\* Reactions, shares and messages.
LEMMA RowsRefer ==
    ASSUME StoreTypeOK, DanglingInv, NEW p \in Procs, Statement(p) \/ StorageFails(p)
    PROVE  /\ \A r \in db'.reaction \cup db'.share : r.by = r.to
           /\ \A r \in db'.reaction \cup db'.share \cup db'.inbox : {r.by, r.to} \subseteq db'.users \/ <<"row", r>> \in late'
  <1>1. PICK h : h = Head(proc[p])
    OBVIOUS
  <1>2. /\ \A r \in db.reaction \cup db.share : r.by = r.to
        /\ \A r \in db.reaction \cup db.share \cup db.inbox : {r.by, r.to} \subseteq db.users \/ <<"row", r>> \in late
    BY DEF DanglingInv, NoDanglingRow
  <1>3. late \subseteq late'
    BY LateGrows
  <1>4. CASE AddRow(p)
    <2>1. proc[p] # <<>> /\ h[1] = "row"
      BY <1>1, <1>4 DEF AddRow, At
    <2>2. h[2] \in {"reaction", "share"} => h[3].by = h[3].to
      BY <1>1, <2>1, HeadOK DEF StmtOK
    <2>3. late' = late \cup (IF h[3].by \in db.users /\ h[3].to \in db.users THEN {} ELSE {<<"row", h[3]>>})
      BY <1>1, <1>4 DEF AddRow, Arg
    <2>4. ~DeleteUserTx(p)
      BY <1>1, <2>1 DEF DeleteUserTx, At
    <2>5. db'.users = db.users
      BY <2>4, UsersStay
    <2>6. /\ \A r \in db'.reaction \cup db'.share \cup db'.inbox :
               r \in db.reaction \cup db.share \cup db.inbox \/ r = h[3]
          /\ \A r \in db'.reaction \cup db'.share :
               r \in db.reaction \cup db.share \/ (r = h[3] /\ h[2] \in {"reaction", "share"})
      <3>1. CASE /\ h[2] \in {"reaction", "share"} /\ db'.inbox = db.inbox
                 /\ db'.reaction \cup db'.share \subseteq db.reaction \cup db.share \cup {h[3]}
        BY <3>1
      <3>2. CASE db'.reaction = db.reaction /\ db'.share = db.share /\ db'.inbox = db.inbox \cup {h[3]}
        BY <3>2
      <3>3. CASE db'.reaction \subseteq db.reaction /\ db'.share \subseteq db.share /\ db'.inbox \subseteq db.inbox
        BY <3>3
      <3> QED
        BY <1>1, <3>1, <3>2, <3>3, RowOrigin
    <2>7. {h[3].by, h[3].to} \subseteq db'.users \/ <<"row", h[3]>> \in late'
      BY <2>3, <2>5
    <2> QED
      BY <1>2, <1>3, <2>2, <2>5, <2>6, <2>7
  <1>5. CASE DeleteUserTx(p)
    <2>1. PICK u : u = h[2]
      OBVIOUS
    <2>2. /\ db'.users = db.users \ {u}
          /\ \A r \in db'.reaction \cup db'.share : r \in db.reaction \cup db.share /\ r.by # u
          /\ \A r \in db'.inbox : r \in db.inbox /\ r.by # u /\ r.to # u
      BY <1>1, <1>5, <2>1, DeletedUser
    <2>3. \A r \in db'.reaction \cup db'.share : r.by = r.to
      BY <1>2, <2>2
    <2>4. \A r \in db'.reaction \cup db'.share \cup db'.inbox :
            r \in db.reaction \cup db.share \cup db.inbox /\ r.by # u /\ r.to # u
      BY <2>2, <2>3
    <2> QED
      BY <1>2, <1>3, <2>2, <2>3, <2>4
  <1>6. CASE ~AddRow(p) /\ ~DeleteUserTx(p)
    <2>1. db'.users = db.users
      BY <1>6, UsersStay
    <2>2. db'.reaction \subseteq db.reaction /\ db'.share \subseteq db.share /\ db'.inbox \subseteq db.inbox
      BY <1>1, <1>6, RowOrigin
    <2> QED
      BY <1>2, <1>3, <2>1, <2>2
  <1> QED
    BY <1>4, <1>5, <1>6

\* What a statement puts in front, in the detail the removals need.
LEMMA RemovalPlan ==
    ASSUME StoreTypeOK, NEW p \in Procs, Statement(p) \/ StorageFails(p), ~Ends(p)
    PROVE  \E more :
             /\ Replaced(p, more) /\ \A s \in Stmts(more) : Produced(Head(proc[p]), s)
             /\ Wipe(p) => more = <<<<"unrelateTo", Arg(p, 2)>>, <<"listAtts", Arg(p, 2)>>, <<"memoRow", Arg(p, 2)>>>>
             /\ ListAtts(p) => Stmts(more) = {<<"drop", x>> : x \in AttsOf(Arg(p, 2))}
             /\ Drop(p) => <<"attRow", Arg(p, 2)>> \in Stmts(more)
  <1>1. ~(Wipe(p) /\ ListAtts(p)) /\ ~(Wipe(p) /\ Drop(p)) /\ ~(ListAtts(p) /\ Drop(p))
    BY DEF Wipe, ListAtts, Drop, At
  <1>2. CASE Wipe(p)
    BY <1>1, <1>2, WipePlan
  <1>3. CASE ListAtts(p)
    BY <1>1, <1>3, ListAttsPlan
  <1>4. CASE Drop(p)
    <2>1. PICK more : /\ more = <<<<"file", Arg(p, 2)>>, <<"attRow", Arg(p, 2)>>>>
                      /\ Replaced(p, more)
                      /\ \A s \in Stmts(more) : Produced(Head(proc[p]), s)
      BY <1>4, DropPlan
    <2>2. <<"attRow", Arg(p, 2)>> \in Stmts(more)
      BY <2>1, LiteralPlans
    <2> QED
      BY <1>1, <1>4, <2>1, <2>2
  <1>5. CASE ~Wipe(p) /\ ~ListAtts(p) /\ ~Drop(p)
    BY <1>5, StatementMoves
  <1> QED
    BY <1>2, <1>3, <1>4, <1>5

\* A step that leaves the tables alone and begins no deletion of a row.
LEMMA DanglingLeftAlone ==
    ASSUME DanglingInv, UNCHANGED <<db, late>>,
           \A q \in Procs : \/ proc'[q] = proc[q]
                            \/ \A k \in DOMAIN proc'[q] : proc'[q][k][1] # "memoRow"
    PROVE  DanglingInv'
  <1>1. ASSUME NEW m \in Memos
        PROVE  MemoRowInv(m)'
    <2>1. MemoRowInv(m)
      BY DEF DanglingInv
    <2>2. ASSUME NEW q \in Procs, NEW k \in DOMAIN proc'[q], Is(proc'[q][k], "memoRow", m)
          PROVE  proc'[q] = proc[q]
      BY <2>2 DEF Is
    <2> QED
      BY <2>1, <2>2 DEF MemoRowInv, AttExists, Is
  <1>2. NoDanglingRow'
    BY DEF DanglingInv, NoDanglingRow, MemoExists, AttExists
  <1>3. \A r \in db'.reaction \cup db'.share : r.by = r.to
    BY DEF DanglingInv
  <1> QED
    BY <1>1, <1>2, <1>3 DEF DanglingInv

LEMMA DanglingStep ==
    ASSUME StoreTypeOK, ImportInv, DanglingInv, [StoreNext]_storeVars
    PROVE  DanglingInv'
  <1>1. ASSUME NEW p \in Procs, Statement(p) \/ StorageFails(p)
        PROVE  DanglingInv'
    <2>1. CASE Ends(p)
      <3>1. Abort(p) /\ UNCHANGED <<db, late>>
        BY <2>1 DEF Ends, Refuse
      <3>2. \A q \in Procs : proc'[q] = proc[q] \/ proc'[q] = <<>>
        BY <3>1 DEF Abort, StoreTypeOK
      <3> QED
        BY <3>1, <3>2, DanglingLeftAlone
    <2>2. CASE ~Ends(p)
      <3>1. PICK more :
              /\ Replaced(p, more) /\ \A s \in Stmts(more) : Produced(Head(proc[p]), s)
              /\ Wipe(p) => more = <<<<"unrelateTo", Arg(p, 2)>>, <<"listAtts", Arg(p, 2)>>, <<"memoRow", Arg(p, 2)>>>>
              /\ ListAtts(p) => Stmts(more) = {<<"drop", x>> : x \in AttsOf(Arg(p, 2))}
              /\ Drop(p) => <<"attRow", Arg(p, 2)>> \in Stmts(more)
        BY <1>1, <2>2, RemovalPlan
      <3>2. ASSUME NEW m \in Memos
            PROVE  MemoRowInv(m)'
        <4>1. MemoRowInv(m)
          BY DEF DanglingInv
        <4> QED
          BY <1>1, <3>1, <4>1, MemoRowStays
      <3>3. \A r \in db'.rel : (MemoExists(r[1])' /\ MemoExists(r[2])') \/ <<"rel", r>> \in late'
        BY <1>1, RelationsRefer
      <3>4. \A a \in Atts : AttExists(a)' =>
              \/ db'.att[a].creator \in db'.users /\ (db.att[a].memo = None \/ MemoExists(db.att[a].memo))'
              \/ <<"att", a>> \in late'
        BY <1>1, AttachmentsRefer
      <3>5. \A m \in Memos : MemoExists(m)' => db'.memo[m] \in db'.users \/ <<"memo", m>> \in late'
        BY <1>1, MemosRefer
      <3>6. /\ \A r \in db'.reaction \cup db'.share : r.by = r.to
            /\ \A r \in db'.reaction \cup db'.share \cup db'.inbox : {r.by, r.to} \subseteq db'.users \/ <<"row", r>> \in late'
        BY <1>1, RowsRefer
      <3>7. NoDanglingRow'
        BY <3>3, <3>4, <3>5, <3>6 DEF NoDanglingRow
      <3> QED
        BY <3>2, <3>6, <3>7 DEF DanglingInv
    <2> QED
      BY <2>1, <2>2
  <1>2. ASSUME NEW p \in Procs, StatementFails(p)
        PROVE  DanglingInv'
    <2>1. Abort(p) /\ UNCHANGED <<db, late>>
      BY <1>2 DEF StatementFails
    <2>2. \A q \in Procs : proc'[q] = proc[q] \/ proc'[q] = <<>>
      BY <2>1 DEF Abort, StoreTypeOK
    <2> QED
      BY <2>1, <2>2, DanglingLeftAlone
  <1>3. ASSUME NEW p \in Procs, NEW u \in db.users, Request(p, u)
        PROVE  DanglingInv'
    <2>1. PICK ids, ops : Begun(p, u, ids, ops)
      BY <1>3, RequestBegins
    <2>2. proc[p] = <<>> /\ proc'[p] = ops /\ \A q \in Procs : q # p => proc'[q] = proc[q]
      BY <2>1, BegunPlans
    <2>3. ASSUME NEW k \in DOMAIN ops
          PROVE  ops[k][1] # "memoRow"
      <3>1. CASE Plain(ops[k])
        BY <3>1 DEF Plain, PlainOps
      <3>2. CASE FreshStmt(u, ids, ops, k)
        BY <3>2 DEF FreshStmt
      <3>3. ASSUME NEW a \in Atts, NEW m \in Memos \cup {None}, ops = <<<<"upload", a>>, <<"attInsert", a, u, m>>>>
            PROVE  ops[k][1] # "memoRow"
        BY <3>3
      <3>4. ASSUME NEW batch \in SUBSET Memos, ops = <<<<"lock", u>>, <<"empty", u>>, <<"load", u, batch>>>>
            PROVE  ops[k][1] # "memoRow"
        BY <3>4
      <3> QED
        BY <2>1, <3>1, <3>2, <3>3, <3>4, OpeningStatements DEF Begun
    <2>4. UNCHANGED <<db, late>>
      BY <2>1 DEF Begun
    <2> QED
      BY <2>2, <2>3, <2>4, DanglingLeftAlone
  <1>4. ASSUME Crash
        PROVE  DanglingInv'
    <2>1. UNCHANGED <<db, late>> /\ \A q \in Procs : proc'[q] = <<>>
      BY <1>4 DEF Crash
    <2> QED
      BY <2>1, DanglingLeftAlone
  <1>5. CASE UNCHANGED storeVars
    <2>1. UNCHANGED <<db, late, proc>>
      BY <1>5 DEF storeVars
    <2> QED
      BY <2>1, DanglingLeftAlone
  <1> QED
    BY <1>1, <1>2, <1>3, <1>4, <1>5 DEF StoreNext

LEMMA DanglingInit == StoreInit => DanglingInv
  <1> SUFFICES ASSUME StoreInit PROVE DanglingInv
    OBVIOUS
  <1>1. \A p \in Procs : proc[p] = <<>>
    BY DEF StoreInit
  <1>0. PICK memo \in [Memos -> Users \cup {None}], parent \in [Memos -> Memos \cup {None}],
             att \in [Atts -> {NoAtt} \cup [creator : Users, memo : Memos \cup {None}]] : Holds(memo, parent, att)
    BY DEF StoreInit
  <1>2. db.users = Users /\ db.reaction = {} /\ db.share = {}
    BY <1>0 DEF Holds
  <1>3. db \in Tables
    BY TypeInit DEF StoreTypeOK
  <1>4. \A r \in db.rel : MemoExists(r[1]) /\ MemoExists(r[2])
    <2>1. /\ \A m \in Memos : parent[m] # None => memo[m] # None /\ memo[parent[m]] # None
          /\ db.memo = memo /\ db.rel = {<<m, parent[m], "COMMENT">> : m \in {m \in Memos : parent[m] # None}}
          /\ parentOf = parent
      BY <1>0 DEF Holds
    <2> QED
      BY <2>1 DEF MemoExists
  <1>5. \A a \in Atts : AttExists(a) => /\ db.att[a].creator \in db.users
                                        /\ db.att[a].memo = None \/ MemoExists(db.att[a].memo)
    <2>1. /\ \A a \in Atts : att[a].memo # None => memo[att[a].memo] # None
          /\ db.memo = memo
          /\ db.att = att
      BY <1>0 DEF Holds
    <2> QED
      BY <1>2, <2>1 DEF MemoExists, AttExists, NoAtt
  <1>6. \A m \in Memos : MemoExists(m) => db.memo[m] \in db.users
    BY <1>2, <1>3 DEF MemoExists, Tables
  <1>7. \A r \in db.inbox : {r.by, r.to} \subseteq db.users
    BY <1>2, <1>3 DEF Tables, AnyRow
  <1>8. NoDanglingRow
    BY <1>2, <1>4, <1>5, <1>6, <1>7 DEF NoDanglingRow
  <1> QED
    BY <1>1, <1>2, <1>8 DEF DanglingInv, MemoRowInv

\* Deleting memos, attachments and users leaves no row that points to what is
\* gone, but for those a request wrote when their target was gone or going.
THEOREM NoRowDangles == StoreSpec => []NoDanglingRow
  <1>1. StoreInit => StoreTypeOK /\ ImportInv /\ DanglingInv
    BY TypeInit, ImportInit, DanglingInit
  <1>2. StoreTypeOK /\ ImportInv /\ DanglingInv /\ [StoreNext]_storeVars => StoreTypeOK' /\ ImportInv' /\ DanglingInv'
    BY TypeStep, ImportStep, DanglingStep
  <1>3. DanglingInv => NoDanglingRow
    BY DEF DanglingInv
  <1> QED
    BY <1>1, <1>2, <1>3, PTL DEF StoreSpec

=============================================================================
