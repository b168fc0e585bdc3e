------------------------------ MODULE MCUsers ------------------------------
(***************************************************************************)
(* Two tabs of one browser with up to three refresh tokens, and the        *)
(* accounts of the server.  The two share no state: a behaviour is one of  *)
(* one of them, while the other rests.                                     *)
(***************************************************************************)
EXTENDS Sessions, Accounts, TLC

VARIABLE focus

SharedJar == [t \in Tabs |-> CHOOSE j \in Jars : TRUE]

\* Handlers and Procs, Uids and Items, Externs and Tabs are the same model values,
\* which are permuted together.
SessionSymmetry == Permutations(Procs) \cup Permutations(Items) \cup Permutations(Tabs)

UsersInit ==
  /\ focus \in {"sessions", "accounts"}
  /\ SessionInit
  /\ AccountInit
  /\ focus # "accounts" => used = {}

UsersNext ==
  \/ focus = "sessions" /\ SessionNext /\ UNCHANGED <<focus, accountVars>>
  \/ focus = "accounts" /\ AccountNext /\ UNCHANGED <<focus, allVars>>

UsersSpec == UsersInit /\ [][UsersNext]_<<focus, allVars, accountVars>>
=============================================================================
