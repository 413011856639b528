------------------------- MODULE MCDatabaseMigrator --------------------------
(***************************************************************************)
(* Two databases stand for the three: the auth database, which both servers *)
(* migrate and which holds the bookkeeping, and the world database.  Each   *)
(* has an init script, which stands for all of its list, and two migrations, *)
(* 2_*.sql and 10_*.sql, whose names sort the other way round.  The first of *)
(* auth's inserts rows; the first of world's does so into a table it drops   *)
(* and creates before, as 71 does.                                           *)
(***************************************************************************)
EXTENDS DatabaseMigrator

CONSTANTS auth, world, authdb, worlddb, ai, a2, a10, wi, w2, w10

MCTargets == [s \in Server |-> IF s = auth THEN <<authdb>> ELSE <<authdb, worlddb>>]
MCTargetOf == [f \in File |-> IF f \in {ai, a2, a10} THEN authdb ELSE worlddb]
MCNumber ==
  [f \in File |-> CASE f \in {a2, w2} -> 2 [] f \in {a10, w10} -> 10
                    [] f = wi -> 5 [] OTHER -> 1]
MCNameRank ==
  [f \in File |-> CASE f \in {a2, w2} -> 4 [] f \in {a10, w10} -> 3
                    [] f = wi -> 2 [] OTHER -> 1]
MCOnceOnly == [f \in File |-> CASE f = a2 -> {1} [] f = w2 -> {2} [] OTHER -> {}]
=============================================================================
