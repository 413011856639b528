----------------------------- MODULE MCRealmLink -----------------------------
(***************************************************************************)
(* Two worlds that claim the same realm, the first with two connection      *)
(* slots: a new one may be in use while the auth server still has the old.  *)
(***************************************************************************)
EXTENDS RealmLink

CONSTANTS w1, w2, a1, a2, b1

MCRealmOf == [w \in World |-> CHOOSE r \in Realm : TRUE]
MCOwner == [k \in Conn |-> IF k \in {a1, a2} THEN w1 ELSE w2]
=============================================================================
