------------------------------ MODULE MCQuestLog ------------------------------
(***************************************************************************)
(* Four quests of two creatures over a log of two lines: a, whose reward      *)
(* opens b; b, taken by looking at it; c, which completes itself and can be   *)
(* taken while a is on; d, which nothing stands before.                       *)
(***************************************************************************)
EXTENDS QuestLog
CONSTANTS s1, s2, a, b, c, d, m, n

Giver4 == [q \in Quest |-> IF q = b THEN n ELSE m]
Ender4 == [q \in Quest |-> IF q = a THEN n ELSE m]
Free == [quest |-> NoQuest, rewarded |-> TRUE]
Previous4 ==
  [q \in Quest |-> CASE q = b -> [quest |-> a, rewarded |-> TRUE]
                     [] q = c -> [quest |-> a, rewarded |-> FALSE]
                     [] OTHER -> Free]
=============================================================================
