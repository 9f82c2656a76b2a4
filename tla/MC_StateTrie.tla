---------------------------- MODULE MC_StateTrie ----------------------------
(* Addresses of 3 bits, two account values, two blocks of up to three updates.                  *)
EXTENDS StateTrie

MCGod == <<0, 1, 1>>
====
