---------------------------- MODULE MCCollectors ----------------------------
(***************************************************************************)
(* Servers that do all of it, and servers that lack one thing or the other.*)
(***************************************************************************)
EXTENDS Collectors, TLC

MCServer == {[liststart |-> TRUE, masks |-> TRUE, token |-> TRUE],
             [liststart |-> FALSE, masks |-> FALSE, token |-> FALSE]}

MCSymmetry == Permutations(Channel)
=============================================================================
