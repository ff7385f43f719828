----------------------------- MODULE MCChannels -----------------------------
(***************************************************************************)
(* Two servers: one with operators and voices, where "q" is a list, and    *)
(* one with owners ("q") and operators, where "l" is a setting.            *)
(***************************************************************************)
EXTENDS Channels, TLC

Plain == [types |-> [o |-> "b", v |-> "b", q |-> "a"], ranks |-> <<"o", "v">>]
Owned == [types |-> [q |-> "b", o |-> "b", l |-> "c"], ranks |-> <<"q", "o">>]
MCProfile == {Plain, Owned}

MCSymmetry == Permutations(Nick) \cup Permutations(Channel)
=============================================================================
