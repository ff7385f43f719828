----------------------------- MODULE MCEmitter ------------------------------
(* The multi event and the subscriptions that TLC takes: one event, both   *)
(* of them as a multi event, and a list that names one of them twice.      *)
EXTENDS Emitter, TLC

CONSTANTS a, b, both

Both == both :> <<a, b>>
Names == {<<a>>, <<both>>, <<b, both>>}
=============================================================================
