----------------------------- MODULE ByteStream -----------------------------
(***************************************************************************)
(* What a connection promises its reader: the bytes of the other side,     *)
(* once each and in order, and the end only after the last one.  A byte is *)
(* named by its position in the stream.                                    *)
(***************************************************************************)
EXTENDS Naturals

CONSTANT Limit     \* the most bytes one read returns

VARIABLES sent,    \* how many bytes the other side has sent
          got,     \* how many of them, counted from the first, were read
          over     \* has a read reported the end?

vars == <<sent, got, over>>

Init == sent = 0 /\ got = 0 /\ over = FALSE

Arrive == /\ ~over
          /\ sent' > sent
          /\ UNCHANGED <<got, over>>

(* A read takes bytes that are there, or the first ones of those arriving. *)
Take(n) == /\ ~over
           /\ got + n <= sent
           /\ got' = got + n
           /\ UNCHANGED <<sent, over>>

Pass(n) == /\ ~over
           /\ got = sent
           /\ got' = got + n
           /\ sent' >= got'
           /\ UNCHANGED over

End == /\ ~over
       /\ got = sent
       /\ over' = TRUE
       /\ UNCHANGED <<sent, got>>

Next == Arrive \/ End \/ \E n \in 1 .. Limit : Take(n) \/ Pass(n)

Spec == Init /\ [][Next]_vars /\ WF_vars(\E n \in 1 .. Limit : Take(n))
=============================================================================
