------------------------------ MODULE FlowPipe ------------------------------
(***************************************************************************)
(* What one direction of a tunnelled connection promises the two           *)
(* applications: a byte pipe of bounded capacity.  Bytes come out in the   *)
(* order they went in; the reading application sees the end of the stream  *)
(* only after all of them, unless the writing end was reset.               *)
(***************************************************************************)
EXTENDS Naturals

CONSTANTS Capacity,  \* most bytes between the two applications
          Bounded    \* whether the capacity is enforced (both ends have credits)

VARIABLES sent,    \* bytes the sender put in
          got,     \* bytes the receiver got out
          fin,     \* the sender ended its output
          eof,     \* the receiver saw the end of the stream
          broken   \* the sending end was reset

pipeVars == <<sent, got, fin, eof, broken>>

Init == sent = 0 /\ got = 0 /\ fin = FALSE /\ eof = FALSE /\ broken = FALSE

Put == /\ ~fin
       /\ sent' \in Nat /\ sent' > sent
       /\ Bounded => sent' <= got + Capacity
       /\ UNCHANGED <<got, fin, eof, broken>>

Take == /\ ~eof
        /\ got' \in Nat /\ got' > got
        /\ got' <= sent
        /\ UNCHANGED <<sent, fin, eof, broken>>

Fin == /\ ~fin /\ fin' = TRUE
       /\ UNCHANGED <<sent, got, eof, broken>>

Eof == /\ ~eof /\ eof' = TRUE
       /\ broken \/ (fin /\ got = sent)
       /\ UNCHANGED <<sent, got, fin, broken>>

Break == /\ ~broken /\ broken' = TRUE
         /\ UNCHANGED <<sent, got, fin, eof>>

Next == Put \/ Take \/ Fin \/ Eof \/ Break

Spec == Init /\ [][Next]_pipeVars

(* The pipe never holds more than its capacity, and an unbroken end of stream
   means that everything arrived. *)
PipeInv ==
    /\ sent \in Nat /\ got \in Nat
    /\ got <= sent
    /\ Bounded => sent <= got + Capacity
    /\ eof /\ ~broken => fin /\ got = sent
=============================================================================
