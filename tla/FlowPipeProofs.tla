--------------------------- MODULE FlowPipeProofs ---------------------------
(***************************************************************************)
(* What an implementation of FlowPipe promises.                            *)
(***************************************************************************)
EXTENDS FlowPipe, Integers, TLAPS

\* Room that is left only grows when bytes are taken out.
LEMMA MoreRoom ==
    ASSUME NEW s \in Nat, NEW g \in Nat, NEW h \in Nat, NEW c \in Nat,
           g < h, s <= g + c
    PROVE  s <= h + c
OBVIOUS

\* The pipe never holds more than its capacity, nothing comes out that did not go
\* in, and an unbroken end of stream means that everything arrived: the promise
\* the relays of both agents make through the refinement.
THEOREM PipePromise ==
    ASSUME Capacity \in Nat
    PROVE  Spec => []PipeInv
<1>1. Init => PipeInv
  BY DEF Init, PipeInv
<1>2. PipeInv /\ [Next]_pipeVars => PipeInv'
  <2> SUFFICES ASSUME PipeInv, [Next]_pipeVars PROVE PipeInv'
    OBVIOUS
  <2>1. CASE Put
    BY <2>1 DEF Put, PipeInv
  <2>2. CASE Take
    <3>0. ~eof'
      BY <2>2 DEF Take
    <3>1. /\ sent' = sent /\ got' \in Nat /\ got' > got /\ got' <= sent
          /\ sent \in Nat /\ got \in Nat
      BY <2>2 DEF Take, PipeInv
    <3>2. ASSUME Bounded PROVE sent' <= got' + Capacity
      <4>1. sent <= got + Capacity
        BY <3>2 DEF PipeInv
      <4>2. sent <= got' + Capacity
        BY <3>1, <4>1, MoreRoom
      <4> QED
        BY <3>1, <4>2
    <3> QED
      BY <3>0, <3>1, <3>2 DEF PipeInv
  <2>3. CASE Fin
    BY <2>3 DEF Fin, PipeInv
  <2>4. CASE Eof
    BY <2>4 DEF Eof, PipeInv
  <2>5. CASE Break
    BY <2>5 DEF Break, PipeInv
  <2>6. CASE UNCHANGED pipeVars
    BY <2>6 DEF pipeVars, PipeInv
  <2> QED
    BY <2>1, <2>2, <2>3, <2>4, <2>5, <2>6 DEF Next
<1> QED
  BY <1>1, <1>2, PTL DEF Spec
=============================================================================
