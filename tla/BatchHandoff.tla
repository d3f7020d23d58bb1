---------------------------- MODULE BatchHandoff ----------------------------
(***************************************************************************)
(* What the submit seam promises its users, whatever the rings, the drop   *)
(* accounting and the control words look like: batches are offered one at  *)
(* a time in increasing sequence order, each only after the one before it  *)
(* was answered or knowingly given up, and answers never go back.          *)
(***************************************************************************)
EXTENDS Naturals

CONSTANT Batches   \* the sequence numbers a batch can carry, naturals, 0 among them

VARIABLES
  offered,    \* the batch in the doorbell
  answered,   \* the batch in the acknowledgement
  givenUp     \* the batches the host stopped waiting for

handoffVars == <<offered, answered, givenUp>>

HandoffInit == offered = 0 /\ answered = 0 /\ givenUp = {}

\* The batch in the doorbell no longer belongs to the fabric.
Settled == answered = offered \/ offered \in givenUp

Offer ==
  /\ Settled
  /\ \E b \in Batches : b > offered /\ offered' = b
  /\ UNCHANGED <<answered, givenUp>>

\* A batch that was given up may still be answered, late.
Answer ==
  /\ \E b \in {offered} \union givenUp : b > answered /\ answered' = b
  /\ UNCHANGED <<offered, givenUp>>

GiveUp ==
  /\ answered # offered
  /\ givenUp' = givenUp \union {offered}
  /\ UNCHANGED <<offered, answered>>

HandoffNext == Offer \/ Answer \/ GiveUp

HandoffSpec == HandoffInit /\ [][HandoffNext]_handoffVars

=============================================================================
