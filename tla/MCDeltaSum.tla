----------------------------- MODULE MCDeltaSum -----------------------------
(* DeltaSumSignal on small numbers. *)
EXTENDS DeltaSumSignal

MCChange == {-1, 0, 1, 2}
=============================================================================
