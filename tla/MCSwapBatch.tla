----------------------------- MODULE MCSwapBatch -----------------------------
(***************************************************************************)
(* Streams of up to five objects, of sizes that fill a batch exactly, leave *)
(* too little for a header, or do not fit at all.                          *)
(***************************************************************************)
EXTENDS SwapBatch

MCStreams == UNION {[1..n -> {1, 2, 4, 5}] : n \in 0..5}
=============================================================================
