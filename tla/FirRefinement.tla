---------------------------- MODULE FirRefinement ----------------------------
(***************************************************************************)
(* FirStream, the engine clocked by a well-behaved master, implements      *)
(* FirSpec: the coefficients are the contents of the coefficient RAM, a    *)
(* run lasts as long as the FSM is not in IDLE, and a sum is delivered by  *)
(* the edge that raises sm_tvalid.                                         *)
(***************************************************************************)
EXTENDS FirInvariant

Filter == INSTANCE FirSpec WITH
            running <- ps # "IDLE", coefs <- tapRAM, samples <- xs, sums <- ys

\* Every clock edge, and every reset, is one step of the filter or none: one
\* sample taken, one sum delivered, one coefficient changed outside a run.
ImplementsFilter == Filter!FilterSpec

\* A filter that answers what it has accepted.
ImplementsFairFilter == Filter!FairFilterSpec
=============================================================================
