------------------------------ MODULE FirSpec ------------------------------
(***************************************************************************)
(* What the FIR engine of fir.v promises its user: coefficients are loaded *)
(* while it rests; in a run every sample is answered, in order, by one sum *)
(* of the coefficients with the newest samples; the run ends some time     *)
(* after the sum of the sample marked as the last.  No ports, no clock, no *)
(* ring and no pipeline.                                                   *)
(***************************************************************************)
EXTENDS Integers, Sequences

CONSTANTS TapNum, Word, MaxLen

VARIABLES running,   \* a run is in progress
          coefs,     \* the coefficients
          samples,   \* the samples of this run
          sums,      \* the sums delivered in this run
          ended      \* the last sample of this run was marked

specVars == <<running, coefs, samples, sums, ended>>

Products == IF Len(samples) < TapNum THEN Len(samples) ELSE TapNum - 1

\* The sum that answers the newest sample: the first sample of a run adds
\* nothing, the others as many products as there are, TapNum - 1 at most.
Sum == IF Len(samples) = 1 THEN <<>>
       ELSE [i \in 1..Products |-> <<coefs[i - 1], samples[Len(samples) - i + 1]>>]

Ready == Len(sums) = Len(samples) /\ ~ended

LoadOne == \E i \in DOMAIN coefs, w \in Word : coefs' = [coefs EXCEPT ![i] = w]

Load ==
    /\ ~running
    /\ LoadOne
    /\ UNCHANGED <<running, samples, sums, ended>>

\* A coefficient that was on its way arrives together with the start.
Start ==
    /\ ~running
    /\ running' = TRUE
    /\ LoadOne \/ UNCHANGED coefs
    /\ samples' = <<>> /\ sums' = <<>> /\ ended' = FALSE

Accept ==
    /\ running /\ Ready /\ Len(samples) < MaxLen
    /\ \E w \in Word : samples' = Append(samples, w)
    /\ ended' \in BOOLEAN
    /\ UNCHANGED <<running, coefs, sums>>

Deliver ==
    /\ running /\ Len(sums) < Len(samples)
    /\ sums' = Append(sums, Sum)
    /\ UNCHANGED <<running, coefs, samples, ended>>

Finish ==
    /\ running /\ ended /\ Len(sums) = Len(samples)
    /\ running' = FALSE
    /\ UNCHANGED <<coefs, samples, sums, ended>>

\* Reset keeps the coefficients.
Abandon ==
    /\ running' = FALSE /\ samples' = <<>> /\ sums' = <<>> /\ ended' = FALSE
    /\ UNCHANGED coefs

SpecInit ==
    /\ ~running /\ samples = <<>> /\ sums = <<>> /\ ended = FALSE
    /\ DOMAIN coefs = 0..(TapNum - 1)

SpecNext == Load \/ Start \/ Accept \/ Deliver \/ Finish \/ Abandon

FilterSpec == SpecInit /\ [][SpecNext]_specVars

\* A sample accepted is answered, or the run abandoned.
FairFilterSpec == FilterSpec /\ WF_specVars(Deliver)
=============================================================================
