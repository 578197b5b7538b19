------------------------------ MODULE SkewBuffer ------------------------------
(***************************************************************************)
(* src/skew_buffer.v: two sets of shift registers that hold lane i back by *)
(* i enabled edges, one set for the rows of A and one for the columns of   *)
(* B.  Lane 0 is a wire and has no register.  The registers shift only     *)
(* while en is high and are cleared by the reset alone: the START pulse    *)
(* that clears the processing elements does not reach them.                *)
(***************************************************************************)
EXTENDS AccelParams

VARIABLES delay_a, delay_b   \* delay_x[i][k]: stage k of lane i, k < i

skewVars == <<delay_a, delay_b>>

DelayedLane == 1 .. N - 1

EmptyDelay == [i \in DelayedLane |-> [k \in 0 .. i - 1 |-> 0]]

\* Variant: the lanes are not held back.
Unskewed(delay, in, i) == in[i]

\* What leaves lane i: its input for lane 0, its last stage for the others.
Skewed(delay, in, i) == IF i = 0 THEN in[0] ELSE delay[i][i - 1]

Shifted(delay, in) ==
  [i \in DelayedLane |->
     [k \in 0 .. i - 1 |-> IF k = 0 THEN in[i] ELSE delay[i][k - 1]]]

SkewInit == delay_a = EmptyDelay /\ delay_b = EmptyDelay

SkewReset == delay_a' = EmptyDelay /\ delay_b' = EmptyDelay

SkewEdge(en, a_in, b_in) ==
  /\ delay_a' = IF en THEN Shifted(delay_a, a_in) ELSE delay_a
  /\ delay_b' = IF en THEN Shifted(delay_b, b_in) ELSE delay_b

-----------------------------------------------------------------------------
SkewTypeOK ==
  \A delay \in {delay_a, delay_b} :
    /\ DOMAIN delay = DelayedLane
    /\ \A i \in DelayedLane : delay[i] \in [0 .. i - 1 -> Word]
=============================================================================
