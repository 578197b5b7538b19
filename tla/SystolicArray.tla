----------------------------- MODULE SystolicArray -----------------------------
(***************************************************************************)
(* src/systolic_array.v and src/pe_fp16.v: an N x N mesh of processing     *)
(* elements.  Operands of A enter on the left and move right, operands of  *)
(* B enter on top and move down, and every element accumulates its own     *)
(* entry of the product; in the drain phase the accumulators travel to the *)
(* right on the wires of A.                                                *)
(*                                                                         *)
(* Mac(a, b, acc) is the combinational unit of src/fp16_mac.v: multiply a  *)
(* and b, add the product to acc.                                          *)
(***************************************************************************)
EXTENDS AccelParams

CONSTANT Mac(_, _, _)

VARIABLES a_out, b_out, c_reg   \* x[i][j]: the register of element (i, j)

arrayVars == <<a_out, b_out, c_reg>>

EmptyMesh == [i \in Lane |-> [j \in Lane |-> 0]]

\* The wires a_wire[i][j] and b_wire[i][j] into element (i, j).
AIn(a_left, i, j) == IF j = 0 THEN a_left[i] ELSE a_out[i][j - 1]
BIn(b_top, i, j) == IF i = 0 THEN b_top[j] ELSE b_out[i - 1][j]

\* The right border, a_wire[i][N]: a register, not an input of this edge.
c_right_out(i) == a_out[i][N - 1]

ArrayInit == a_out = EmptyMesh /\ b_out = EmptyMesh /\ c_reg = EmptyMesh

\* rst_n low, and also the synchronous clr.
ArrayClear == a_out' = EmptyMesh /\ b_out' = EmptyMesh /\ c_reg' = EmptyMesh

\* One clock edge: clr wins over en, and drain_en selects the direction in
\* which a_out and c_reg are loaded.
ArrayEdge(clr, en, drain_en, a_left, b_top) ==
  \/ clr /\ ArrayClear
  \/ ~clr /\ ~en /\ UNCHANGED arrayVars
  \/ /\ ~clr /\ en
     /\ b_out' = [i \in Lane |-> [j \in Lane |-> BIn(b_top, i, j)]]
     /\ \/ /\ drain_en
           /\ a_out' = c_reg
           /\ c_reg' = [i \in Lane |-> [j \in Lane |-> AIn(a_left, i, j)]]
        \/ /\ ~drain_en
           /\ a_out' = [i \in Lane |-> [j \in Lane |-> AIn(a_left, i, j)]]
           /\ c_reg' = [i \in Lane |-> [j \in Lane |->
                          Mac(AIn(a_left, i, j), BIn(b_top, i, j), c_reg[i][j])]]

-----------------------------------------------------------------------------
ArrayTypeOK ==
  \A mesh \in {a_out, b_out, c_reg} : mesh \in [Lane -> [Lane -> Word]]
=============================================================================
