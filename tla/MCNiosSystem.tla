----------------------------- MODULE MCNiosSystem -----------------------------
(***************************************************************************)
(* The system at its real size, N = 3, with the matrices of                *)
(* src/Software/matrix_accel_SW/source.c, lines 23-34.                     *)
(***************************************************************************)
EXTENDS NiosFp16

Rows(entries) == [c \in Cell |-> entries[c + 1]]

\*  1.50 2.50 -0.50,  1.00 0.25 -1.25,  3.00 0.00 1.00
MCMatrixA == Rows(<<15872, 16640, 47104,  15360, 13312, 48384,
                    16896, 0, 15360>>)

\*  0.50 1.50 -2.00,  1.00 2.50 -0.50,  1.25 2.00 -1.00
MCMatrixB == Rows(<<14336, 15872, 49152,  15360, 16640, 47104,
                    15616, 16384, 48128>>)

\* These matrices are among those of which exactness is proved.
ASSUME MatricesAreSmall == SmallMatrices
=============================================================================
