----------------------------- MODULE MCAtaDisk -----------------------------
(* An instance of AtaDisk for TLC: blocks whose addresses use the three     *)
(* lowest address ports.                                                    *)
EXTENDS AtaDisk

CONSTANTS w0, w1

MCBlocks == 5 .. 6
MCWords  == {w0, w1}

=============================================================================
