--------------------------- MODULE MCConverterRows ---------------------------
(* Instances of ConverterRows for TLC: sizes around the widths of the      *)
(* vector blocks, odd and even.                                            *)
EXTENDS ConverterRows

=============================================================================
