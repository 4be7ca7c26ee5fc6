------------------------ MODULE MC_CliSessionService ------------------------
EXTENDS CliSessionServiceProps, TLC

Symmetry == Permutations(Call)
=============================================================================
