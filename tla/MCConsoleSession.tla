-------------------------- MODULE MCConsoleSession --------------------------
(* Two tabs of one browser and a few tokens.                               *)
EXTENDS ConsoleSession, TLC

CONSTANTS t1, t2

TabSymmetry == Permutations({t1, t2})

=============================================================================
