-------------------------- MODULE MCMemoryCommands --------------------------
(***************************************************************************)
(* Values for model checking MemoryCommands: four pages of four units, two *)
(* to a ptrace word.  The first page is never mapped, the second can be    *)
(* read and written, the third can be reached with ptrace only, and the    *)
(* fourth is not there.                                                    *)
(***************************************************************************)
EXTENDS MemoryCommands

MCUnits == {0} \cup 4 .. 12
MCMapped == 4 .. 11
MCOpen == 4 .. 7
MCShared == {6, 8}

=============================================================================
