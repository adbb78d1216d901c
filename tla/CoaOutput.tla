------------------------------ MODULE CoaOutput ------------------------------
(***************************************************************************)
(* What the script promises about its output, whatever happens inside a   *)
(* run: the file comprehensive-coa.json is only ever created empty or     *)
(* extended with the next chunk of the one document D, and success is     *)
(* announced only while the file holds all of D.  A new run may start at   *)
(* any time after an announcement.                                         *)
(*                                                                          *)
(* CoaMain implements this specification (CoaMain!OutputSpec): file maps  *)
(* to the file, said to "the current run has printed something".          *)
(***************************************************************************)
EXTENDS Naturals, Sequences

CONSTANTS
    D,          \* the document json.dump writes, as a sequence of chunks
    None        \* the file does not exist

VARIABLES
    file,       \* the file's content, or None
    said        \* the current run has announced success

outVars == <<file, said>>

OutInit ==
    /\ file = None
    /\ said = FALSE

\* A run opens the file for writing: it is created or emptied.
Truncate ==
    /\ ~said
    /\ file' = <<>>
    /\ UNCHANGED said

\* The next chunk of D is written.
Grow ==
    /\ file # None
    /\ Len(file) < Len(D)
    /\ file' = Append(file, D[Len(file) + 1])
    /\ UNCHANGED said

\* Success is announced over the complete file.
Announce ==
    /\ file = D
    /\ ~said
    /\ said' = TRUE
    /\ UNCHANGED file

\* The script is started again.
NewRun ==
    /\ said
    /\ said' = FALSE
    /\ UNCHANGED file

OutNext == Truncate \/ Grow \/ Announce \/ NewRun

OutSpec == OutInit /\ [][OutNext]_outVars

=============================================================================
