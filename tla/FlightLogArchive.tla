-------------------------- MODULE FlightLogArchive --------------------------
(***************************************************************************)
(* The message board with a copy of it that survives the process.  A step  *)
(* may bring the copy up to date, all of it at once, or leave it behind;   *)
(* when the process ends, the board goes back to what the copy is.         *)
(***************************************************************************)
EXTENDS FlightLogBoard

VARIABLE kept      \* the board as a restart finds it

board == [members |-> members, author |-> author, removed |-> removed, hidden |-> hidden,
          answer |-> answer, liked |-> liked]

ArchiveInit == BoardInit /\ kept = board

Work == [BoardNext]_boardVars /\ kept' \in {kept, board'}

GoBack == board' = kept /\ UNCHANGED kept

ArchiveNext == Work \/ GoBack

ArchiveSpec == ArchiveInit /\ [][ArchiveNext]_<<boardVars, kept>>
=============================================================================
