--------------------------- MODULE MCGuestCommands ---------------------------
(***************************************************************************)
(* Small instances of GuestCommands for TLC.                               *)
(***************************************************************************)
EXTENDS GuestCommands, TLC

\* No safety property names a process or a file command.
CallerSymmetry == Permutations(Process) \cup Permutations(File)

\* Bound of the run about the lanes: it ends where the VM begins to shut down.
WhileLive == vm = "live"
=============================================================================
