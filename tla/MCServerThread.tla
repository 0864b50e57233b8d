--------------------------- MODULE MCServerThread ---------------------------
(***************************************************************************)
(* Lengths for model checking ServerThread: below the two headers, at them *)
(* and above, at the limits of startup packets and messages, and beyond.   *)
(***************************************************************************)
EXTENDS ServerThread

MCLengths == {-1, 3, 4, 7, 8, 16, 17, 18}
=============================================================================
