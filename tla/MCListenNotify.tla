--------------------------- MODULE MCListenNotify ---------------------------
(***************************************************************************)
(* ListenNotify for TLC: connections, channels and payloads are each       *)
(* interchangeable.                                                        *)
(***************************************************************************)
EXTENDS ListenNotify

Symmetry == Permutations(Conns) \cup Permutations(Channels) \cup Permutations(Payloads)
=============================================================================
