--------------------------- MODULE MCTransactions ---------------------------
(***************************************************************************)
(* Transactions for TLC.  The configurations give the sets; settings and   *)
(* channels are interchangeable, and so are values, payloads and names.    *)
(***************************************************************************)
EXTENDS Transactions

Symmetry == Permutations(Values) \cup Permutations(Channels)
            \cup Permutations(Payloads) \cup Permutations(Names)
=============================================================================
