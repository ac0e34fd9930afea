-------------------------------- MODULE Rows --------------------------------
(***************************************************************************)
(* Dropping rows from a list, as SftpBrowserTab does when finished items   *)
(* are cleared and selected ones removed.                                  *)
(***************************************************************************)
EXTENDS Naturals, Sequences

\* kept is q without the rows outside keep, in the same order: f lists the rows
\* of keep upwards.
Kept(q, keep, kept) ==
  \E n \in 0..Len(q) : \E f \in [1..n -> keep] :
    /\ \A k \in keep : \E m \in 1..n : f[m] = k
    /\ \A m \in 1..n-1 : f[m] < f[m+1]
    /\ kept = [m \in 1..n |-> q[f[m]]]

=============================================================================
