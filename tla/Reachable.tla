------------------------------ MODULE Reachable ------------------------------
(***************************************************************************)
(* The search of a graph: from the nodes of a set, one node after the      *)
(* other that a node already reached refers to, until there is no other.   *)
(* What the walks over the types and fragments used promise.               *)
(***************************************************************************)
EXTENDS Naturals

VARIABLES
  root,     \* the nodes the search begins with
  refs,     \* the nodes that every node refers to
  reached,  \* the nodes it has reached
  done      \* whether it has ended

vars == <<root, refs, reached, done>>

Referred == root \cup UNION {refs[n] : n \in reached}

Init == reached = {} /\ done = FALSE

\* The graph is settled when the search begins.
Settle ==
  /\ reached = {} /\ ~done
  /\ reached' = {} /\ done' = FALSE

Reach ==
  /\ ~done
  /\ \E n \in Referred \ reached : reached' = reached \cup {n}
  /\ UNCHANGED <<root, refs, done>>

Finish ==
  /\ ~done /\ Referred \subseteq reached
  /\ done' = TRUE
  /\ UNCHANGED <<root, refs, reached>>

Next == Settle \/ Reach \/ Finish

Spec == Init /\ [][Next]_vars

\* It reaches nothing but what it has to: every set that has the roots and what its
\* members refer to has all that was reached.
HoldsTheGraph(S) == root \subseteq S /\ \A n \in S : refs[n] \subseteq S
Sound == \A S : HoldsTheGraph(S) => reached \subseteq S

\* The first N + 1 nodes of p are a path from a root; the nodes that paths lead to.
IsPath(p, N) == p[0] \in root /\ \A k \in 1 .. N : p[k] \in refs[p[k - 1]]
LedTo(n) == \E N \in Nat : \E p : IsPath(p, N) /\ p[N] = n
==============================================================================
