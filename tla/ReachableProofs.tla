--------------------------- MODULE ReachableProofs ---------------------------
(***************************************************************************)
(* What every search that implements Reachable has found at any time.      *)
(***************************************************************************)
EXTENDS Reachable, TLAPS

\* At no time has a search found anything the roots do not lead to.
THEOREM SearchIsSound == Spec => []Sound
  <1>1. Init => Sound
    BY DEF Init, Sound
  <1>2. Sound /\ [Next]_vars => Sound'
    <2> SUFFICES ASSUME Sound, [Next]_vars, NEW S, HoldsTheGraph(S)'
                 PROVE  reached' \subseteq S
      BY DEF Sound
    <2>1. CASE Settle
      BY <2>1 DEF Settle
    <2>2. CASE Reach
      <3>1. HoldsTheGraph(S)
        BY <2>2 DEF Reach, HoldsTheGraph
      <3>2. reached \subseteq S
        BY <3>1 DEF Sound
      <3>3. Referred \subseteq S
        BY <3>1, <3>2 DEF Referred, HoldsTheGraph
      <3> QED
        BY <2>2, <3>2, <3>3 DEF Reach
    <2>3. CASE Finish \/ UNCHANGED vars
      <3>1. HoldsTheGraph(S) /\ reached' = reached
        BY <2>3 DEF Finish, vars, HoldsTheGraph
      <3> QED
        BY <3>1 DEF Sound
    <2> QED
      BY <2>1, <2>2, <2>3 DEF Next
  <1> QED
    BY <1>1, <1>2, PTL DEF Spec
=============================================================================
