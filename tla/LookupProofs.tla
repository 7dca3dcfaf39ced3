---------------------------- MODULE LookupProofs ----------------------------
(***************************************************************************)
(* The theorem about MCCloneLookup, for every bound on the times and every *)
(* order and tolerance of the interpolation: what TLC sees of small clone  *)
(* maps is so of all of them.  CloneLookupProofs has the argument.         *)
(***************************************************************************)
EXTENDS MCCloneLookup, CloneLookupProofs

\* Clone maps and requests are as they were enumerated.
Enumerated == map \in SUBSET (0 .. LastTime) /\ request \in 0 .. LastTime

\* bounding_poses_n returns neighbours evenly around the request, for every clone map.
THEOREM BoundingPosesAreAround == Spec => []PolynomialAround
<1>1. Init => Enumerated
  BY DEF Init, Enumerated
<1>2. Enumerated /\ [Next]_vars => Enumerated'
  BY DEF Enumerated, Next, Ask, vars
<1>3. Enumerated => PolynomialAround
  <2> SUFFICES ASSUME Enumerated PROVE PolynomialAround
    OBVIOUS
  <2>1. 0 .. LastTime \in SUBSET Int /\ IsFiniteSet(0 .. LastTime)
    BY BoundsAreNatural, FS_Interval
  <2>2. map \in SUBSET Int /\ IsFiniteSet(map) /\ request \in Int
    BY <2>1, FS_Subset DEF Enumerated
  <2>3. Order \in Nat /\ Order % 2 = 1 /\ DtExp \in Nat
    BY OrderIsOdd, BoundsAreNatural
  <2> QED BY <2>2, <2>3, BoundingSpread DEF PolynomialAround
<1> QED BY <1>1, <1>2, <1>3, PTL DEF Spec
=============================================================================
