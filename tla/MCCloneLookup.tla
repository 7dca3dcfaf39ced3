---------------------------- MODULE MCCloneLookup ----------------------------
(***************************************************************************)
(* Every clone map and requested time up to a bound, put through the       *)
(* searches of CloneLookup and compared with what State.h says of them.    *)
(***************************************************************************)
EXTENDS CloneLookup

CONSTANTS
    LastTime,   \* clone times and requests range over 0 .. LastTime
    Order,      \* op->intr_order, odd
    DtExp       \* op->dt_exp

ASSUME OrderIsOdd == Order \in Nat /\ (Order + 1) % 2 = 0
ASSUME BoundsAreNatural == LastTime \in Nat /\ DtExp \in Nat

VARIABLES map, request
vars == <<map, request>>

Init == map \in SUBSET (0 .. LastTime) /\ request \in 0 .. LastTime

\* The next request, over the same map.
Ask == request' \in 0 .. LastTime /\ UNCHANGED map
Next == Ask
Spec == Init /\ [][Next]_vars

\* Whatever clones there are and whatever time is asked for, bounding_poses_n returns poses
\* around it, as State.h says.
PolynomialAround == SpreadAround(map, Order, request, DtExp)

\* "clone time closest to t_given but not IMU"
ClosestIsClosest ==
    \A c \in ClosestNotImu(map, request) : \A d \in map : Gap(c, request) <= Gap(d, request)
=============================================================================
