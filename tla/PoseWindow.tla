----------------------------- MODULE PoseWindow -----------------------------
(***************************************************************************)
(* What the sliding window promises to the updaters, whatever the sensors  *)
(* send and however their messages interleave: the state's time only moves *)
(* forward; a clone enters one at a time, ahead of the others and at a     *)
(* distance from them; with it the window is closed, and who falls behind  *)
(* leaves or is held as a keyframe; keyframes are let go all at once.      *)
(* SlidingWindow implements it.                                            *)
(***************************************************************************)
EXTENDS Integers

CONSTANTS
    Window,         \* length of the window
    Periods         \* the clone periods that may be asked for

VARIABLES
    initialized,    \* the state has a time
    stateTime,      \* that time
    clones,         \* times of the poses of the window, keyframes included
    keyframes       \* poses held beyond the window

promisedVars == <<initialized, stateTime, clones, keyframes>>

Init == initialized = FALSE /\ stateTime = -1 /\ clones = {} /\ keyframes = {}

\* Far enough from every pose of S for some period.
Apart(t, S) == \A c \in S : \E p \in Periods : 10 * (t - c) >= 9 * p

\* Poses the window has left behind once its newest pose is at t.
Behind(S, t) == {c \in S : t - c > Window}

\* The state moves on without a new pose.
Move ==
    /\ initialized /\ initialized'
    /\ stateTime' > stateTime
    /\ UNCHANGED <<clones, keyframes>>

\* A pose enters at t; what it leaves behind goes, but for the poses held as keyframes.
Clone(t) ==
    LET left == Behind(clones \cup {t}, t) \ keyframes
    IN  /\ t \notin clones /\ \A c \in clones : c < t
        /\ Apart(t, clones)
        /\ initialized' /\ t <= stateTime'
        /\ initialized => stateTime <= t /\ stateTime < stateTime'
        /\ keyframes \subseteq keyframes' /\ keyframes' \subseteq keyframes \cup left
        /\ clones' = (clones \cup {t}) \ (left \ keyframes')

\* The keyframes have served: the window is closed at the state's time.
LetGo ==
    /\ keyframes # {} /\ keyframes' = {}
    /\ clones' = clones \ Behind(clones, stateTime)
    /\ UNCHANGED <<initialized, stateTime>>

Next == Move \/ (\E t \in clones' : Clone(t)) \/ LetGo

Spec == Init /\ [][Next]_promisedVars
=============================================================================
