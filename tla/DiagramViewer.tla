------------------------------ MODULE DiagramViewer ------------------------------
(***************************************************************************)
(* Tools/diagram_design.py, VIEWER_JS: zooming and panning a diagram in the *)
(* chat by its viewBox.  One dimension, the other is alike: the diagram is  *)
(* Width units wide, drawn over two steps of the screen, and scales are the *)
(* powers of two up to 8, so that every quotient is whole.  Buttons, keys   *)
(* and the wheel, which zoom by small factors, double or halve.             *)
(***************************************************************************)
EXTENDS Integers, FiniteSets, FiniteSetsExt

CONSTANTS Fingers

Width == 32
MaxScale == 8
Screen == 0..2   \* where a finger may be, in steps

VARIABLES
    v,      \* the scale and the left end of what is seen
    pts,    \* fingers that are down -> where
    last,   \* where the finger that drags was, -1 without one
    pinch,  \* of two fingers: their distance, the scale and the middle as they began
    active  \* the wheel zooms

vars == <<v, pts, last, pinch, active>>

NoPinch == [d |-> 0]

Init ==
    /\ v = [s |-> 1, x |-> 0]
    /\ pts = [f \in {} |-> 0] /\ last = -1 /\ pinch = NoPinch
    /\ active = FALSE

Clip(x, lo, hi) == IF x < lo THEN lo ELSE IF x > hi THEN hi ELSE x
Seen(s) == Width \div s

\* A plausible bug: zooming out forgets to bring the view back into the diagram.
Unclamped(s, x) == [s |-> s, x |-> x]
Applied(s, x) == [s |-> s, x |-> Clip(x, 0, Width - Seen(s))]

\* zoomTo(), about the point at so many quarters of the view.
Zoomed(scale, quarters) ==
    LET s == Clip(scale, 1, MaxScale)
    IN Applied(s, v.x + (quarters * (Seen(v.s) - Seen(s))) \div 4)

Zoom(scale, quarters) == v' = Zoomed(scale, quarters) /\ UNCHANGED <<pts, last, pinch, active>>
Button(scale) == Zoom(scale, 2)
Wheel(scale, at, ctrl) == (active \/ ctrl) /\ Zoom(scale, 2 * at)
DoubleClick(at) == IF v.s > 1 THEN Zoom(1, 2) ELSE Zoom(2, 2 * at)

Down == DOMAIN pts
\* Two pointers on one spot, for which a move would divide by a distance of 0, are left
\* out.
Free(at) == \A f \in Down : pts[f] # at
Positions(points) == {points[f] : f \in DOMAIN points}
Apart(points) == Max(Positions(points)) - Min(Positions(points))

Press(f, at) ==
    /\ f \notin Down /\ Free(at)
    /\ pts' = [g \in Down \cup {f} |-> IF g = f THEN at ELSE pts[g]]
    /\ active' = TRUE
    /\ last' = IF Down = {} THEN at ELSE last
    /\ pinch' = IF Cardinality(Down) = 1
                THEN [d |-> Apart(pts'), s |-> v.s,
                      quarters |-> Max(Positions(pts')) + Min(Positions(pts'))]
                ELSE pinch
    /\ UNCHANGED v

\* Of three fingers none moves the view.
Move(f, at) ==
    /\ f \in Down /\ \A g \in Down \ {f} : pts[g] # at
    /\ pts' = [pts EXCEPT ![f] = at]
    /\ CASE Cardinality(Down) = 2 /\ pinch # NoPinch ->
              /\ v' = Zoomed((pinch.s * Apart(pts')) \div pinch.d, pinch.quarters)
              /\ UNCHANGED last
         [] Cardinality(Down) = 1 /\ last >= 0 ->
              /\ v' = Applied(v.s, v.x - ((at - last) * Seen(v.s)) \div 2)
              /\ last' = at
         [] OTHER -> UNCHANGED <<v, last>>
    /\ UNCHANGED <<pinch, active>>

\* A plausible bug: the finger that is left goes on from where the first one was.
FromTheFirst(left) == last
\* The finger that is left goes on from where it is.
GoesOnFrom(left) == pts[left]

\* end(), of a finger that is lifted or lost
Lift(f) ==
    /\ f \in Down
    /\ pts' = [g \in Down \ {f} |-> pts[g]]
    /\ pinch' = IF Cardinality(DOMAIN pts') < 2 THEN NoPinch ELSE pinch
    /\ \/ DOMAIN pts' = {} /\ last' = -1
       \/ Cardinality(DOMAIN pts') > 1 /\ UNCHANGED last
       \/ \E left \in DOMAIN pts' : Cardinality(DOMAIN pts') = 1 /\ last' = GoesOnFrom(left)
    /\ UNCHANGED <<v, active>>

\* The pointer leaves, or the focus goes elsewhere.
Leave == active /\ active' = FALSE /\ UNCHANGED <<v, pts, last, pinch>>

Next ==
    \/ Leave
    \/ \E scale \in {v.s \div 2, v.s * 2, 1} :
          Button(scale) \/ \E at \in Screen, ctrl \in BOOLEAN : Wheel(scale, at, ctrl)
    \/ \E at \in Screen : DoubleClick(at) \/ \E f \in Fingers : Press(f, at) \/ Move(f, at)
    \/ \E f \in Fingers : Lift(f)

-----------------------------------------------------------------------------
(* Properties *)

\* zoomTo(), apply(): in any mixture of fingers, wheel, keys and buttons what is seen
\* lies inside the diagram, and a drag never moves it further than the finger went,
\* whichever fingers were lifted before.
ViewStaysInside ==
    /\ v.s \in {1, 2, 4, 8} /\ v.x \in 0..Width - Seen(v.s)
    /\ Cardinality(Down) = 1 => \A f \in Down : last = pts[f]
===============================================================================
