------------------------------ MODULE AvatarJobs ------------------------------
(***************************************************************************)
(* What the avatar maker promises its callers (avatar/README.md, "How it   *)
(* behaves"): "One avatar is made at a time, and up to 3 more wait in      *)
(* line", jobs start in the order they were accepted, and a name that is   *)
(* being made is not accepted again.  No worker, no wake-up flag, no       *)
(* folders: AvatarMaker is shown to implement this.                        *)
(*                                                                         *)
(* Jobs are numbered in the order they are accepted, so three numbers and  *)
(* the accepted names tell everything: job i has ended iff i <= ended, is  *)
(* being made iff ended < i <= started, and waits iff i > started.         *)
(***************************************************************************)
EXTENDS Naturals, Sequences

CONSTANTS
    Names,      \* the avatar names callers use
    MaxQueue    \* how many jobs may wait in line

VARIABLES
    accepted,   \* the names of the accepted jobs, in order
    started,    \* how many of them have been started
    ended       \* how many of them have ended, done or failed

vars == <<accepted, started, ended>>

\* The names that are waiting or being made.
ActiveNames == {accepted[i] : i \in (ended + 1)..Len(accepted)}

Init == accepted = <<>> /\ started = 0 /\ ended = 0

Accept(n) ==
    /\ Len(accepted) - started < MaxQueue
    /\ n \notin ActiveNames
    /\ accepted' = Append(accepted, n)
    /\ UNCHANGED <<started, ended>>

Start ==
    /\ started = ended
    /\ started < Len(accepted)
    /\ started' = started + 1
    /\ UNCHANGED <<accepted, ended>>

End ==
    /\ ended < started
    /\ ended' = ended + 1
    /\ UNCHANGED <<accepted, started>>

Next == (\E n \in Names : Accept(n)) \/ Start \/ End

Spec == Init /\ [][Next]_vars
=============================================================================
