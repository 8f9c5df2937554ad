-------------------------------- MODULE Rally --------------------------------
(***************************************************************************)
(* What the ping-pong of lab 03 promises: the two cores take turns, the    *)
(* host numbers its shots without a gap, and the only way out of the       *)
(* rally is to lose the ball for good.                                     *)
(***************************************************************************)
EXTENDS Naturals

CONSTANT Modulus  (* sequence numbers are counted modulo this               *)
VARIABLES
  turn,  (* "m55" or "m4" has the ball, or the rally is "over"              *)
  shot   (* the number of the host's latest shot                            *)

Init == turn = "m55" /\ shot = 0

HostShot == turn = "m55" /\ turn' = "m4" /\ shot' = (shot + 1) % Modulus
Return == turn = "m4" /\ turn' = "m55" /\ UNCHANGED shot
\* A ball lost on its way to M4 still counts as a shot of the host.
Miss == turn # "over" /\ turn' = "over" /\ UNCHANGED shot
WideShot == turn = "m55" /\ turn' = "over" /\ shot' = (shot + 1) % Modulus

Next == HostShot \/ Return \/ Miss \/ WideShot

Spec == Init /\ [][Next]_<<turn, shot>>
=============================================================================
