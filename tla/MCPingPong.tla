----------------------------- MODULE MCPingPong -----------------------------
(***************************************************************************)
(* PingPong for TLC: seq wraps after a few pings instead of 2^32, so that  *)
(* the rally is endless and its state space finite.                        *)
(***************************************************************************)
EXTENDS PingPong

ASSUME RoomForASecondBall == Slots >= 2 /\ Depth >= 2
=============================================================================
