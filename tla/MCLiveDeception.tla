--------------------------- MODULE MCLiveDeception ---------------------------
(* An instance of LiveDeception for TLC. *)
EXTENDS LiveDeception, TLC

CONSTANTS c1, c2, c3, s1, s2

\* A connection with two channels and one with a channel.
MCSessionOf == c1 :> s1 @@ c2 :> s1 @@ c3 :> s2

=============================================================================
