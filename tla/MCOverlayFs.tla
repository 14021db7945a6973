---------------------------- MODULE MCOverlayFs ----------------------------
(* Instances of OverlayFs for TLC. *)
EXTENDS OverlayFs, TLC

CONSTANTS a, b, x, y

\* /a is a directory of the base.  It has a file no listing shows, a/a, and hidden
\* bait that is listed, a/b.
MCBaseFs ==
    <<>> :> [dir |-> TRUE, children |-> {a}, hidden |-> FALSE, content |-> {}]
    @@ <<a>> :> [dir |-> TRUE, children |-> {b}, hidden |-> FALSE, content |-> {}]
    @@ <<a, a>> :> [dir |-> FALSE, children |-> {}, hidden |-> FALSE, content |-> {x}]
    @@ <<a, b>> :> [dir |-> FALSE, children |-> {}, hidden |-> TRUE, content |-> {x}]

=============================================================================
