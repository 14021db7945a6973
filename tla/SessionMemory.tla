---------------------------- MODULE SessionMemory ----------------------------
(***************************************************************************)
(* What the policy service promises about the running counters of a live   *)
(* session: each session is counted by itself, one command at a time, and  *)
(* is forgotten after TTL of its own silence, whatever the other sessions  *)
(* do.  A restart of the service forgets everything.                       *)
(***************************************************************************)
EXTENDS Integers

CONSTANTS Sessions, Kinds, TTL

VARIABLES now, mem

Fresh == [step |-> 0, commands |-> 0, bait |-> 0, seen |-> {}, last |-> 0]

Fold(m, cat, bait) ==
    [step     |-> m.step + 1,
     commands |-> m.commands + 1,
     bait     |-> m.bait + (IF bait THEN 1 ELSE 0),
     seen     |-> m.seen \union {cat},
     last     |-> now]

Init == now = 0 /\ mem = [s \in Sessions |-> Fresh]

Tick == /\ now' = now + 1
        /\ mem' = [s \in Sessions |-> IF now' - mem[s].last > TTL THEN Fresh ELSE mem[s]]

Count(s, cat, bait) == mem' = [mem EXCEPT ![s] = Fold(@, cat, bait)] /\ UNCHANGED now

Forget == mem' = [s \in Sessions |-> Fresh] /\ UNCHANGED now

Next == \/ Tick \/ Forget
        \/ \E s \in Sessions, cat \in Kinds, bait \in BOOLEAN : Count(s, cat, bait)

Spec == Init /\ [][Next]_<<now, mem>>
=============================================================================
