---------------------------- MODULE SessionTable ----------------------------
(***************************************************************************)
(* The sessions table as the exports see it.  A session's row is inserted  *)
(* when the session ends, with its start time; the bridge fills in the     *)
(* class of an ssh session later (Bridge models that worker).  Telnet      *)
(* sessions are never enriched.  Time is counted in chunks of an export.   *)
(***************************************************************************)
EXTENDS Integers, FiniteSets

CONSTANTS
    Sessions,      \* session ids
    Id,            \* Id[s]: the place of s in the order of session_id
    Start,         \* Start[s]: start_ms
    Protocol,      \* Protocol[s]: "ssh" or "telnet"
    WeekLen,       \* chunks in a week
    Lag,           \* lag_ms: how long after its end a week is complete
    MaxTime        \* bound: the clock stops here

ASSUME TableAssumption ==
    /\ IsFiniteSet(Sessions)
    /\ MaxTime \in Nat /\ WeekLen \in Nat \ {0} /\ Lag \in Nat
    /\ Start \in [Sessions -> 0 .. MaxTime]
    /\ Id \in [Sessions -> Nat]
    /\ \A s, t \in Sessions : Id[s] = Id[t] => s = t
    /\ Protocol \in [Sessions -> {"ssh", "telnet"}]

VARIABLES
    now,           \* the clock
    Rows,          \* the sessions whose row is committed
    late,          \* those of them saved after the lag of their week
    classified     \* the sessions whose attacker_class is set

tableVars == <<now, Rows, late, classified>>

WeekOf(t) == (t \div WeekLen) + 1
EndOf(w) == w * WeekLen

TableType ==
    /\ now \in 0 .. MaxTime
    /\ Rows \subseteq Sessions /\ late \subseteq Rows
    /\ classified \subseteq {s \in Rows : Protocol[s] = "ssh"}

TableInit ==
    /\ now = 0
    /\ Rows = {} /\ late = {}
    /\ classified = {}

\* A session ends and is saved.
Insert(s) ==
    /\ s \notin Rows
    /\ Start[s] <= now
    /\ Rows' = Rows \cup {s}
    /\ late' = IF now >= EndOf(WeekOf(Start[s])) + Lag THEN late \cup {s} ELSE late
    /\ UNCHANGED <<now, classified>>

\* The bridge gives an ssh session its verdict.
Classify(s) ==
    /\ s \in Rows \ classified
    /\ Protocol[s] = "ssh"
    /\ classified' = classified \cup {s}
    /\ UNCHANGED <<now, Rows, late>>

Tick ==
    /\ now < MaxTime
    /\ now' = now + 1
    /\ UNCHANGED <<Rows, late, classified>>

TableStep == Tick \/ \E s \in Sessions : Insert(s) \/ Classify(s)

=============================================================================
