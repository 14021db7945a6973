---------------------------- MODULE LiveDeception ----------------------------
(***************************************************************************)
(* A sensor's channels asking the deception policy service about every     *)
(* command (applyDeception in server.go, Client.Decide in client.go) and   *)
(* the service answering (serve.py, live.py): HTTP requests that may be    *)
(* slow, lost, handled after the client gave up or after the channel's     *)
(* next request, per-session trackers behind one lock with a time to live, *)
(* two runtime flags that change between any two steps of a channel.       *)
(***************************************************************************)
EXTENDS DeceptionEnv

CONSTANTS Channels, Sessions,
          SessionOf,     \* the session a channel belongs to
          Commands,      \* commands tried, as the sets of rules that match them
          BaitKinds,     \* categories whose command also looks like bait access
          Answers,       \* the actions the loaded policy chooses from
          TTL,           \* session_ttl_seconds
          MaxTime, MaxCommands   \* bounds of the exploration

ASSUME LiveAssumption ==
    /\ SessionOf \in [Channels -> Sessions]
    /\ Commands \subseteq SUBSET Categories /\ Answers \subseteq DeceptionAction
    /\ {TTL, MaxTime, MaxCommands} \subseteq Nat

VARIABLES
    now,
    trackers,   \* LiveDeceptionEngine._sessions
    pending,    \* requests the service has not handled yet
    chan,       \* a channel's command, at its step of applyDeception
    flags,      \* Runtime.PolicyEnabled and Runtime.ApplyActions
    shadow,     \* per tracker, a DeceptionEnv episode fed the same commands
    commands    \* commands begun; numbers the requests

vars == <<now, trackers, pending, chan, flags, shadow, commands>>

NoAction == ""

Rules == <<"exfil", "read_sensitive", "escalate", "download">>

\* categorize_live_command: the first rule that matches, "recon" for none.
Categorize(m) ==
    LET hits == {i \in DOMAIN Rules : Rules[i] \in m}
    IN  IF hits = {} THEN "recon" ELSE Rules[CHOOSE i \in hits : \A j \in hits : i <= j]

Kinds == {Categorize(m) : m \in Commands}

Idle == [pc |-> "idle", req |-> 0, action |-> NoAction,
         apply |-> FALSE, exec |-> NoAction, agree |-> TRUE]

NewTracker == [step |-> 0, commands |-> 0, bait |-> 0, seen |-> {}, last |-> now]

Init ==
    /\ now = 0
    /\ trackers = <<>>
    /\ pending = {}
    /\ chan = [c \in Channels |-> Idle]
    /\ flags \in [policy : BOOLEAN, apply : BOOLEAN]
    /\ shadow = <<>>
    /\ commands = 0
-----------------------------------------------------------------------------
(* The sensor *)

\* A command the completion service answered never reaches the policy: the
\* interpreter is skipped and no action is recorded.
Complete(c) ==
    /\ chan[c].pc = "idle" /\ commands < MaxCommands
    /\ chan' = [chan EXCEPT ![c] = Idle]
    /\ commands' = commands + 1
    /\ UNCHANGED <<now, trackers, pending, flags, shadow>>

\* With the policy off the command runs with no action; with it on, Decide
\* posts the session, the command and the bait hint.  An earlier request of the
\* channel, given up on, may still be on its way.
Ask(c) ==
    /\ chan[c].pc = "idle" /\ commands < MaxCommands
    /\ \E m \in Commands :
         LET cat == Categorize(m) IN
         IF flags.policy
         THEN /\ chan' = [chan EXCEPT ![c] = [Idle EXCEPT !.pc = "wait", !.req = commands + 1]]
              /\ pending' = pending \union {[c |-> c, id |-> commands + 1, cat |-> cat,
                                             bait |-> cat \in BaitKinds]}
         ELSE /\ chan' = [chan EXCEPT ![c] = [Idle EXCEPT !.pc = "decided"]]
              /\ UNCHANGED pending
    /\ commands' = commands + 1
    /\ UNCHANGED <<now, trackers, flags, shadow>>

\* Mutant: the client has no timeout and waits for a request it delivered.
GiveUpUnlessDelivered(c) ==
    /\ chan[c].pc = "wait" /\ ~\E r \in pending : r.id = chan[c].req
    /\ chan' = [chan EXCEPT ![c].pc = "decided", ![c].req = 0, ![c].action = "MINIMAL"]
    /\ UNCHANGED <<now, trackers, pending, flags, shadow, commands>>

\* The request fails or the client's timeout passes first: MINIMAL.  A request
\* that was delivered is still handled by the service's thread.
GiveUp(c) ==
    /\ chan[c].pc = "wait"
    /\ chan' = [chan EXCEPT ![c].pc = "decided", ![c].req = 0, ![c].action = "MINIMAL"]
    /\ \/ UNCHANGED pending
       \/ pending' = {r \in pending : r.id # chan[c].req}
    /\ UNCHANGED <<now, trackers, flags, shadow, commands>>

\* Some command of the session never returns, and holds the Machine's mutex.
Stuck(s) == \E c \in Channels : SessionOf[c] = s /\ chan[c].pc = "stuck"

\* ApplyActions is read once for the command; the interpreter runs with the
\* action in apply mode and without it in shadow mode, one command of a session
\* at a time.  A command the policy was not asked about has no action.
Run(c) ==
    /\ chan[c].pc = "decided" /\ ~Stuck(SessionOf[c])
    /\ chan' = [chan EXCEPT ![c].pc = "ran", ![c].apply = flags.apply,
                            ![c].exec = IF flags.apply THEN chan[c].action ELSE NoAction]
    /\ UNCHANGED <<now, trackers, pending, flags, shadow, commands>>

\* The interpreter never returns: mkdirBuiltin, after rm -r / removed the root.
Hang(c) ==
    /\ chan[c].pc = "decided" /\ ~Stuck(SessionOf[c])
    /\ chan' = [chan EXCEPT ![c].pc = "stuck"]
    /\ UNCHANGED <<now, trackers, pending, flags, shadow, commands>>

\* deception.Apply rewrites the response of an applied action.
Apply(c) ==
    /\ chan[c].pc = "ran"
    /\ LET applied == IF chan[c].apply THEN chan[c].action ELSE NoAction
       IN  chan' = [chan EXCEPT ![c] = [Idle EXCEPT !.agree = (applied = chan[c].exec)]]
    /\ UNCHANGED <<now, trackers, pending, flags, shadow, commands>>

\* watchRuntimeFlags stores what the dashboard last set.
Toggle ==
    /\ flags' \in [policy : BOOLEAN, apply : BOOLEAN] /\ flags' # flags
    /\ UNCHANGED <<now, trackers, pending, chan, shadow, commands>>
-----------------------------------------------------------------------------
(* The service *)

\* _evict_stale: the sessions seen within the time to live stay.
LiveSessions == {s \in DOMAIN trackers : now - trackers[s].last <= TTL}

\* _get_tracker, after the eviction.
Tracker(s) == IF s \in LiveSessions THEN trackers[s] ELSE NewTracker

\* Mutant: the command's category is counted before it is observed.
LiveObserveLate(t, cat) ==
    [step |-> IF t.step < MaxSteps THEN t.step ELSE MaxSteps,
     cat |-> cat, sensitive |-> cat \in Sensitive,
     commands |-> IF t.commands < MaxSteps THEN t.commands ELSE MaxSteps,
     seen |-> Cardinality(t.seen \union {cat}), bait |-> IF t.bait < 3 THEN t.bait ELSE 3]

\* LiveSessionTracker.observe: the counters before this command, saturated.
LiveObserve(t, cat) ==
    [step |-> IF t.step < MaxSteps THEN t.step ELSE MaxSteps,
     cat |-> cat, sensitive |-> cat \in Sensitive,
     commands |-> IF t.commands < MaxSteps THEN t.commands ELSE MaxSteps,
     seen |-> Cardinality(t.seen), bait |-> IF t.bait < 3 THEN t.bait ELSE 3]

\* Mutant: advance forgets to note when the session was seen.
AdvanceUnseen(t, cat, bait) ==
    [step |-> t.step + 1, commands |-> t.commands + 1, seen |-> t.seen \union {cat},
     bait |-> t.bait + (IF bait THEN 1 ELSE 0), last |-> t.last]

\* LiveSessionTracker.advance.
Advance(t, cat, bait) ==
    [step |-> t.step + 1, commands |-> t.commands + 1, seen |-> t.seen \union {cat},
     bait |-> t.bait + (IF bait THEN 1 ELSE 0), last |-> now]

\* Mutant: a stale tracker is left until its own session calls again.
WithEntryKeepsAll(table, s, t) ==
    [x \in DOMAIN table \union {s} |-> IF x = s THEN t ELSE table[x]]

\* One entry per tracker after a call of session s left its own at t.
WithEntry(table, s, t) ==
    [x \in LiveSessions \union {s} |-> IF x = s THEN t ELSE table[x]]

\* The answer reaches the channel only if it still waits for this request.
Reply(r, action) ==
    chan' = IF chan[r.c].pc = "wait" /\ chan[r.c].req = r.id
            THEN [chan EXCEPT ![r.c].pc = "decided", ![r.c].req = 0,
                               ![r.c].action = action]
            ELSE chan

\* The training episode this session would be: reset when its tracker is new.
ShadowOf(s, cat) == [(IF s \in LiveSessions THEN shadow[s] ELSE EnvReset(cat)) EXCEPT !.cat = cat]

\* do_POST /decide: evict, observe, choose, advance, all under the lock.
Decide(r) ==
    /\ r \in pending
    /\ LET s == SessionOf[r.c]
       IN  \E action \in Answers :
             /\ trackers' = WithEntry(trackers, s, Advance(Tracker(s), r.cat, r.bait))
             /\ shadow' = WithEntry(shadow, s,
                             EnvStep(ShadowOf(s, r.cat), action, FALSE, r.cat))
             /\ Reply(r, action)
    /\ pending' = pending \ {r}
    /\ UNCHANGED <<now, flags, commands>>

\* select_action raised: the tracker exists but was not advanced; MINIMAL.
DecideFails(r) ==
    /\ r \in pending
    /\ LET s == SessionOf[r.c]
       IN  /\ trackers' = WithEntry(trackers, s, Tracker(s))
           /\ shadow' = WithEntry(shadow, s, ShadowOf(s, r.cat))
    /\ Reply(r, "MINIMAL")
    /\ pending' = pending \ {r}
    /\ UNCHANGED <<now, flags, commands>>

\* A body that is too large or malformed is refused before the engine sees it.
Refuse(r) ==
    /\ r \in pending
    /\ Reply(r, "MINIMAL")
    /\ pending' = pending \ {r}
    /\ UNCHANGED <<now, trackers, flags, shadow, commands>>

\* The service process dies and is started again: requests and trackers go.
Restart ==
    /\ trackers' = <<>> /\ shadow' = <<>> /\ pending' = {}
    /\ UNCHANGED <<now, chan, flags, commands>>

Tick ==
    /\ now < MaxTime /\ now' = now + 1
    /\ UNCHANGED <<trackers, pending, chan, flags, shadow, commands>>

Client(c) == Complete(c) \/ Ask(c) \/ GiveUp(c) \/ Run(c) \/ Hang(c) \/ Apply(c)

Service(r) == Decide(r) \/ DecideFails(r) \/ Refuse(r)

Next == \/ \E c \in Channels : Client(c)
        \/ \E r \in pending : Service(r)
        \/ Toggle \/ Restart \/ Tick

\* A channel goes on with its command: the HTTP client has a timeout.  That the
\* interpreter does not return is a step of its own.
Fairness == \A c \in Channels : WF_vars(GiveUp(c) \/ Run(c) \/ Hang(c) \/ Apply(c))

Spec == Init /\ [][Next]_vars /\ Fairness
-----------------------------------------------------------------------------
(* Properties *)

\* Type invariant: no tracker is from the future, and the history follows the trackers.
TypeOK ==
    /\ now \in 0..MaxTime
    /\ DOMAIN trackers \subseteq Sessions
    /\ \A s \in DOMAIN trackers : trackers[s].last \in 0..now
    /\ pending \subseteq [c : Channels, id : Nat, cat : Kinds, bait : BOOLEAN]
    /\ \A c \in Channels : chan[c].pc \in {"idle", "wait", "decided", "stuck", "ran"}
    /\ DOMAIN shadow = DOMAIN trackers

\* "mirroring DeceptionEnv state" (live.py): until an episode would have hit
\* the cap, the live observation of the next command equals the one training
\* showed after the same commands, in every component but the bait count
\* (which the sensor's hint drives live and the chosen action in training).
MirrorsTraining ==
    \A s \in LiveSessions, cat \in Kinds :
        LET live  == LiveObserve(trackers[s], cat)
            train == Observe([shadow[s] EXCEPT !.cat = cat])
        IN  ~shadow[s].done => [live EXCEPT !.bait = 0] = [train EXCEPT !.bait = 0]

\* "the exec/apply decision below must agree with itself for one command"
\* (server.go): the action the interpreter ran with is the one the response
\* was rewritten by, although the flag can change in between.
ExecAgreesWithApply == \A c \in Channels : chan[c].agree

\* No call leaves a tracker behind that has been silent for longer than the
\* time to live: the service's memory is bounded by its recent sessions.
StaleTrackersGo ==
    [][\A s \in DOMAIN trackers' :
         trackers' # trackers /\ trackers' # <<>> => now - trackers'[s].last <= TTL]_vars

\* The policy service never leaves the attacker waiting, slow, lost or dead as it
\* may be: a command ends, unless the interpreter never returns from one of the
\* session's commands.
CommandsEnd == \A c \in Channels :
    chan[c].pc # "idle" ~> chan[c].pc = "idle" \/ Stuck(SessionOf[c])

\* The trackers as a memory per session: one past its time is no memory.
Memory == INSTANCE SessionMemory WITH
    mem <- [s \in Sessions |->
              IF s \in LiveSessions /\ trackers[s].step > 0 THEN trackers[s]
              ELSE [step |-> 0, commands |-> 0, bait |-> 0, seen |-> {}, last |-> 0]]

\* decide() implements the per-session memory: evicting a tracker during
\* another session's call, or keeping it past its time, is never visible.
MemorySpec == Memory!Spec

\* A decision is taken on what the policy was trained on, and one command is run
\* and answered by one decision.
DecisionsSound == TypeOK /\ MirrorsTraining /\ ExecAgreesWithApply

=============================================================================
