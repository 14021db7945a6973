--------------------------- MODULE LearningProofs ---------------------------
(***************************************************************************)
(* Proofs about what is learned from sessions.  Live deception: for any    *)
(* channels, sessions and commands, any time to live and any cap on the    *)
(* steps of an episode.  Deception training: for any request, any numbers  *)
(* of episodes, batches, iterations and epochs, any discount and any       *)
(* critic.  Model training: for any configurations, corpora and losses and *)
(* any number of runs, whole or cut short, into one directory.             *)
(***************************************************************************)
EXTENDS LiveDeception, DeceptionTraining, ModelTraining, FiniteSetTheorems, SequenceTheorems, TLAPS

-----------------------------------------------------------------------------
(* Live decisions *)

TrackerType == [step : Nat, commands : Nat, bait : Nat, seen : SUBSET Kinds, last : 0 .. now]

Episode == [step : Nat, cat : Kinds, seen : SUBSET Kinds, commands : Nat, bait : Nat, done : BOOLEAN]

ChanType == [pc : {"idle", "wait", "decided", "stuck", "ran"}, req : Nat,
             action : DeceptionAction \cup {NoAction}, apply : BOOLEAN,
             exec : DeceptionAction \cup {NoAction}, agree : BOOLEAN]

\* A tracker and the training episode of the same commands: the counters are the
\* same, whether the episode has hit the cap or not, and a tracker without a
\* step remembers nothing.
Paired(t, e) ==
    /\ t \in TrackerType /\ e \in Episode
    /\ t.step = e.step /\ t.commands = t.step /\ e.commands = e.step /\ t.seen = e.seen
    /\ ~e.done => e.step < MaxSteps
    /\ t.step = 0 => t.bait = 0 /\ t.seen = {}

TrackersPaired ==
    /\ now \in 0 .. MaxTime
    /\ trackers \in [DOMAIN trackers -> TrackerType] /\ DOMAIN trackers \subseteq Sessions
    /\ DOMAIN shadow = DOMAIN trackers
    /\ \A s \in DOMAIN trackers : Paired(trackers[s], shadow[s])

RequestsTyped ==
    commands \in Nat /\ pending \subseteq [c : Channels, id : Nat, cat : Kinds, bait : BOOLEAN]

FlagsTyped == flags \in [policy : BOOLEAN, apply : BOOLEAN]

\* A command that has run, has run with what will be applied.
ChannelsAgree ==
    /\ chan \in [Channels -> ChanType]
    /\ \A c \in Channels :
          /\ chan[c].agree
          /\ chan[c].pc = "ran" => chan[c].exec = IF chan[c].apply THEN chan[c].action ELSE NoAction

Inv == TrackersPaired /\ RequestsTyped /\ FlagsTyped /\ ChannelsAgree

-----------------------------------------------------------------------------
(* Trackers and episodes *)

\* A session that is new to the service is a fresh episode.
LEMMA NewPaired ==
    ASSUME now \in Nat, NEW cat \in Kinds
    PROVE  Paired(NewTracker, [EnvReset(cat) EXCEPT !.cat = cat])
<1>. DEFINE e == EnvReset(cat)
<1>1. EnvIdle \in [step : Nat, cat : {"recon"}, seen : SUBSET Kinds, commands : Nat, bait : Nat, done : BOOLEAN]
  <2>1. 0 \in Nat /\ "recon" \in {"recon"} /\ {} \in SUBSET Kinds /\ TRUE \in BOOLEAN
    OBVIOUS
  <2>. QED  BY <2>1, Zenon DEF EnvIdle
<1>2. e \in Episode /\ e.step = 0 /\ e.commands = 0 /\ e.seen = {}
  BY <1>1 DEF EnvReset, EnvIdle, Episode
<1>. HIDE DEF e
<1>3. [e EXCEPT !.cat = cat] \in Episode /\ [e EXCEPT !.cat = cat].step = 0
      /\ [e EXCEPT !.cat = cat].commands = 0 /\ [e EXCEPT !.cat = cat].seen = {}
  BY <1>2 DEF Episode
<1>4. NewTracker \in TrackerType /\ NewTracker.step = 0 /\ NewTracker.commands = 0
      /\ NewTracker.bait = 0 /\ NewTracker.seen = {}
  BY DEF NewTracker, TrackerType
<1>5. Paired(NewTracker, [e EXCEPT !.cat = cat])
  BY <1>3, <1>4, MaxStepsAssumption DEF Paired
<1>. QED  BY <1>5 DEF e

\* The current category of an episode is not compared.
LEMMA CatPaired ==
    ASSUME NEW t, NEW e, NEW cat \in Kinds, Paired(t, e)
    PROVE  Paired(t, [e EXCEPT !.cat = cat]) /\ [e EXCEPT !.cat = cat].cat = cat
BY DEF Paired, Episode

\* advance() counts what step() counts.
LEMMA AdvancePaired ==
    ASSUME now \in Nat, NEW t, NEW e, NEW cat \in Kinds, NEW bait \in BOOLEAN, NEW action,
           Paired(t, e), e.cat = cat
    PROVE  Paired(Advance(t, cat, bait), EnvStep(e, action, FALSE, cat))
<1>. DEFINE f == EnvStep(e, action, FALSE, cat)
            u == Advance(t, cat, bait)
<1>1. /\ t.step \in Nat /\ t.commands = t.step /\ t.bait \in Nat /\ t.seen \subseteq Kinds
      /\ e.step = t.step /\ e.commands = t.step /\ e.bait \in Nat /\ e.seen = t.seen
  BY DEF Paired, TrackerType, Episode
<1>2. u \in TrackerType /\ u.step = t.step + 1 /\ u.commands = t.step + 1 /\ u.seen = t.seen \cup {cat}
  BY <1>1 DEF Advance, TrackerType
<1>3. /\ f.step = t.step + 1 /\ f.commands = t.step + 1 /\ f.seen = t.seen \cup {cat}
      /\ f.cat = cat /\ f.bait \in Nat /\ (~f.done => t.step + 1 < MaxSteps)
  <2>1. /\ f.step = t.step + 1 /\ f.commands = t.step + 1 /\ f.seen = t.seen \cup {cat}
        /\ f.cat = cat /\ f.bait \in Nat
    BY <1>1 DEF EnvStep
  <2>2. f.done = (FALSE \/ e.step + 1 >= MaxSteps)
    BY DEF EnvStep
  <2>3. e.step + 1 >= MaxSteps \/ t.step + 1 < MaxSteps
    BY <1>1, MaxStepsAssumption
  <2>. HIDE DEF f
  <2>. QED  BY <2>1, <2>2, <2>3, Zenon
<1>4. f \in Episode
  BY <1>1 DEF EnvStep, Episode
<1>5. u.step # 0
  BY <1>1, <1>2
<1>. QED  BY <1>2, <1>3, <1>4, <1>5 DEF Paired

\* Until the cap, what the policy sees live is what it saw in training.
LEMMA PairedObserve ==
    ASSUME NEW t, NEW e, NEW cat \in Kinds, Paired(t, e), ~e.done
    PROVE  [LiveObserve(t, cat) EXCEPT !.bait = 0] = [Observe([e EXCEPT !.cat = cat]) EXCEPT !.bait = 0]
<1>1. /\ t.step \in Nat /\ t.commands = t.step /\ e.step = t.step /\ e.commands = t.step
      /\ e.seen = t.seen /\ t.step < MaxSteps
  BY DEF Paired, TrackerType
<1>. DEFINE g == [e EXCEPT !.cat = cat]
<1>2. g.step = e.step /\ g.cat = cat /\ g.commands = e.commands /\ g.seen = e.seen
  BY DEF Paired, Episode
<1>. HIDE DEF g
<1>3. [LiveObserve(t, cat) EXCEPT !.bait = 0] =
        [step |-> t.step, cat |-> cat, sensitive |-> cat \in Sensitive, commands |-> t.step,
         seen |-> Cardinality(t.seen), bait |-> 0]
  BY <1>1 DEF LiveObserve
<1>4. [Observe(g) EXCEPT !.bait = 0] =
        [step |-> t.step, cat |-> cat, commands |-> t.step,
         seen |-> Cardinality(t.seen), bait |-> 0, sensitive |-> cat \in Sensitive]
  BY <1>1, <1>2 DEF Observe
<1>. QED  BY <1>3, <1>4 DEF g

-----------------------------------------------------------------------------
(* The service *)

\* Which trackers a call finds, and what it leaves of the others.
LEMMA CallKeeps ==
    ASSUME Inv, NEW s \in Sessions, NEW cat \in Kinds, NEW t, NEW e, Paired(t, e),
           trackers' = WithEntry(trackers, s, t), shadow' = WithEntry(shadow, s, e), now' = now
    PROVE  TrackersPaired'
<1>. USE DEF Inv
<1>1. LiveSessions \subseteq DOMAIN trackers
  BY DEF LiveSessions
<1>2. /\ DOMAIN trackers' = LiveSessions \cup {s} /\ DOMAIN shadow' = LiveSessions \cup {s}
      /\ trackers'[s] = t /\ shadow'[s] = e
      /\ \A x \in LiveSessions \ {s} : trackers'[x] = trackers[x] /\ shadow'[x] = shadow[x]
  BY DEF WithEntry
<1>3. TrackerType' = TrackerType /\ now' \in 0 .. MaxTime
  BY DEF TrackerType, TrackersPaired
<1>4. \A x \in LiveSessions \cup {s} : Paired(trackers'[x], shadow'[x])
  BY <1>1, <1>2 DEF TrackersPaired
<1>5. \A x \in DOMAIN trackers' : Paired(trackers[x], shadow[x])'
  BY <1>2, <1>3, <1>4 DEF Paired, Episode
<1>6. trackers' \in [DOMAIN trackers' -> TrackerType']
  <2>1. \A x \in LiveSessions \cup {s} : trackers'[x] \in TrackerType
    BY <1>4 DEF Paired
  <2>. QED  BY <1>2, <1>3, <2>1 DEF WithEntry
<1>7. DOMAIN trackers' \subseteq Sessions
  BY <1>1, <1>2 DEF TrackersPaired
<1>. QED  BY <1>2, <1>3, <1>5, <1>6, <1>7 DEF TrackersPaired

\* The tracker a call works on, and its episode.
LEMMA TrackerPaired ==
    ASSUME Inv, NEW s \in Sessions, NEW cat \in Kinds
    PROVE  /\ now \in Nat
           /\ Paired(Tracker(s), ShadowOf(s, cat)) /\ ShadowOf(s, cat).cat = cat
           /\ now - Tracker(s).last <= TTL
<1>1. now \in Nat /\ TTL \in Nat
  BY LiveAssumption DEF Inv, TrackersPaired
<1>2. CASE s \in LiveSessions
  <2>1. Paired(trackers[s], shadow[s]) /\ Tracker(s) = trackers[s] /\ now - trackers[s].last <= TTL
    BY <1>2 DEF Inv, TrackersPaired, LiveSessions, Tracker
  <2>2. ShadowOf(s, cat) = [shadow[s] EXCEPT !.cat = cat]
    BY <1>2 DEF ShadowOf
  <2>. QED  BY <1>1, <2>1, <2>2, CatPaired
<1>3. CASE s \notin LiveSessions
  <2>1. Tracker(s) = NewTracker /\ NewTracker.last = now
    BY <1>3 DEF Tracker, NewTracker
  <2>2. ShadowOf(s, cat) = [EnvReset(cat) EXCEPT !.cat = cat]
    BY <1>3 DEF ShadowOf
  <2>3. EnvReset(cat).cat = cat /\ [EnvReset(cat) EXCEPT !.cat = cat].cat = cat
    BY DEF EnvReset, EnvIdle
  <2>. QED  BY <1>1, <2>1, <2>2, <2>3, NewPaired
<1>. QED  BY <1>2, <1>3

\* An answer reaches a channel that waits for it, and no other.
LEMMA ReplyKeeps ==
    ASSUME Inv, NEW r \in pending, NEW action \in DeceptionAction, Reply(r, action)
    PROVE  ChannelsAgree'
<1>1. r.c \in Channels
  BY DEF Inv, RequestsTyped
<1>2. CASE chan' = chan
  BY <1>2 DEF Inv, ChannelsAgree, ChanType
<1>3. CASE chan' = [chan EXCEPT ![r.c].pc = "decided", ![r.c].req = 0, ![r.c].action = action]
  <2>1. chan' \in [Channels -> ChanType]
    BY <1>1, <1>3 DEF Inv, ChannelsAgree, ChanType
  <2>2. /\ chan'[r.c].pc = "decided" /\ chan'[r.c].agree = chan[r.c].agree
        /\ \A c \in Channels \ {r.c} : chan'[c] = chan[c]
    BY <1>1, <1>3 DEF Inv, ChannelsAgree, ChanType
  <2>. QED  BY <1>1, <2>1, <2>2 DEF Inv, ChannelsAgree, ChanType
<1>. QED  BY <1>2, <1>3 DEF Reply

\* What a call of decide() does, to the trackers and to its channel.
LEMMA ServiceStep ==
    ASSUME Inv, NEW r \in pending, Service(r)
    PROVE  Inv'
<1>1. /\ r.c \in Channels /\ r.cat \in Kinds /\ r.bait \in BOOLEAN
      /\ SessionOf[r.c] \in Sessions /\ now' = now
  BY LiveAssumption DEF Inv, RequestsTyped, Service, Decide, DecideFails, Refuse
<1>2. RequestsTyped'
  BY DEF Inv, RequestsTyped, Service, Decide, DecideFails, Refuse
<1>3. ChannelsAgree'
  <2>1. "MINIMAL" \in DeceptionAction /\ Answers \subseteq DeceptionAction
    BY LiveAssumption DEF DeceptionAction
  <2>. QED  BY <2>1, ReplyKeeps DEF Service, Decide, DecideFails, Refuse
<1>4. TrackersPaired'
  <2>. DEFINE s == SessionOf[r.c]
              t == Tracker(s)
              e == ShadowOf(s, r.cat)
  <2>1. now \in Nat /\ Paired(t, e) /\ e.cat = r.cat
    BY <1>1, TrackerPaired
  <2>2. CASE Decide(r)
    <3>1. PICK action \in Answers :
             /\ trackers' = WithEntry(trackers, s, Advance(t, r.cat, r.bait))
             /\ shadow' = WithEntry(shadow, s, EnvStep(e, action, FALSE, r.cat))
      BY <2>2 DEF Decide
    <3>. HIDE DEF s, t, e
    <3>2. Paired(Advance(t, r.cat, r.bait), EnvStep(e, action, FALSE, r.cat))
      BY <1>1, <2>1, AdvancePaired
    <3>3. s \in Sessions
      BY <1>1 DEF s
    <3>. QED  BY <1>1, <3>1, <3>2, <3>3, CallKeeps
  <2>3. CASE DecideFails(r)
    <3>1. trackers' = WithEntry(trackers, s, t) /\ shadow' = WithEntry(shadow, s, e)
      BY <2>3 DEF DecideFails
    <3>. HIDE DEF t, e
    <3>. QED  BY <1>1, <2>1, <3>1, CallKeeps
  <2>4. CASE Refuse(r)
    BY <2>4 DEF Refuse, Inv, TrackersPaired, TrackerType, Paired, Episode
  <2>. QED  BY <2>2, <2>3, <2>4 DEF Service
<1>5. FlagsTyped'
  BY DEF Inv, FlagsTyped, Service, Decide, DecideFails, Refuse
<1>. QED  BY <1>2, <1>3, <1>4, <1>5 DEF Inv

-----------------------------------------------------------------------------
(* The invariant *)

\* A step that leaves the service alone leaves what it knows.
LEMMA ServiceIdle ==
    ASSUME Inv, UNCHANGED <<now, trackers, shadow>>
    PROVE  TrackersPaired'
BY DEF Inv, TrackersPaired, TrackerType, Paired, Episode

\* A channel's own step; Run and Apply read the flag once between them.
LEMMA ClientStep ==
    ASSUME Inv, NEW c \in Channels, Client(c)
    PROVE  Inv'
<1>1. TrackersPaired'
  <2>1. UNCHANGED <<now, trackers, shadow>>
    BY DEF Client, Complete, Ask, GiveUp, Run, Hang, Apply
  <2>. QED  BY <2>1, ServiceIdle
<1>2. RequestsTyped'
  <2>1. CASE Ask(c)
    <3>1. PICK m \in Commands :
             \/ pending' = pending
             \/ pending' = pending \cup {[c |-> c, id |-> commands + 1, cat |-> Categorize(m),
                                           bait |-> Categorize(m) \in BaitKinds]}
      BY <2>1 DEF Ask
    <3>2. Categorize(m) \in Kinds /\ (Categorize(m) \in BaitKinds) \in BOOLEAN
      BY DEF Kinds
    <3>3. commands + 1 \in Nat /\ commands' = commands + 1
      BY <2>1 DEF Ask, Inv, RequestsTyped
    <3>4. [c |-> c, id |-> commands + 1, cat |-> Categorize(m), bait |-> Categorize(m) \in BaitKinds]
             \in [c : Channels, id : Nat, cat : Kinds, bait : BOOLEAN]
      BY <3>2, <3>3, Zenon
    <3>. QED  BY <3>1, <3>3, <3>4 DEF Inv, RequestsTyped
  <2>2. CASE ~Ask(c)
    <3>1. pending' \subseteq pending /\ (commands' = commands \/ commands' = commands + 1)
      BY <2>2 DEF Client, Complete, GiveUp, Run, Hang, Apply
    <3>. QED  BY <3>1 DEF Inv, RequestsTyped
  <2>. QED  BY <2>1, <2>2
<1>3. ChannelsAgree'
  <2>1. chan \in [Channels -> ChanType] /\ chan[c] \in ChanType /\ chan[c].agree
    BY DEF Inv, ChannelsAgree
  <2>. DEFINE After(x) == chan' = [chan EXCEPT ![c] = x]
              Right(x) == /\ x \in ChanType /\ x.agree
                          /\ x.pc = "ran" => x.exec = IF x.apply THEN x.action ELSE NoAction
  <2>2. ASSUME NEW x, After(x), Right(x) PROVE ChannelsAgree'
    BY <2>1, <2>2 DEF Inv, ChannelsAgree
  <2>0. PICK k \in Nat : k = commands + 1
    BY DEF Inv, RequestsTyped
  <2>3. /\ Right(Idle) /\ Right([Idle EXCEPT !.pc = "decided"])
        /\ Right([Idle EXCEPT !.pc = "wait", !.req = k])
    BY DEF Idle, ChanType
  <2>4. CASE Complete(c) \/ Ask(c)
    <3>1. \/ After(Idle) \/ After([Idle EXCEPT !.pc = "decided"])
          \/ After([Idle EXCEPT !.pc = "wait", !.req = k])
      BY <2>0, <2>4 DEF Complete, Ask
    <3>. HIDE DEF After, Right
    <3>. QED  BY <2>2, <2>3, <3>1
  <2>5. CASE GiveUp(c)
    <3>1. After([chan[c] EXCEPT !.pc = "decided", !.req = 0, !.action = "MINIMAL"])
      BY <2>1, <2>5 DEF GiveUp
    <3>2. Right([chan[c] EXCEPT !.pc = "decided", !.req = 0, !.action = "MINIMAL"])
      BY <2>1 DEF ChanType, DeceptionAction
    <3>. HIDE DEF After, Right
    <3>. QED  BY <2>2, <3>1, <3>2
  <2>6. CASE Run(c)
    <3>. DEFINE x == [chan[c] EXCEPT !.pc = "ran", !.apply = flags.apply,
                                     !.exec = IF flags.apply THEN chan[c].action ELSE NoAction]
    <3>1. After(x)
      BY <2>1, <2>6 DEF Run
    <3>2. flags.apply \in BOOLEAN
      BY DEF Inv, FlagsTyped
    <3>3. /\ x \in ChanType /\ x.agree = chan[c].agree
          /\ x.apply = flags.apply /\ x.action = chan[c].action
          /\ x.exec = IF flags.apply THEN chan[c].action ELSE NoAction
      BY <2>1, <3>2 DEF ChanType
    <3>. HIDE DEF x
    <3>4. Right(x)
      BY <2>1, <3>3
    <3>. HIDE DEF After, Right
    <3>. QED  BY <2>2, <3>1, <3>4
  <2>8. CASE Hang(c)
    <3>1. After([chan[c] EXCEPT !.pc = "stuck"])
      BY <2>1, <2>8 DEF Hang
    <3>2. Right([chan[c] EXCEPT !.pc = "stuck"])
      BY <2>1 DEF ChanType
    <3>. HIDE DEF After, Right
    <3>. QED  BY <2>2, <3>1, <3>2
  <2>7. CASE Apply(c)
    <3>. DEFINE applied == IF chan[c].apply THEN chan[c].action ELSE NoAction
    <3>1. After([Idle EXCEPT !.agree = (applied = chan[c].exec)])
      BY <2>7 DEF Apply
    <3>2. applied = chan[c].exec
      BY <2>7 DEF Inv, ChannelsAgree, Apply
    <3>3. [Idle EXCEPT !.agree = (applied = chan[c].exec)] = [Idle EXCEPT !.agree = TRUE]
      BY <3>2
    <3>4. Right([Idle EXCEPT !.agree = TRUE])
      BY DEF Idle, ChanType
    <3>. HIDE DEF After, Right, applied
    <3>. QED  BY <2>2, <3>1, <3>3, <3>4
  <2>. QED  BY <2>4, <2>5, <2>6, <2>7, <2>8 DEF Client
<1>4. FlagsTyped'
  BY DEF Inv, FlagsTyped, Client, Complete, Ask, GiveUp, Run, Hang, Apply
<1>. QED  BY <1>1, <1>2, <1>3, <1>4 DEF Inv

\* Every step of a channel, of the service and of the operator keeps it.
LEMMA Step == ASSUME Inv, [Next]_vars PROVE Inv'
<1>1. CASE \E c \in Channels : Client(c)
  BY <1>1, ClientStep
<1>2. CASE \E r \in pending : Service(r)
  BY <1>2, ServiceStep
<1>3. CASE Toggle \/ UNCHANGED vars
  <2>1. UNCHANGED <<now, trackers, shadow, pending, chan, commands>>
    BY <1>3 DEF Toggle, vars
  <2>2. FlagsTyped'
    BY <1>3 DEF Inv, FlagsTyped, Toggle, vars
  <2>3. RequestsTyped' /\ ChannelsAgree'
    BY <2>1 DEF Inv, RequestsTyped, ChannelsAgree
  <2>. QED  BY <2>1, <2>2, <2>3, ServiceIdle DEF Inv
<1>4. CASE Restart
  <2>1. UNCHANGED <<now, chan, flags, commands>> /\ trackers' = <<>> /\ shadow' = <<>> /\ pending' = {}
    BY <1>4 DEF Restart
  <2>2. RequestsTyped' /\ ChannelsAgree' /\ FlagsTyped'
    BY <2>1 DEF Inv, RequestsTyped, ChannelsAgree, FlagsTyped
  <2>3. DOMAIN trackers' = {} /\ DOMAIN shadow' = {} /\ trackers' \in [{} -> TrackerType']
    BY <2>1
  <2>4. TrackersPaired'
    BY <2>1, <2>3 DEF Inv, TrackersPaired
  <2>. QED  BY <2>2, <2>4 DEF Inv
<1>5. CASE Tick
  <2>1. /\ now < MaxTime /\ now' = now + 1 /\ now \in Nat /\ MaxTime \in Nat
        /\ UNCHANGED <<trackers, pending, chan, flags, shadow, commands>>
    BY <1>5, LiveAssumption DEF Tick, Inv, TrackersPaired
  <2>2. RequestsTyped' /\ ChannelsAgree' /\ FlagsTyped'
    BY <2>1 DEF Inv, RequestsTyped, ChannelsAgree, FlagsTyped
  <2>3. 0 .. now \subseteq 0 .. now' /\ now' \in 0 .. MaxTime
    BY <2>1
  <2>4. TrackerType \subseteq TrackerType'
    BY <2>3 DEF TrackerType
  <2>5. TrackersPaired'
    BY <2>1, <2>3, <2>4 DEF Inv, TrackersPaired, Paired, Episode
  <2>. QED  BY <2>2, <2>5 DEF Inv
<1>. QED  BY <1>1, <1>2, <1>3, <1>4, <1>5 DEF Next

\* It holds when the service and the sensor start.
LEMMA InitStep == Init => Inv
<1>. SUFFICES ASSUME Init PROVE Inv
  OBVIOUS
<1>1. RequestsTyped /\ FlagsTyped
  BY DEF Init, RequestsTyped, FlagsTyped
<1>2. Idle \in ChanType /\ Idle.agree /\ Idle.pc = "idle"
  BY DEF Idle, ChanType
<1>3. ChannelsAgree
  BY <1>2 DEF Init, ChannelsAgree
<1>4. DOMAIN trackers = {} /\ DOMAIN shadow = {} /\ trackers \in [{} -> TrackerType]
  BY DEF Init
<1>5. now \in 0 .. MaxTime
  BY LiveAssumption DEF Init
<1>6. TrackersPaired
  BY <1>4, <1>5 DEF TrackersPaired
<1>. QED  BY <1>1, <1>3, <1>6 DEF Inv

\* So it holds throughout.
LEMMA Invariance == Spec => []Inv
BY InitStep, Step, PTL DEF Spec

-----------------------------------------------------------------------------
(* Theorems *)

\* Whatever the cap and the time to live: what the policy is shown live is what
\* it was shown in training after the same commands, and one command is run and
\* answered by one decision although the flags change in between.
THEOREM DecisionsAreSound == Spec => []DecisionsSound
<1>1. Inv => DecisionsSound
  <2>. SUFFICES ASSUME Inv PROVE DecisionsSound
    OBVIOUS
  <2>1. TypeOK
    BY DEF Inv, TypeOK, TrackersPaired, TrackerType, RequestsTyped, ChannelsAgree, ChanType
  <2>2. MirrorsTraining
    BY PairedObserve DEF Inv, MirrorsTraining, TrackersPaired, LiveSessions
  <2>3. ExecAgreesWithApply
    BY DEF Inv, ExecAgreesWithApply, ChannelsAgree
  <2>. QED  BY <2>1, <2>2, <2>3 DEF DecisionsSound
<1>. QED  BY <1>1, Invariance, PTL

\* A call leaves no tracker behind that has been silent for longer than the time
\* to live.
THEOREM StaleTrackersAreDropped == Spec => StaleTrackersGo
<1>. DEFINE A == \A s \in DOMAIN trackers' :
                    trackers' # trackers /\ trackers' # <<>> => now - trackers'[s].last <= TTL
<1>1. ASSUME Inv, Next PROVE A
  <2>. SUFFICES ASSUME NEW x \in DOMAIN trackers', trackers' # trackers, trackers' # <<>>
                PROVE  now - trackers'[x].last <= TTL
    OBVIOUS
  <2>1. PICK r \in pending : Decide(r) \/ DecideFails(r)
    BY <1>1 DEF Next, Client, Complete, Ask, GiveUp, Run, Hang, Apply, Service, Refuse, Toggle, Restart, Tick
  <2>. DEFINE s == SessionOf[r.c]
  <2>2. s \in Sessions /\ r.cat \in Kinds
    BY <1>1, LiveAssumption DEF Inv, RequestsTyped
  <2>3. PICK t : trackers' = WithEntry(trackers, s, t) /\ (t = Tracker(s) \/ t.last = now)
    <3>1. CASE Decide(r)
      <4>1. trackers' = WithEntry(trackers, s, Advance(Tracker(s), r.cat, r.bait))
        BY <3>1 DEF Decide
      <4>2. Advance(Tracker(s), r.cat, r.bait).last = now
        BY DEF Advance
      <4>. QED  BY <4>1, <4>2
    <3>2. CASE DecideFails(r)
      BY <3>2 DEF DecideFails
    <3>. QED  BY <2>1, <3>1, <3>2
  <2>. HIDE DEF s
  <2>4. now \in Nat /\ now - t.last <= TTL
    BY <1>1, <2>2, <2>3, TrackerPaired, LiveAssumption
  <2>5. x = s \/ x \in LiveSessions
    BY <2>3 DEF WithEntry
  <2>. QED  BY <2>3, <2>4, <2>5 DEF WithEntry, LiveSessions
<1>2. ASSUME Inv, [Next]_vars PROVE [A]_vars
  BY <1>1, <1>2
<1>. QED  BY <1>2, Invariance, PTL DEF Spec, StaleTrackersGo

\* What a session is remembered by.
Mem == [s \in Sessions |->
          IF s \in LiveSessions /\ trackers[s].step > 0 THEN trackers[s]
          ELSE [step |-> 0, commands |-> 0, bait |-> 0, seen |-> {}, last |-> 0]]

\* decide() folds the command into the memory of its own session, and a tracker
\* found or made without a step is no memory.
LEMMA CallMemory ==
    ASSUME Inv, NEW s \in Sessions, NEW t, trackers' = WithEntry(trackers, s, t), now' = now,
           now - t.last <= TTL
    PROVE  Mem' = [Mem EXCEPT ![s] = IF t.step > 0 THEN t ELSE Memory!Fresh]
<1>1. LiveSessions' = LiveSessions \cup {s}
  <2>1. /\ DOMAIN trackers' = LiveSessions \cup {s} /\ trackers'[s] = t
        /\ \A x \in LiveSessions \ {s} : trackers'[x] = trackers[x]
    BY DEF WithEntry
  <2>. QED  BY <2>1 DEF LiveSessions
<1>2. trackers'[s] = t /\ \A x \in LiveSessions \ {s} : trackers'[x] = trackers[x]
  BY DEF WithEntry
<1>3. \A x \in Sessions : Mem'[x] = IF x = s THEN (IF t.step > 0 THEN t ELSE Memory!Fresh) ELSE Mem[x]
  BY <1>1, <1>2 DEF Mem, Memory!Fresh
<1>. QED  BY <1>3 DEF Mem

\* The memory of a session at a call: its tracker, if that has counted anything.
LEMMA MemoryOfTracker ==
    ASSUME Inv, NEW s \in Sessions, NEW cat \in Kinds
    PROVE  /\ Tracker(s).step > 0 => Mem[s] = Tracker(s)
           /\ ~(Tracker(s).step > 0) => Mem[s] = Memory!Fresh
           /\ Mem[s].step = Tracker(s).step /\ Mem[s].commands = Tracker(s).commands
           /\ Mem[s].bait = Tracker(s).bait /\ Mem[s].seen = Tracker(s).seen
<1>1. PICK e : Paired(Tracker(s), e)
  BY TrackerPaired
<1>2. Tracker(s).step \in Nat /\ Tracker(s).commands = Tracker(s).step
      /\ (Tracker(s).step = 0 => Tracker(s).bait = 0 /\ Tracker(s).seen = {})
  BY <1>1 DEF Paired, TrackerType
<1>3. s \notin LiveSessions => Tracker(s).step = 0
  BY DEF Tracker, NewTracker
<1>4. Mem[s] = IF Tracker(s).step > 0 THEN Tracker(s) ELSE Memory!Fresh
  BY <1>2, <1>3 DEF Mem, Memory!Fresh, Tracker
<1>. QED  BY <1>2, <1>4 DEF Memory!Fresh

\* Every step is one of the memory, or leaves it as it is: evicting another
\* session's tracker, or keeping it past its time, shows in neither.
LEMMA MemoryStep == ASSUME Inv, [Next]_vars PROVE [Memory!Next]_<<now, Mem>>
<1>1. CASE \E r \in pending : Decide(r)
  <2>1. PICK r \in pending : Decide(r)
    BY <1>1
  <2>. DEFINE s == SessionOf[r.c]
              t == Advance(Tracker(s), r.cat, r.bait)
  <2>2. s \in Sessions /\ r.cat \in Kinds /\ r.bait \in BOOLEAN /\ now' = now
    BY <2>1, LiveAssumption DEF Inv, RequestsTyped, Decide
  <2>3. trackers' = WithEntry(trackers, s, t)
    BY <2>1 DEF Decide
  <2>. HIDE DEF s
  <2>4. now \in Nat /\ TTL \in Nat /\ \E e : Paired(Tracker(s), e)
    BY <2>2, TrackerPaired, LiveAssumption
  <2>5. Tracker(s).step \in Nat
    BY <2>4 DEF Paired, TrackerType
  <2>6. t.last = now /\ t.step > 0
    BY <2>4, <2>5 DEF Advance
  <2>7. Memory!Fold(Mem[s], r.cat, r.bait) = t
    BY <2>2, MemoryOfTracker DEF Memory!Fold, Advance
  <2>. HIDE DEF t
  <2>8. Mem' = [Mem EXCEPT ![s] = t]
    BY <2>2, <2>3, <2>4, <2>6, CallMemory
  <2>9. Memory!Count(s, r.cat, r.bait)
    BY <2>2, <2>7, <2>8 DEF Memory!Count, Mem
  <2>. QED  BY <2>2, <2>9 DEF Memory!Next
<1>2. CASE \E r \in pending : DecideFails(r)
  <2>1. PICK r \in pending : DecideFails(r)
    BY <1>2
  <2>. DEFINE s == SessionOf[r.c]
  <2>2. s \in Sessions /\ r.cat \in Kinds /\ now' = now
    BY <2>1, LiveAssumption DEF Inv, RequestsTyped, DecideFails
  <2>3. trackers' = WithEntry(trackers, s, Tracker(s))
    BY <2>1 DEF DecideFails
  <2>. HIDE DEF s
  <2>4. now - Tracker(s).last <= TTL
    BY <2>2, TrackerPaired
  <2>5. Mem' = [Mem EXCEPT ![s] = Mem[s]]
    BY <2>2, <2>3, <2>4, CallMemory, MemoryOfTracker
  <2>6. Mem' = Mem
    BY <2>5 DEF Mem
  <2>. QED  BY <2>2, <2>6
<1>3. CASE Restart
  <2>1. trackers' = <<>> /\ now' = now
    BY <1>3 DEF Restart
  <2>2. LiveSessions' = {}
    BY <2>1 DEF LiveSessions
  <2>3. Mem' = [s \in Sessions |-> Memory!Fresh]
    BY <2>2 DEF Mem, Memory!Fresh
  <2>. QED  BY <2>1, <2>3 DEF Memory!Forget, Memory!Next, Mem
<1>4. CASE Tick
  <2>1. now' = now + 1 /\ trackers' = trackers /\ now \in Nat /\ TTL \in Nat
    BY <1>4, LiveAssumption DEF Tick, Inv, TrackersPaired
  <2>2. \A s \in DOMAIN trackers : trackers[s].last \in Nat
    BY DEF Inv, TrackersPaired, TrackerType
  <2>3. \A s \in Sessions : Mem'[s] = IF now' - Mem[s].last > TTL THEN Memory!Fresh ELSE Mem[s]
    BY <2>1, <2>2 DEF Mem, LiveSessions, Memory!Fresh
  <2>4. Mem' = [s \in Sessions |-> IF now' - Mem[s].last > TTL THEN Memory!Fresh ELSE Mem[s]]
    BY <2>3 DEF Mem
  <2>. QED  BY <2>1, <2>4 DEF Memory!Tick, Memory!Next, Mem
<1>5. CASE UNCHANGED <<now, trackers>>
  BY <1>5 DEF Mem, LiveSessions
<1>. QED
  BY <1>1, <1>2, <1>3, <1>4, <1>5 DEF Next, Client, Complete, Ask, GiveUp, Run, Hang, Apply, Service, Refuse,
     Toggle, vars

\* decide() implements a memory per session that forgets a session after its own
\* silence only, for any sessions, commands, time to live and cap.
THEOREM TrackersImplementMemory == Spec => MemorySpec
<1>1. Init => Memory!Init
  <2>. SUFFICES ASSUME Init PROVE Memory!Init
    OBVIOUS
  <2>1. LiveSessions = {}
    BY DEF Init, LiveSessions
  <2>. QED  BY <2>1 DEF Init, Memory!Init, Memory!Fresh
<1>. QED  BY <1>1, Invariance, MemoryStep, PTL DEF Spec, MemorySpec, Memory!Spec, Mem

-----------------------------------------------------------------------------
(* The inductive invariant of the trainers *)

Samples == [obs : {Observe(e) : e \in EnvType}, act : DeceptionAction, done : BOOLEAN,
            reward : Int, value : Int, target : Int, ver : Nat]

TrainTypes ==
    /\ pc \in {"collect", "update", "return"} /\ env \in EnvType
    /\ ep \in Seq(Samples) /\ buf \in Seq(Samples)
    /\ {eps, it, ver, base, hist, pass, start} \subseteq Nat

\* The jobs left are those of the request that are not trained yet.
JobsLeft ==
    \E r \in Requests :
        /\ DOMAIN trained \subseteq r
        /\ \/ jobs = Planned(r \ DOMAIN trained)
           \/ DOMAIN trained = r /\ jobs \in {<<"save">>, <<>>}

\* A batch is complete when it is used, and where no trainer is at work nothing
\* is under way.
Progress ==
    /\ hist = it * BatchSize + eps /\ Len(buf) <= eps * MaxSteps
    /\ pc # "collect" => env.done /\ ep = <<>>
    /\ pc = "update" => eps = BatchSize /\ it < Rounds
    /\ pc = "return" => eps = 0 /\ it = Rounds
    /\ pc = "collect" /\ algo \notin {"save", "none"} => eps < BatchSize /\ it < Rounds
    /\ algo \in {"save", "none"} => pc = "collect" /\ eps = 0 /\ it = 0 /\ env.done /\ ep = <<>>

\* An episode has a sample for every step.
EpisodeFollows ==
    /\ env.commands = env.step /\ (~env.done => env.step < MaxSteps)
    /\ (env.done /\ ep = <<>>) \/ Len(ep) = env.step
    /\ \A t \in DOMAIN ep : /\ ep[t].obs.commands = t - 1 /\ ep[t].obs.step = t - 1
                            /\ ep[t].done = (env.done /\ t = Len(ep))

\* A batch is a sequence of whole trajectories with their targets.
BatchIsWhole(b) ==
    \A t \in DOMAIN b :
        /\ ~b[t].done => t < Len(b) /\ b[t + 1].obs.commands = b[t].obs.commands + 1
        /\ b[t].target = b[t].reward
               + (IF b[t].done THEN 0 ELSE Gamma * Carried(b[t + 1].value, b[t + 1].target))

\* The versions of the policy.
Versions ==
    /\ algo \in {"reinforce", "ppo"} =>
           /\ \A t \in DOMAIN ep : ep[t].ver = base
           /\ \A t \in DOMAIN buf : buf[t].ver = base
           /\ pc = "collect" => ver = base
    /\ algo = "reinforce" => ver = it
    /\ "reinforce" \in DOMAIN trained =>
           trained["reinforce"] = IF Episodes \div Batch > 1 THEN Episodes \div Batch ELSE 1
    /\ algo = "none" => saved = trained

\* The gradient steps of PPO: whole passes and the one under way.
Passes ==
    /\ pc # "update" => pass = 0 /\ start = 0
    /\ PassesAreWhole
    /\ algo = "ppo" /\ pc = "update" => \E n \in Nat : start = n * Minibatch

TrainInv ==
    TrainTypes /\ JobsLeft /\ Progress /\ EpisodeFollows /\ BatchIsWhole(buf) /\ Versions /\ Passes

-----------------------------------------------------------------------------
(* Induction *)

\* A set of numbers has a least element: initial segments are finite, and finite
\* sets are well-founded under strict inclusion.
LEMMA LowestNumber ==
    ASSUME NEW T \in SUBSET Nat, T # {}
    PROVE  \E x \in T : \A y \in T : x <= y
  <1> DEFINE U == {0 .. n : n \in T}
             R == StrictSubsetOrdering(Nat)
  <1>1. U \subseteq FiniteSubsetsOf(Nat)
    <2> SUFFICES ASSUME NEW n \in T PROVE 0 .. n \in FiniteSubsetsOf(Nat)
      OBVIOUS
    <2>1. n \in Int /\ IsFiniteSet(0 .. n)
      BY FS_Interval
    <2> QED BY <2>1 DEF FiniteSubsetsOf
  <1>2. U # {}
    OBVIOUS
  <1>3. IsWellFoundedOn(R, FiniteSubsetsOf(Nat))
    BY FS_StrictSubsetOrderingWellFounded
  <1>4. PICK u \in U : \A v \in U : ~(<<v, u>> \in R)
    <2> HIDE DEF U, R
    <2> QED BY <1>1, <1>2, <1>3, WFMin
  <1>5. PICK x \in T : u = 0 .. x
    OBVIOUS
  <1>6. ASSUME NEW y \in T, y < x PROVE FALSE
    <2>1. 0 .. y \subseteq 0 .. x /\ x \in 0 .. x /\ x \notin 0 .. y
      BY <1>6
    <2>2. 0 .. y \in SUBSET Nat /\ 0 .. x \in SUBSET Nat
      OBVIOUS
    <2>3. <<0 .. y, 0 .. x>> \in R
      BY <2>1, <2>2 DEF StrictSubsetOrdering
    <2> QED BY <1>4, <1>5, <2>3
  <1> QED BY <1>6

\* Induction, for a set of numbers.
LEMMA StepByStep ==
    ASSUME NEW S, 0 \in S, \A n \in Nat : n \in S => n + 1 \in S
    PROVE  Nat \subseteq S
  <1> DEFINE T == Nat \ S
  <1> SUFFICES ASSUME T # {} PROVE FALSE
    OBVIOUS
  <1>1. PICK x \in T : \A y \in T : x <= y
    <2> HIDE DEF T
    <2>1. T \in SUBSET Nat
      BY DEF T
    <2> QED BY <2>1, LowestNumber
  <1>2. x # 0 /\ x - 1 \in Nat /\ x - 1 < x /\ (x - 1) + 1 = x
    OBVIOUS
  <1>3. x - 1 \in S
    BY <1>1, <1>2
  <1> QED BY <1>2, <1>3

-----------------------------------------------------------------------------
(* The environment *)

\* The constants are numbers, and none that divides is 0.
LEMMA TrainLimits ==
    /\ MaxSteps \in Nat /\ MaxSteps >= 1 /\ Episodes \in Nat /\ Episodes >= 1 /\ Batch \in Nat /\ Batch >= 1
    /\ Iterations \in Nat /\ Iterations >= 1 /\ Epochs \in Nat /\ Epochs >= 1
    /\ Minibatch \in Nat /\ Minibatch >= 1 /\ Gamma \in Nat /\ Lambda \in Nat
    /\ Cats \subseteq Categories /\ Acts \subseteq DeceptionAction /\ Values \subseteq Int
  BY MaxStepsAssumption, TrainingAssumption

\* A step of the environment counts one command and stays below the cap.
LEMMA EnvSteps ==
    ASSUME NEW e \in EnvType, e.step < MaxSteps, NEW act, NEW leaves \in BOOLEAN, NEW next \in Cats
    PROVE  /\ EnvStep(e, act, leaves, next) \in EnvType
           /\ EnvStep(e, act, leaves, next).step = e.step + 1
           /\ EnvStep(e, act, leaves, next).commands = e.commands + 1
           /\ ~EnvStep(e, act, leaves, next).done => e.step + 1 < MaxSteps
  <1>1. e.step \in Nat /\ e.commands \in Nat /\ e.bait \in Nat /\ e.cat \in Categories /\ e.seen \subseteq Categories
    BY DEF EnvType
  <1>2. next \in Categories /\ MaxSteps \in Nat
    BY TrainLimits
  <1>3. PICK end \in BOOLEAN : end <=> (leaves \/ e.step + 1 >= MaxSteps)
    OBVIOUS
  <1>4. PICK more \in {0, 1} : more = IF Effects(e.cat, act).bait > 0 THEN 1 ELSE 0
    OBVIOUS
  <1>5. EnvStep(e, act, leaves, next) =
            [step |-> e.step + 1, cat |-> IF end THEN e.cat ELSE next, seen |-> e.seen \union {e.cat},
             commands |-> e.commands + 1, bait |-> e.bait + more, done |-> end]
    BY <1>3, <1>4 DEF EnvStep
  <1>6. e.step + 1 \in 0 .. MaxSteps /\ (~end => e.step + 1 < MaxSteps)
    BY <1>1, <1>2, <1>3
  <1> QED BY <1>1, <1>2, <1>5, <1>6 DEF EnvType

\* A reward is a number.
LEMMA RewardIs == ASSUME NEW e, NEW act PROVE StepReward(e, act) \in Int
  <1>1. Effects(e.cat, act).cap \in Int /\ Effects(e.cat, act).bait \in Int
    BY DEF Effects
  <1> QED BY <1>1 DEF StepReward

-----------------------------------------------------------------------------
(* Targets *)

\* f is computed backwards from the steps in last.
Backwards(f, n, c, k, last) == f = [t \in 1 .. n |-> IF t \in last THEN c[t] ELSE c[t] + k * f[t + 1]]

\* There is such a function, if the last step is one of them.
LEMMA BackwardsExists ==
    ASSUME NEW n \in Nat, NEW c, \A t \in 1 .. n : c[t] \in Int, NEW k \in Int, NEW last, n \in last
    PROVE  \E f \in [1 .. n -> Int] : Backwards(f, n, c, k, last)
  <1> DEFINE back(f, t) == IF t \in last THEN c[t] ELSE c[t] + k * f[t + 1]
             N == {j \in Nat : \E f \in [1 .. n -> Int] : \A t \in 1 .. n : t + j > n => f[t] = back(f, t)}
  <1>1. 0 \in N
    <2>1. [t \in 1 .. n |-> 0] \in [1 .. n -> Int] /\ \A t \in 1 .. n : ~(t + 0 > n)
      OBVIOUS
    <2> QED BY <2>1
  <1>2. ASSUME NEW j \in Nat, j \in N PROVE j + 1 \in N
    <2>1. PICK f \in [1 .. n -> Int] : \A t \in 1 .. n : t + j > n => f[t] = back(f, t)
      BY <1>2
    <2>2. ASSUME NEW t \in 1 .. n PROVE back(f, t) \in Int
      <3>1. CASE t \in last
        BY <3>1
      <3>2. CASE t \notin last
        <4>1. t + 1 \in 1 .. n
          BY <3>2
        <4>2. f[t + 1] \in Int /\ c[t] \in Int
          BY <2>1, <4>1
        <4>3. PICK z \in Int : z = k * f[t + 1]
          BY <4>2
        <4>4. back(f, t) = c[t] + z
          BY <3>2, <4>3
        <4> HIDE DEF back
        <4> QED BY <4>2, <4>4
      <3> QED BY <3>1, <3>2
    <2> DEFINE g == [t \in 1 .. n |-> back(f, t)]
    <2>3. g \in [1 .. n -> Int]
      <3> HIDE DEF back
      <3> QED BY <2>2
    <2>4. ASSUME NEW t \in 1 .. n, t + (j + 1) > n PROVE g[t] = back(g, t)
      <3>1. CASE t \in last
        BY <3>1
      <3>2. CASE t \notin last
        <4>1. t + 1 \in 1 .. n /\ (t + 1) + j > n
          BY <2>4, <3>2
        <4>2. f[t + 1] = back(f, t + 1)
          <5> HIDE DEF back
          <5> QED BY <2>1, <4>1
        <4>3. g[t + 1] = back(f, t + 1) /\ g[t] = back(f, t)
          <5> HIDE DEF back
          <5> QED BY <4>1
        <4>4. g[t + 1] = f[t + 1]
          <5> HIDE DEF back, g
          <5> QED BY <4>2, <4>3
        <4>5. back(f, t) = c[t] + k * f[t + 1] /\ back(g, t) = c[t] + k * g[t + 1]
          <5> HIDE DEF g
          <5> QED BY <3>2
        <4> HIDE DEF g, back
        <4> QED BY <4>3, <4>4, <4>5
      <3> QED BY <3>1, <3>2
    <2> HIDE DEF g, back
    <2>5. \E h \in [1 .. n -> Int] : \A t \in 1 .. n : t + (j + 1) > n => h[t] = back(h, t)
      BY <2>3, <2>4
    <2> QED BY <2>5
  <1>3. n \in N
    <2> HIDE DEF N
    <2>1. Nat \subseteq N
      BY <1>1, <1>2, StepByStep
    <2> QED BY <2>1
  <1>4. PICK f \in [1 .. n -> Int] : \A t \in 1 .. n : t + n > n => f[t] = back(f, t)
    BY <1>3
  <1>5. f = [t \in 1 .. n |-> back(f, t)]
    <2>1. \A t \in 1 .. n : f[t] = back(f, t)
      <3> HIDE DEF back
      <3> QED BY <1>4
    <2> HIDE DEF back
    <2> QED BY <2>1
  <1> QED BY <1>5 DEF Backwards

\* The recursions of compute_gae and _discounted_returns.
IsGae(A, s) ==
    A = [t \in 1 .. Len(s) |->
            LET next  == IF s[t].done THEN 0 ELSE s[t + 1].value
                delta == s[t].reward + Gamma * next - s[t].value
            IN  delta + (IF s[t].done THEN 0 ELSE Gamma * Lambda * A[t + 1])]

IsReturns(R, s) ==
    R = [t \in 1 .. Len(s) + 1 |-> IF t > Len(s) THEN 0 ELSE s[t].reward + Gamma * R[t + 1]]

\* A trajectory: only its last step is done.
Trajectory(s) == s \in Seq(Samples) /\ s # <<>> /\ \A t \in 1 .. Len(s) : s[t].done = (t = Len(s))

\* A trajectory has a last step, and every other one a next.
LEMMA TrajectoryIs ==
    ASSUME NEW s, Trajectory(s)
    PROVE  /\ Len(s) \in Nat /\ Len(s) >= 1 /\ DOMAIN s = 1 .. Len(s) /\ s[Len(s)].done
           /\ \A t \in 1 .. Len(s) : /\ s[t] \in Samples /\ s[t].reward \in Int /\ s[t].value \in Int
                                     /\ ~s[t].done => t # Len(s) /\ t + 1 \in 1 .. Len(s)
  <1>1. Len(s) \in Nat /\ Len(s) >= 1 /\ DOMAIN s = 1 .. Len(s) /\ s \in Seq(Samples)
    BY DEF Trajectory
  <1>2. \A t \in 1 .. Len(s) : s[t].done <=> t = Len(s)
    BY DEF Trajectory
  <1>3. \A t \in 1 .. Len(s) : s[t] \in Samples
    BY <1>1
  <1>4. \A x \in Samples : x.reward \in Int /\ x.value \in Int
    BY DEF Samples
  <1>0. PICK n \in Nat : n = Len(s) /\ n >= 1
    BY <1>1
  <1>5. s[Len(s)].done
    <2>1. n \in 1 .. n
      BY <1>0
    <2> QED BY <1>0, <1>2, <2>1
  <1>6. ASSUME NEW t \in 1 .. Len(s), ~s[t].done PROVE t # Len(s) /\ t + 1 \in 1 .. Len(s)
    <2>1. t # Len(s)
      BY <1>2, <1>6
    <2>2. t \in 1 .. n /\ t # n
      BY <1>0, <2>1
    <2>3. t + 1 \in 1 .. n
      BY <2>2
    <2> QED BY <1>0, <2>1, <2>3
  <1>7. \A t \in 1 .. Len(s) : s[t].reward \in Int /\ s[t].value \in Int
    BY <1>3, <1>4
  <1> QED BY <1>1, <1>3, <1>5, <1>6, <1>7

\* compute_gae computes one advantage for every step of a trajectory.
LEMMA GaeIs ==
    ASSUME NEW s, Trajectory(s)
    PROVE  IsGae(Gae(s), s) /\ Gae(s) \in [1 .. Len(s) -> Int]
  <1> DEFINE n == Len(s)
             last == {t \in 1 .. n : s[t].done}
             nextValue(t) == IF s[t].done THEN 0 ELSE s[t + 1].value
             c == [t \in 1 .. n |-> s[t].reward + Gamma * nextValue(t) - s[t].value]
             k == Gamma * Lambda
  <1>1. Gae(s) = CHOOSE A : IsGae(A, s)
    BY DEF Gae, IsGae
  <1>2. ASSUME NEW t \in 1 .. n PROVE c[t] \in Int
    <2>1. nextValue(t) \in Int /\ s[t].reward \in Int /\ s[t].value \in Int
      BY TrajectoryIs
    <2> DEFINE v == nextValue(t)
    <2>2. c[t] = s[t].reward + Gamma * v - s[t].value
      OBVIOUS
    <2>3. v \in Int
      BY <2>1
    <2> HIDE DEF v, c
    <2>4. Gamma * v \in Int
      BY <2>3, TrainLimits
    <2> QED BY <2>1, <2>2, <2>4
  <1>3. n \in last /\ n \in Nat /\ k \in Int
    BY TrajectoryIs, TrainLimits
  <1>4. PICK f \in [1 .. n -> Int] : Backwards(f, n, c, k, last)
    <2> HIDE DEF n, last, c, k
    <2> QED BY <1>2, <1>3, BackwardsExists
  <1>5. IsGae(f, s)
    <2> DEFINE body(t) == LET next  == IF s[t].done THEN 0 ELSE s[t + 1].value
                              delta == s[t].reward + Gamma * next - s[t].value
                          IN  delta + (IF s[t].done THEN 0 ELSE Gamma * Lambda * f[t + 1])
    <2>1. f = [t \in 1 .. n |-> IF t \in last THEN c[t] ELSE c[t] + k * f[t + 1]]
      BY <1>4 DEF Backwards
    <2>2. ASSUME NEW t \in 1 .. n PROVE f[t] = body(t)
      <3>1. f[t] = IF t \in last THEN c[t] ELSE c[t] + k * f[t + 1]
        <4> HIDE DEF n, last, c, k
        <4> QED BY <2>1
      <3>2. c[t] = s[t].reward + Gamma * nextValue(t) - s[t].value /\ c[t] \in Int
        BY <1>2
      <3> HIDE DEF c
      <3>3. CASE s[t].done
        <4>1. f[t] = c[t] /\ body(t) = c[t] + 0
          BY <3>1, <3>2, <3>3
        <4> HIDE DEF body
        <4> QED BY <3>2, <4>1
      <3>4. CASE ~s[t].done
        BY <3>1, <3>2, <3>4
      <3> QED BY <3>3, <3>4
    <2>3. f = [t \in 1 .. n |-> body(t)]
      <3> HIDE DEF n, body
      <3> QED BY <1>4, <2>2
    <2> QED BY <2>3 DEF IsGae
  <1>6. IsGae(Gae(s), s)
    BY <1>1, <1>5
  <1>7. ASSUME NEW A, IsGae(A, s) PROVE \A t \in 1 .. n : A[t] \in Int
    <2> DEFINE N == {j \in Nat : \A t \in 1 .. n : t + j > n => A[t] \in Int}
    <2>1. 0 \in N
      BY <1>3
    <2>2. ASSUME NEW j \in Nat, j \in N PROVE j + 1 \in N
      <3> SUFFICES ASSUME NEW t \in 1 .. n, t + (j + 1) > n PROVE A[t] \in Int
        OBVIOUS
      <3>1. c[t] \in Int /\ c[t] = s[t].reward + Gamma * nextValue(t) - s[t].value
        BY <1>2
      <3> HIDE DEF c
      <3>2. A[t] = c[t] + (IF s[t].done THEN 0 ELSE k * A[t + 1])
        BY <1>7, <3>1 DEF IsGae
      <3>3. CASE s[t].done
        BY <3>1, <3>2, <3>3
      <3>4. CASE ~s[t].done
        <4>1. t + 1 \in 1 .. n /\ (t + 1) + j > n
          BY <1>3, <3>4, TrajectoryIs
        <4>2. A[t + 1] \in Int
          BY <2>2, <4>1
        <4> HIDE DEF k
        <4>3. k * A[t + 1] \in Int
          BY <1>3, <4>2
        <4> QED BY <3>1, <3>2, <3>4, <4>3
      <3> QED BY <3>3, <3>4
    <2>3. n \in N
      <3> HIDE DEF N
      <3>1. Nat \subseteq N
        BY <2>1, <2>2, StepByStep
      <3> QED BY <1>3, <3>1
    <2> QED BY <1>3, <2>3
  <1>8. Gae(s) \in [1 .. n -> Int]
    <2>1. \A t \in 1 .. n : Gae(s)[t] \in Int
      BY <1>6, <1>7
    <2> HIDE DEF c, last, k
    <2> QED BY <1>6, <2>1 DEF IsGae
  <1> QED BY <1>6, <1>8

\* _discounted_returns computes one return for every step of a trajectory.
LEMMA ReturnsAre ==
    ASSUME NEW s, Trajectory(s)
    PROVE  /\ DiscountedReturns(s) \in [1 .. Len(s) -> Int]
           /\ \A t \in 1 .. Len(s) :
                  DiscountedReturns(s)[t] = s[t].reward + (IF s[t].done THEN 0 ELSE Gamma * DiscountedReturns(s)[t + 1])
  <1> DEFINE n == Len(s)
             m == n + 1
             last == {m}
             c == [t \in 1 .. m |-> IF t > n THEN 0 ELSE s[t].reward]
             R == CHOOSE A : IsReturns(A, s)
  <1>1. DiscountedReturns(s) = [t \in 1 .. n |-> R[t]]
    BY DEF DiscountedReturns, IsReturns
  <1>2. n \in Nat /\ n >= 1 /\ m \in Nat /\ m \in last /\ Gamma \in Int
    BY TrajectoryIs, TrainLimits
  <1>3. ASSUME NEW t \in 1 .. m PROVE c[t] \in Int
    <2>1. CASE t > n
      BY <2>1
    <2>2. CASE ~(t > n)
      <3>1. t \in 1 .. n
        BY <1>2, <2>2
      <3>2. s[t].reward \in Int
        BY <3>1, TrajectoryIs
      <3> QED BY <2>2, <3>2
    <2> QED BY <2>1, <2>2
  <1>4. PICK f \in [1 .. m -> Int] : Backwards(f, m, c, Gamma, last)
    <2> HIDE DEF m, last, c
    <2> QED BY <1>2, <1>3, BackwardsExists
  <1>5. IsReturns(f, s)
    <2> DEFINE body(t) == IF t > Len(s) THEN 0 ELSE s[t].reward + Gamma * f[t + 1]
    <2>1. f = [t \in 1 .. m |-> IF t \in last THEN c[t] ELSE c[t] + Gamma * f[t + 1]]
      BY <1>4 DEF Backwards
    <2>2. ASSUME NEW t \in 1 .. m PROVE f[t] = body(t)
      <3>1. f[t] = IF t \in last THEN c[t] ELSE c[t] + Gamma * f[t + 1]
        <4> HIDE DEF m, last, c
        <4> QED BY <2>1
      <3>2. c[t] = IF t > n THEN 0 ELSE s[t].reward
        OBVIOUS
      <3>3. t \in last <=> t > n
        BY <1>2
      <3> HIDE DEF c, last
      <3> QED BY <3>1, <3>2, <3>3
    <2>3. f = [t \in 1 .. m |-> body(t)]
      <3> HIDE DEF m, body
      <3> QED BY <1>4, <2>2
    <2> QED BY <2>3 DEF IsReturns
  <1>6. IsReturns(R, s)
    BY <1>5
  <1> HIDE DEF R
  <1>7. /\ R[m] = 0
        /\ \A t \in 1 .. n : R[t] = s[t].reward + Gamma * R[t + 1]
    <2>1. \A t \in 1 .. m : R[t] = IF t > n THEN 0 ELSE s[t].reward + Gamma * R[t + 1]
      BY <1>6 DEF IsReturns
    <2>2. m \in 1 .. m /\ m > n /\ \A t \in 1 .. n : t \in 1 .. m /\ ~(t > n)
      BY <1>2
    <2> HIDE DEF m, n
    <2> QED BY <2>1, <2>2
  <1>8. \A t \in 1 .. m : R[t] \in Int
    <2> DEFINE N == {j \in Nat : \A t \in 1 .. m : t + j >= m => R[t] \in Int}
    <2>1. 0 \in N
      BY <1>2, <1>7
    <2>2. ASSUME NEW j \in Nat, j \in N PROVE j + 1 \in N
      <3> SUFFICES ASSUME NEW t \in 1 .. m, t + (j + 1) >= m PROVE R[t] \in Int
        OBVIOUS
      <3>1. CASE t = m
        BY <1>7, <3>1
      <3>2. CASE t # m
        <4>1. t \in 1 .. n /\ t + 1 \in 1 .. m /\ (t + 1) + j >= m
          BY <1>2, <3>2
        <4>2. R[t + 1] \in Int /\ s[t].reward \in Int
          BY <2>2, <4>1, TrajectoryIs
        <4>3. Gamma * R[t + 1] \in Int
          BY <1>2, <4>2
        <4>4. R[t] = s[t].reward + Gamma * R[t + 1]
          BY <1>7, <4>1
        <4> QED BY <4>2, <4>3, <4>4
      <3> QED BY <3>1, <3>2
    <2>3. m \in N
      <3> HIDE DEF N
      <3>1. Nat \subseteq N
        BY <2>1, <2>2, StepByStep
      <3> QED BY <1>2, <3>1
    <2> QED BY <1>2, <2>3
  <1>9. ASSUME NEW t \in 1 .. n
        PROVE  DiscountedReturns(s)[t] = s[t].reward + (IF s[t].done THEN 0 ELSE Gamma * DiscountedReturns(s)[t + 1])
    <2>1. DiscountedReturns(s)[t] = s[t].reward + Gamma * R[t + 1]
      BY <1>1, <1>7
    <2>2. CASE s[t].done
      <3>1. t = n
        BY <2>2 DEF Trajectory
      <3>2. R[t + 1] = 0
        BY <1>7, <3>1
      <3>3. Gamma * R[t + 1] = 0
        BY <1>2, <3>2
      <3> QED BY <2>1, <2>2, <3>3
    <2>3. CASE ~s[t].done
      <3>1. t + 1 \in 1 .. n
        BY <2>3, TrajectoryIs
      <3>2. DiscountedReturns(s)[t + 1] = R[t + 1]
        BY <1>1, <3>1
      <3> QED BY <2>1, <2>3, <3>2
    <2> QED BY <2>2, <2>3
  <1>10. DiscountedReturns(s) \in [1 .. n -> Int]
    <2>1. \A t \in 1 .. n : R[t] \in Int
      BY <1>2, <1>8
    <2> QED BY <1>1, <2>1
  <1> QED BY <1>9, <1>10

\* The targets of an episode: numbers, which satisfy the equation of lambda-returns.
LEMMA TargetsAre ==
    ASSUME NEW s, Trajectory(s)
    PROVE  /\ Targets(s) \in [1 .. Len(s) -> Int]
           /\ \A t \in 1 .. Len(s) :
                  Targets(s)[t] = s[t].reward
                      + (IF s[t].done THEN 0 ELSE Gamma * Carried(s[t + 1].value, Targets(s)[t + 1]))
  <1>1. CASE algo # "ppo"
    <2>1. Targets(s) = DiscountedReturns(s)
      BY <1>1 DEF Targets
    <2>2. \A v, g : Carried(v, g) = g
      BY <1>1 DEF Carried
    <2> QED BY <2>1, <2>2, ReturnsAre
  <1>2. CASE algo = "ppo"
    <2>0. \A v, g : Carried(v, g) = (1 - Lambda) * v + Lambda * g
      BY <1>2 DEF Carried
    <2> DEFINE A == Gae(s)
               n == Len(s)
    <2>1. Targets(s) = [t \in 1 .. n |-> A[t] + s[t].value]
      BY <1>2 DEF Targets
    <2>2. A \in [1 .. n -> Int] /\ IsGae(A, s)
      BY GaeIs
    <2> HIDE DEF A
    <2>3. Targets(s) \in [1 .. n -> Int]
      <3>1. \A t \in 1 .. n : A[t] \in Int /\ s[t].value \in Int
        BY <2>2, TrajectoryIs
      <3> QED BY <2>1, <3>1
    <2>4. ASSUME NEW t \in 1 .. n
          PROVE  Targets(s)[t] = s[t].reward
                     + (IF s[t].done THEN 0 ELSE Gamma * Carried(s[t + 1].value, Targets(s)[t + 1]))
      <3>1. /\ A[t] \in Int /\ s[t].value \in Int /\ s[t].reward \in Int
            /\ Gamma \in Int /\ Lambda \in Int /\ Targets(s)[t] = A[t] + s[t].value
        BY <2>1, <2>2, TrajectoryIs, TrainLimits
      <3>2. CASE s[t].done
        <4>1. A[t] = s[t].reward + Gamma * 0 - s[t].value + 0
          BY <2>2, <3>2 DEF IsGae
        <4> QED BY <3>1, <3>2, <4>1
      <3>3. CASE ~s[t].done
        <4>1. t + 1 \in 1 .. n
          BY <3>3, TrajectoryIs
        <4>2. A[t + 1] \in Int /\ s[t + 1].value \in Int /\ Targets(s)[t + 1] = A[t + 1] + s[t + 1].value
          BY <2>1, <2>2, <4>1, TrajectoryIs
        <4>3. A[t] = s[t].reward + Gamma * s[t + 1].value - s[t].value + Gamma * Lambda * A[t + 1]
          BY <2>2, <3>3 DEF IsGae
        <4>4. \A g, k, a, v, a1, v1, q \in Int :
                  a = q + g * v1 - v + g * k * a1 => a + v = q + g * ((1 - k) * v1 + k * (a1 + v1))
          BY SMTT(30)
        <4>5. A[t] + s[t].value = s[t].reward
                  + Gamma * ((1 - Lambda) * s[t + 1].value + Lambda * (A[t + 1] + s[t + 1].value))
          <5> DEFINE a == A[t]
                     v == s[t].value
                     a1 == A[t + 1]
                     v1 == s[t + 1].value
                     q == s[t].reward
          <5>1. a \in Int /\ v \in Int /\ a1 \in Int /\ v1 \in Int /\ q \in Int
            BY <3>1, <4>2
          <5>2. a = q + Gamma * v1 - v + Gamma * Lambda * a1
            BY <4>3
          <5> HIDE DEF a, v, a1, v1, q
          <5>3. a + v = q + Gamma * ((1 - Lambda) * v1 + Lambda * (a1 + v1))
            BY <3>1, <4>4, <5>1, <5>2
          <5> QED BY <5>3 DEF a, v, a1, v1, q
        <4>6. Carried(s[t + 1].value, Targets(s)[t + 1])
                = (1 - Lambda) * s[t + 1].value + Lambda * (A[t + 1] + s[t + 1].value)
          BY <2>0, <4>2
        <4> QED BY <3>1, <3>3, <4>5, <4>6
      <3> QED BY <3>2, <3>3
    <2> QED BY <2>3, <2>4
  <1> QED BY <1>1, <1>2

-----------------------------------------------------------------------------
(* The jobs of main() *)

\* The trainers come first, each once, in the order of main().
LEMMA PlannedIs ==
    ASSUME NEW S \in SUBSET Trainers
    PROVE  /\ Planned(S) # <<>>
           /\ S = {} => Head(Planned(S)) = "evaluate" /\ Tail(Planned(S)) = <<"save">>
           /\ S # {} => Head(Planned(S)) \in S /\ Tail(Planned(S)) = Planned(S \ {Head(Planned(S))})
  <1> DEFINE J == {"bandit", "reinforce", "ppo", "evaluate", "save"}
             E == <<"evaluate", "save">>
             P3(r) == IF "ppo" \in r THEN <<"ppo">> \o E ELSE E
             P2(r) == IF "reinforce" \in r THEN <<"reinforce">> \o P3(r) ELSE P3(r)
  <1>0. "bandit" \in J /\ "reinforce" \in J /\ "ppo" \in J /\ "evaluate" \in J /\ "save" \in J
    OBVIOUS
  <1> HIDE DEF J
  <1>1. \A r : Planned(r) = IF "bandit" \in r THEN <<"bandit">> \o P2(r) ELSE P2(r)
    BY DEF Planned
  <1>2. \A j \in J, q \in Seq(J) :
            <<j>> \o q \in Seq(J) /\ <<j>> \o q # <<>> /\ Head(<<j>> \o q) = j /\ Tail(<<j>> \o q) = q
    <2> SUFFICES ASSUME NEW j \in J, NEW q \in Seq(J)
                 PROVE  <<j>> \o q \in Seq(J) /\ <<j>> \o q # <<>> /\ Head(<<j>> \o q) = j /\ Tail(<<j>> \o q) = q
      OBVIOUS
    <2>1. <<j>> \in Seq(J) /\ Len(<<j>>) = 1 /\ <<j>>[1] = j
      OBVIOUS
    <2>2. <<j>> \o q \in Seq(J) /\ Len(<<j>> \o q) = 1 + Len(q) /\ Len(q) \in Nat
      BY <2>1
    <2>3. (<<j>> \o q)[1] = j /\ \A i \in 1 .. Len(q) : (<<j>> \o q)[i + 1] = q[i]
      BY <2>1, <2>2
    <2>4. <<j>> \o q # <<>> /\ Head(<<j>> \o q) = j
      BY <2>2, <2>3
    <2>5. Tail(<<j>> \o q) \in Seq(J) /\ Len(Tail(<<j>> \o q)) = Len(q)
      BY <2>2, <2>4
    <2>6. \A i \in 1 .. Len(q) : Tail(<<j>> \o q)[i] = q[i]
      BY <2>2, <2>3, <2>4
    <2>7. Tail(<<j>> \o q) = q
      BY <2>5, <2>6, SeqEqual
    <2> QED BY <2>2, <2>4, <2>7
  <1>3. E \in Seq(J) /\ E # <<>> /\ Head(E) = "evaluate" /\ Tail(E) = <<"save">>
    <2>1. E \in Seq(J) /\ Len(E) = 2 /\ E[1] = "evaluate" /\ E[2] = "save"
      BY <1>0
    <2>2. E # <<>> /\ Head(E) = "evaluate"
      BY <2>1
    <2>3. Tail(E) \in Seq(J) /\ Len(Tail(E)) = 1 /\ Tail(E)[1] = "save"
      BY <2>1
    <2>4. <<"save">> \in Seq(J) /\ Len(<<"save">>) = 1 /\ <<"save">>[1] = "save"
      BY <1>0
    <2>5. \A i \in 1 .. Len(<<"save">>) : Tail(E)[i] = <<"save">>[i]
      BY <2>3, <2>4
    <2>6. Tail(E) = <<"save">>
      BY <2>3, <2>4, <2>5, SeqEqual
    <2> QED BY <2>1, <2>2, <2>6
  <1> HIDE DEF E
  <1>4. \A r : P3(r) \in Seq(J)
    BY <1>0, <1>2, <1>3
  <1>5. \A r : P2(r) \in Seq(J)
    <2> HIDE DEF P3
    <2> QED BY <1>0, <1>2, <1>4
  <1>6. CASE "bandit" \in S
    <2>1. Planned(S) = <<"bandit">> \o P2(S) /\ Planned(S \ {"bandit"}) = P2(S \ {"bandit"})
      BY <1>1, <1>6
    <2>2. P2(S \ {"bandit"}) = P2(S)
      OBVIOUS
    <2> HIDE DEF P2, P3
    <2>3. Planned(S) # <<>> /\ Head(Planned(S)) = "bandit" /\ Tail(Planned(S)) = P2(S)
      BY <1>0, <1>2, <1>5, <2>1
    <2> QED BY <1>6, <2>1, <2>2, <2>3
  <1>7. CASE "bandit" \notin S /\ "reinforce" \in S
    <2>1. Planned(S) = <<"reinforce">> \o P3(S) /\ Planned(S \ {"reinforce"}) = P3(S \ {"reinforce"})
      BY <1>1, <1>7
    <2>2. P3(S \ {"reinforce"}) = P3(S)
      OBVIOUS
    <2> HIDE DEF P2, P3
    <2>3. Planned(S) # <<>> /\ Head(Planned(S)) = "reinforce" /\ Tail(Planned(S)) = P3(S)
      BY <1>0, <1>2, <1>4, <2>1
    <2> QED BY <1>7, <2>1, <2>2, <2>3
  <1>8. CASE "bandit" \notin S /\ "reinforce" \notin S /\ "ppo" \in S
    <2>1. Planned(S) = <<"ppo">> \o E /\ Planned(S \ {"ppo"}) = E
      BY <1>1, <1>8
    <2>2. Planned(S) # <<>> /\ Head(Planned(S)) = "ppo" /\ Tail(Planned(S)) = E
      BY <1>0, <1>2, <1>3, <2>1
    <2> QED BY <1>8, <2>1, <2>2
  <1>9. CASE S = {}
    <2>1. Planned(S) = E
      BY <1>1, <1>9
    <2> QED BY <1>3, <1>9, <2>1
  <1> QED BY <1>6, <1>7, <1>8, <1>9 DEF Trainers

\* What is at the head of the jobs, and what is left after it.
LEMMA JobIs ==
    ASSUME JobsLeft
    PROVE  /\ algo \in Trainers \union {"evaluate", "save", "none"}
           /\ algo = "none" <=> jobs = <<>>
           /\ algo \in {"save", "none"} => DOMAIN trained \in Requests
           /\ algo \in Trainers =>
                  \E r \in Requests : /\ DOMAIN trained \subseteq r /\ algo \in r \ DOMAIN trained
                                      /\ Tail(jobs) = Planned(r \ (DOMAIN trained \union {algo}))
           /\ algo = "evaluate" => DOMAIN trained \in Requests /\ Tail(jobs) = <<"save">>
  <1>1. PICK r \in Requests :
            /\ DOMAIN trained \subseteq r
            /\ \/ jobs = Planned(r \ DOMAIN trained)
               \/ DOMAIN trained = r /\ jobs \in {<<"save">>, <<>>}
    BY DEF JobsLeft
  <1>2. r \ DOMAIN trained \in SUBSET Trainers
    BY TrainingAssumption DEF Trainers
  <1>3. CASE jobs = <<>> /\ DOMAIN trained = r
    BY <1>3 DEF algo, Trainers
  <1>4. CASE jobs = <<"save">> /\ DOMAIN trained = r
    <2>1. jobs # <<>> /\ algo = "save"
      BY <1>4 DEF algo
    <2> QED BY <1>4, <2>1 DEF Trainers
  <1>5. CASE jobs = Planned(r \ DOMAIN trained)
    <2> DEFINE S == r \ DOMAIN trained
    <2>1. jobs # <<>> /\ algo = Head(Planned(S)) /\ Tail(jobs) = Tail(Planned(S))
      BY <1>2, <1>5, PlannedIs DEF algo
    <2>2. CASE S = {}
      <3>1. algo = "evaluate" /\ Tail(jobs) = <<"save">>
        BY <1>2, <2>1, <2>2, PlannedIs
      <3>2. DOMAIN trained = r
        BY <1>1, <2>2
      <3> QED BY <2>1, <3>1, <3>2 DEF Trainers
    <2>3. CASE S # {}
      <3>1. algo \in S /\ Tail(jobs) = Planned(S \ {algo})
        BY <1>2, <2>1, <2>3, PlannedIs
      <3>2. S \ {algo} = r \ (DOMAIN trained \union {algo})
        OBVIOUS
      <3>3. algo \in Trainers /\ algo \notin {"evaluate", "save", "none"}
        BY <1>2, <3>1 DEF Trainers
      <3> QED BY <1>1, <2>1, <3>1, <3>2, <3>3
    <2> QED BY <2>2, <2>3
  <1> QED BY <1>1, <1>3, <1>4, <1>5

\* The numbers of rounds and of episodes in one.
LEMMA RoundsAre ==
    ASSUME JobsLeft
    PROVE  /\ BatchSize \in Nat /\ BatchSize >= 1 /\ BatchSize <= Batch /\ Rounds \in Nat
           /\ algo \in {"bandit", "reinforce", "ppo", "evaluate"} => Rounds >= 1
           /\ algo \in {"save", "none"} => BatchSize = 1 /\ Rounds = 0
           /\ algo = "reinforce" => /\ BatchSize = Batch
                                    /\ Rounds = IF Episodes \div Batch > 1 THEN Episodes \div Batch ELSE 1
  <1>1. algo \in {"bandit", "reinforce", "ppo", "evaluate", "save", "none"}
    BY JobIs DEF Trainers
  <1>2. PICK q \in Nat : q = Episodes \div Batch
    BY TrainLimits
  <1> HIDE DEF algo
  <1>3. CASE algo \in {"bandit", "evaluate"}
    BY <1>3, TrainLimits DEF BatchSize, Rounds
  <1>4. CASE algo = "reinforce"
    BY <1>2, <1>4, TrainLimits DEF BatchSize, Rounds
  <1>5. CASE algo = "ppo"
    BY <1>5, TrainLimits DEF BatchSize, Rounds
  <1>6. CASE algo \in {"save", "none"}
    BY <1>6, TrainLimits DEF BatchSize, Rounds
  <1> QED BY <1>1, <1>3, <1>4, <1>5, <1>6

-----------------------------------------------------------------------------
(* The invariant is inductive *)

\* A step inside a job leaves what main() plans.
LEMMA SameJob ==
    ASSUME JobsLeft, UNCHANGED <<jobs, trained>>
    PROVE  JobsLeft' /\ algo' = algo /\ BatchSize' = BatchSize /\ Rounds' = Rounds
  <1>1. algo' = algo
    BY DEF algo
  <1>2. JobsLeft'
    BY DEF JobsLeft
  <1>3. BatchSize' = BatchSize /\ Rounds' = Rounds
    BY <1>1 DEF BatchSize, Rounds
  <1> QED BY <1>1, <1>2, <1>3

\* The invariant holds when main() starts.
LEMMA TrainInitially == TrainInit => TrainInv
  <1> SUFFICES ASSUME TrainInit PROVE TrainInv
    OBVIOUS
  <1>1. /\ trained = <<>> /\ DOMAIN trained = {} /\ env = EnvIdle /\ ep = <<>> /\ buf = <<>> /\ pc = "collect"
        /\ eps = 0 /\ it = 0 /\ ver = 0 /\ base = 0 /\ hist = 0 /\ pass = 0 /\ start = 0
    BY DEF TrainInit
  <1>2. PICK r \in Requests : jobs = Planned(r)
    BY DEF TrainInit
  <1>3. JobsLeft
    <2>1. r \ DOMAIN trained = r
      BY <1>1
    <2> QED BY <1>1, <1>2, <2>1 DEF JobsLeft
  <1>4. env \in EnvType /\ env.step = 0 /\ env.commands = 0 /\ env.done
    <2>1. EnvIdle \in EnvType
      BY TrainLimits DEF EnvIdle, EnvType, Categories
    <2> QED BY <1>1, <2>1 DEF EnvIdle
  <1>5. TrainTypes
    BY <1>1, <1>4 DEF TrainTypes
  <1>6. jobs # <<>> /\ algo # "none"
    <2>1. jobs # <<>>
      BY <1>2, PlannedIs, TrainingAssumption DEF Trainers
    <2> QED BY <1>3, <2>1, JobIs
  <1>7. Progress
    <2>1. hist = it * BatchSize + eps /\ Len(buf) <= eps * MaxSteps
      BY <1>1, <1>3, RoundsAre, TrainLimits
    <2>2. algo \notin {"save", "none"} => eps < BatchSize /\ it < Rounds
      BY <1>1, <1>3, RoundsAre, JobIs DEF Trainers
    <2> QED BY <1>1, <1>4, <2>1, <2>2 DEF Progress
  <1>8. EpisodeFollows /\ BatchIsWhole(buf)
    BY <1>1, <1>4 DEF EpisodeFollows, BatchIsWhole
  <1>9. Versions /\ Passes
    BY <1>1, <1>6 DEF Versions, Passes, PassesAreWhole
  <1> QED BY <1>3, <1>5, <1>7, <1>8, <1>9 DEF TrainInv

\* A new episode has no step yet.
LEMMA ResetKeeps == ASSUME TrainInv, ResetEpisode PROVE TrainInv'
  <1> USE DEF TrainInv
  <1>1. /\ pc = "collect" /\ algo \notin {"save", "none"} /\ ep = <<>>
        /\ UNCHANGED <<jobs, trained, saved, pc, ep, buf, eps, it, ver, base, hist, pass, start>>
    BY DEF ResetEpisode
  <1>2. JobsLeft' /\ algo' = algo /\ BatchSize' = BatchSize /\ Rounds' = Rounds
    BY <1>1, SameJob
  <1>3. PICK c \in Cats : env' = EnvReset(c)
    BY DEF ResetEpisode
  <1>4. PICK no \in BOOLEAN : no = FALSE
    OBVIOUS
  <1>5. env' = [step |-> 0, cat |-> c, seen |-> {}, commands |-> 0, bait |-> 0, done |-> no]
    BY <1>3, <1>4 DEF EnvReset, EnvIdle
  <1>6. env' \in EnvType /\ env'.step = 0 /\ env'.commands = 0 /\ ~env'.done
    BY <1>4, <1>5, TrainLimits DEF EnvType
  <1>7. TrainTypes'
    BY <1>1, <1>6 DEF TrainTypes
  <1>8. Progress'
    BY <1>1, <1>2 DEF Progress
  <1>9. EpisodeFollows'
    BY <1>1, <1>6, TrainLimits DEF EpisodeFollows
  <1>10. BatchIsWhole(buf)' /\ Versions'
    BY <1>1, <1>2 DEF BatchIsWhole, Carried, Versions
  <1>11. Passes'
    BY <1>1 DEF Passes, PassesAreWhole
  <1> QED BY <1>2, <1>7, <1>8, <1>9, <1>10, <1>11

\* A turn adds the sample of the step it takes.
LEMMA TurnKeeps ==
    ASSUME TrainInv, NEW acts \in SUBSET DeceptionAction, NEW values \in SUBSET Int, Turn(acts, values),
           ver' \in Nat, algo \in {"reinforce", "ppo"} => ver' = ver
    PROVE  TrainInv'
  <1> USE DEF TrainInv
  <1>1. /\ pc = "collect" /\ ~env.done
        /\ UNCHANGED <<jobs, trained, saved, pc, buf, eps, it, base, hist, pass, start>>
    BY DEF Turn
  <1>2. JobsLeft' /\ algo' = algo /\ BatchSize' = BatchSize /\ Rounds' = Rounds
    BY <1>1, SameJob
  <1>3. PICK a \in acts, leaves \in BOOLEAN, next \in Cats, v \in values :
            /\ env' = EnvStep(env, a, leaves, next)
            /\ ep' = Append(ep, [obs |-> Observe(env), act |-> a, done |-> EnvStep(env, a, leaves, next).done,
                                 reward |-> StepReward(env, a), value |-> v, target |-> 0, ver |-> ver])
    BY DEF Turn
  <1>4. env \in EnvType /\ env.step < MaxSteps /\ env.commands = env.step /\ env.step \in Nat /\ ver \in Nat
        /\ ep \in Seq(Samples) /\ Len(ep) = env.step
    BY <1>1 DEF EpisodeFollows, TrainTypes, EnvType
  <1>5. /\ env' \in EnvType /\ env'.step = env.step + 1 /\ env'.commands = env.commands + 1
        /\ ~env'.done => env.step + 1 < MaxSteps
    BY <1>3, <1>4, EnvSteps
  <1> DEFINE x == [obs |-> Observe(env), act |-> a, done |-> env'.done, reward |-> StepReward(env, a),
                   value |-> v, target |-> 0, ver |-> ver]
  <1>6. ep' = Append(ep, x)
    BY <1>3
  <1>7. x \in Samples /\ x.obs = Observe(env) /\ x.done = env'.done /\ x.ver = ver
    <2>1. Observe(env) \in {Observe(e) : e \in EnvType} /\ StepReward(env, a) \in Int /\ env'.done \in BOOLEAN
      BY <1>4, <1>5, RewardIs DEF EnvType
    <2> QED BY <1>4, <2>1 DEF Samples
  <1>8. x.obs.commands = env.step /\ x.obs.step = env.step
    BY <1>4, <1>7 DEF Observe
  <1> HIDE DEF x
  <1>9. /\ ep' \in Seq(Samples) /\ Len(ep') = Len(ep) + 1 /\ DOMAIN ep' = 1 .. Len(ep) + 1 /\ ep' # <<>>
        /\ ep'[Len(ep) + 1] = x /\ \A t \in 1 .. Len(ep) : ep'[t] = ep[t]
    BY <1>4, <1>6, <1>7
  <1>10. TrainTypes'
    BY <1>1, <1>5, <1>9 DEF TrainTypes
  <1>11. Progress'
    BY <1>1, <1>2 DEF Progress
  <1>12. EpisodeFollows'
    <2>1. ASSUME NEW t \in DOMAIN ep'
          PROVE  ep'[t].obs.commands = t - 1 /\ ep'[t].obs.step = t - 1 /\ ep'[t].done = (env'.done /\ t = Len(ep'))
      <3>1. CASE t = Len(ep) + 1
        <4>1. ep'[t] = x /\ t = Len(ep') /\ t - 1 = env.step
          BY <1>4, <1>9, <3>1
        <4>2. env'.done \in BOOLEAN
          BY <1>5 DEF EnvType
        <4>3. ep'[t].done = (env'.done /\ t = Len(ep'))
          BY <1>7, <4>1, <4>2
        <4> QED BY <1>8, <4>1, <4>3
      <3>2. CASE t # Len(ep) + 1
        <4>1. t \in DOMAIN ep /\ ep'[t] = ep[t] /\ t # Len(ep')
          BY <1>4, <1>9, <3>2
        <4>2. ep[t].obs.commands = t - 1 /\ ep[t].obs.step = t - 1 /\ ep[t].done = FALSE
          BY <1>1, <4>1 DEF EpisodeFollows
        <4>3. (env'.done /\ t = Len(ep')) = FALSE
          BY <4>1
        <4> QED BY <4>1, <4>2, <4>3
      <3> QED BY <3>1, <3>2
    <2>2. env'.commands = env'.step /\ (~env'.done => env'.step < MaxSteps) /\ Len(ep') = env'.step
      BY <1>4, <1>5, <1>9
    <2> QED BY <2>1, <2>2 DEF EpisodeFollows
  <1>13. BatchIsWhole(buf)' /\ Passes'
    <2>1. BatchIsWhole(buf)'
      BY <1>1, <1>2 DEF BatchIsWhole, Carried
    <2>2. Passes'
      BY <1>1 DEF Passes, PassesAreWhole
    <2> QED BY <2>1, <2>2
  <1>14. Versions'
    <2>1. ASSUME algo \in {"reinforce", "ppo"}
          PROVE  ver' = base' /\ (\A t \in DOMAIN ep' : ep'[t].ver = base') /\ \A t \in DOMAIN buf' : buf'[t].ver = base'
      <3>1. ver' = ver /\ ver = base /\ base' = base /\ buf' = buf
        BY <1>1, <2>1 DEF Versions
      <3>2. \A t \in 1 .. Len(ep) : ep[t].ver = base
        BY <1>4, <2>1 DEF Versions
      <3>3. ASSUME NEW t \in DOMAIN ep' PROVE ep'[t].ver = base
        <4>1. t \in 1 .. Len(ep) \/ t = Len(ep) + 1
          BY <1>4, <1>9
        <4> QED BY <1>7, <1>9, <3>1, <3>2, <4>1
      <3>4. \A t \in DOMAIN buf : buf[t].ver = base
        BY <2>1 DEF Versions
      <3> QED BY <3>1, <3>3, <3>4
    <2>2. algo = "reinforce" => ver' = it'
      BY <1>1, <2>1 DEF Versions
    <2>3. algo # "none"
      BY <1>1 DEF Progress
    <2> QED BY <1>1, <1>2, <2>1, <2>2, <2>3 DEF Versions
  <1> QED BY <1>2, <1>10, <1>11, <1>12, <1>13, <1>14

\* An episode as it joins the batch.
Labelled(s) == [t \in 1 .. Len(s) |-> [s[t] EXCEPT !.target = Targets(s)[t]]]

\* With its targets, a trajectory is a batch of one.
LEMMA LabelledIs ==
    ASSUME NEW s, Trajectory(s), \A t \in 1 .. Len(s) : s[t].obs.commands = t - 1
    PROVE  /\ Labelled(s) \in Seq(Samples) /\ Len(Labelled(s)) = Len(s) /\ BatchIsWhole(Labelled(s))
           /\ \A t \in 1 .. Len(s) : Labelled(s)[t].ver = s[t].ver
  <1> DEFINE b == Labelled(s)
  <1>1. PICK n \in Nat : n = Len(s) /\ n >= 1
    BY TrajectoryIs
  <1>2. PICK T \in [1 .. n -> Int] : T = Targets(s)
    BY <1>1, TargetsAre
  <1>3. b = [t \in 1 .. n |-> [s[t] EXCEPT !.target = T[t]]]
    BY <1>1, <1>2 DEF Labelled
  <1> HIDE DEF b
  <1>4. ASSUME NEW t \in 1 .. n
        PROVE  /\ b[t] \in Samples /\ b[t].target = T[t] /\ b[t].value = s[t].value /\ b[t].reward = s[t].reward
               /\ b[t].done = s[t].done /\ b[t].obs = s[t].obs /\ b[t].ver = s[t].ver
    <2>1. b[t] = [s[t] EXCEPT !.target = T[t]] /\ T[t] \in Int /\ s[t] \in Samples
      BY <1>1, <1>2, <1>3, TrajectoryIs
    <2> QED BY <2>1 DEF Samples
  <1>5. b \in Seq(Samples) /\ Len(b) = n /\ DOMAIN b = 1 .. n
    <2>1. b \in [1 .. n -> Samples]
      BY <1>3, <1>4
    <2> QED BY <2>1
  <1>6. ASSUME NEW t \in 1 .. n, ~b[t].done
        PROVE  t < n /\ t + 1 \in 1 .. n /\ b[t + 1].obs.commands = b[t].obs.commands + 1
    <2>1. t # n /\ t + 1 \in 1 .. n
      BY <1>1, <1>4, <1>6, TrajectoryIs
    <2>2. b[t].obs.commands = t - 1 /\ b[t + 1].obs.commands = (t + 1) - 1
      BY <1>1, <1>4, <2>1
    <2> QED BY <2>1, <2>2
  <1>7. ASSUME NEW t \in 1 .. n
        PROVE  b[t].target = b[t].reward
                   + (IF b[t].done THEN 0 ELSE Gamma * Carried(b[t + 1].value, b[t + 1].target))
    <2>1. T[t] = s[t].reward + (IF s[t].done THEN 0 ELSE Gamma * Carried(s[t + 1].value, T[t + 1]))
      BY <1>1, <1>2, <1>7, TargetsAre
    <2>2. CASE b[t].done
      BY <1>4, <2>1, <2>2
    <2>3. CASE ~b[t].done
      <3>1. b[t + 1].target = T[t + 1] /\ b[t + 1].value = s[t + 1].value
        BY <1>4, <1>6, <2>3
      <3> QED BY <1>4, <2>1, <2>3, <3>1
    <2> QED BY <2>2, <2>3
  <1>8. BatchIsWhole(b)
    BY <1>5, <1>6, <1>7 DEF BatchIsWhole
  <1>9. \A t \in 1 .. Len(s) : b[t].ver = s[t].ver
    BY <1>1, <1>4
  <1> QED BY <1>1, <1>5, <1>8, <1>9 DEF b

\* Whole trajectories follow one another.
LEMMA BatchesJoin ==
    ASSUME NEW a \in Seq(Samples), NEW b \in Seq(Samples), BatchIsWhole(a), BatchIsWhole(b)
    PROVE  BatchIsWhole(a \o b)
  <1> DEFINE c == a \o b
  <1>1. PICK m \in Nat, n \in Nat : m = Len(a) /\ n = Len(b)
    OBVIOUS
  <1>2. DOMAIN a = 1 .. m /\ DOMAIN b = 1 .. n /\ DOMAIN c = 1 .. m + n /\ Len(c) = m + n
    BY <1>1
  <1>3. (\A t \in 1 .. m : c[t] = a[t]) /\ \A t \in 1 .. n : c[m + t] = b[t]
    BY <1>1
  <1> HIDE DEF c
  <1>4. ASSUME NEW t \in 1 .. m + n
        PROVE  /\ ~c[t].done => t < Len(c) /\ c[t + 1].obs.commands = c[t].obs.commands + 1
               /\ c[t].target = c[t].reward
                   + (IF c[t].done THEN 0 ELSE Gamma * Carried(c[t + 1].value, c[t + 1].target))
    <2>1. CASE t <= m
      <3>1. t \in 1 .. m /\ c[t] = a[t]
        BY <1>3, <2>1
      <3>2. /\ ~a[t].done => t < m /\ a[t + 1].obs.commands = a[t].obs.commands + 1
            /\ a[t].target = a[t].reward
                   + (IF a[t].done THEN 0 ELSE Gamma * Carried(a[t + 1].value, a[t + 1].target))
        BY <1>1, <1>2, <3>1 DEF BatchIsWhole
      <3>3. ~a[t].done => c[t + 1] = a[t + 1]
        <4>1. t < m => c[t + 1] = a[t + 1]
          BY <1>3, <3>1
        <4>2. ~a[t].done => t < m
          BY <3>2
        <4> QED BY <4>1, <4>2
      <3>4. t < m => t < Len(c)
        BY <1>2
      <3>5. CASE a[t].done
        BY <3>1, <3>2, <3>5
      <3>6. CASE ~a[t].done
        BY <3>1, <3>2, <3>3, <3>4, <3>6
      <3> QED BY <3>5, <3>6
    <2>2. CASE t > m
      <3>1. PICK u \in 1 .. n : t = m + u
        <4>1. t - m \in 1 .. n /\ t = m + (t - m)
          BY <2>2
        <4> QED BY <4>1
      <3>2. /\ ~b[u].done => u < n /\ b[u + 1].obs.commands = b[u].obs.commands + 1
            /\ b[u].target = b[u].reward
                   + (IF b[u].done THEN 0 ELSE Gamma * Carried(b[u + 1].value, b[u + 1].target))
        BY <1>1, <1>2 DEF BatchIsWhole
      <3>3. c[t] = b[u]
        BY <1>3, <3>1
      <3>4. ~b[u].done => c[t + 1] = b[u + 1] /\ t < Len(c)
        <4> SUFFICES ASSUME ~b[u].done PROVE c[t + 1] = b[u + 1] /\ t < Len(c)
          OBVIOUS
        <4>1. u + 1 \in 1 .. n /\ t + 1 = m + (u + 1)
          BY <3>1, <3>2
        <4> QED BY <1>2, <1>3, <3>1, <4>1
      <3>5. CASE b[u].done
        BY <3>2, <3>3, <3>5
      <3>6. CASE ~b[u].done
        BY <3>2, <3>3, <3>4, <3>6
      <3> QED BY <3>5, <3>6
    <2> QED BY <2>1, <2>2
  <1> QED BY <1>2, <1>4 DEF c, BatchIsWhole

\* A finished episode joins the batch, whole and with its own targets.
LEMMA FinishEpisodeKeeps == ASSUME TrainInv, FinishEpisode PROVE TrainInv'
  <1> USE DEF TrainInv
  <1>1. /\ pc = "collect" /\ env.done /\ ep # <<>> /\ ep' = <<>> /\ eps' = eps + 1 /\ hist' = hist + 1
        /\ pc' = (IF eps + 1 = BatchSize THEN "update" ELSE "collect")
        /\ UNCHANGED <<jobs, trained, saved, env, it, ver, base, pass, start>>
    BY DEF FinishEpisode
  <1>2. buf' = buf \o Labelled(ep)
    BY DEF FinishEpisode, Labelled
  <1>3. JobsLeft' /\ algo' = algo /\ BatchSize' = BatchSize /\ Rounds' = Rounds
    BY <1>1, SameJob
  <1>4. ep \in Seq(Samples) /\ buf \in Seq(Samples) /\ env \in EnvType /\ {eps, it, ver, base, hist, pass, start} \subseteq Nat
    BY DEF TrainTypes
  <1>5. algo \notin {"save", "none"} /\ eps < BatchSize /\ it < Rounds
    BY <1>1 DEF Progress
  <1>6. Trajectory(ep) /\ \A t \in 1 .. Len(ep) : ep[t].obs.commands = t - 1
    <2>1. DOMAIN ep = 1 .. Len(ep)
      BY <1>4
    <2>2. \A t \in 1 .. Len(ep) : ep[t].done = (t = Len(ep)) /\ ep[t].obs.commands = t - 1
      BY <1>1, <2>1 DEF EpisodeFollows
    <2> QED BY <1>1, <1>4, <2>2 DEF Trajectory
  <1> DEFINE b == Labelled(ep)
  <1>7. /\ b \in Seq(Samples) /\ Len(b) = Len(ep) /\ BatchIsWhole(b)
        /\ \A t \in 1 .. Len(ep) : b[t].ver = ep[t].ver
    BY <1>6, LabelledIs
  <1> HIDE DEF b
  <1>8. buf' \in Seq(Samples) /\ Len(buf') = Len(buf) + Len(ep)
    <2>1. buf' = buf \o b
      BY <1>2 DEF b
    <2>2. buf \o b \in Seq(Samples) /\ Len(buf \o b) = Len(buf) + Len(b)
      BY <1>4, <1>7, ConcatProperties
    <2> QED BY <1>7, <2>1, <2>2
  <1>9. TrainTypes'
    <2>1. ep' \in Seq(Samples) /\ pc' \in {"collect", "update", "return"}
      BY <1>1
    <2>2. eps' \in Nat /\ hist' \in Nat
      BY <1>1, <1>4
    <2> QED BY <1>1, <1>4, <1>8, <2>1, <2>2 DEF TrainTypes
  <1>10. Progress'
    <2>1. hist' = it' * BatchSize' + eps'
      <3>1. PICK w \in Int : w = it * BatchSize
        BY <1>4, RoundsAre
      <3>2. hist = w + eps
        BY <3>1 DEF Progress
      <3>3. hist' = w + eps'
        BY <1>1, <1>4, <3>2
      <3> QED BY <1>1, <1>3, <3>1, <3>3
    <2>2. Len(buf') <= eps' * MaxSteps
      <3>1. Len(ep) <= MaxSteps /\ Len(ep) \in Nat /\ Len(buf) \in Nat
        <4>1. Len(ep) = env.step
          BY <1>1 DEF EpisodeFollows
        <4>2. env.step \in 0 .. MaxSteps /\ MaxSteps \in Nat
          BY <1>4, TrainLimits DEF EnvType
        <4> QED BY <1>4, <4>1, <4>2
      <3>2. Len(buf) <= eps * MaxSteps /\ MaxSteps \in Nat
        BY TrainLimits DEF Progress
      <3>3. \A e, m, u, v \in Nat : u <= e * m /\ v <= m => u + v <= (e + 1) * m
        BY SMTT(30)
      <3> QED BY <1>1, <1>4, <1>8, <3>1, <3>2, <3>3
    <2>3. eps + 1 # BatchSize => eps' < BatchSize
      <3>1. PICK n \in Nat : n = BatchSize
        BY RoundsAre
      <3> QED BY <1>1, <1>4, <1>5, <3>1
    <2> QED BY <1>1, <1>3, <1>5, <2>1, <2>2, <2>3 DEF Progress
  <1>11. EpisodeFollows'
    BY <1>1 DEF EpisodeFollows
  <1>12. BatchIsWhole(buf)'
    <2>1. BatchIsWhole(buf \o b)
      BY <1>4, <1>7, BatchesJoin
    <2>2. buf' = buf \o b
      BY <1>2 DEF b
    <2> QED BY <1>3, <2>1, <2>2 DEF BatchIsWhole, Carried
  <1>13. Versions'
    <2>1. ASSUME algo \in {"reinforce", "ppo"} PROVE \A t \in DOMAIN buf' : buf'[t].ver = base
      <3>1. buf' = buf \o b
        BY <1>2 DEF b
      <3>2. (\A t \in 1 .. Len(buf) : buf[t].ver = base) /\ \A t \in 1 .. Len(ep) : ep[t].ver = base
        BY <1>4, <2>1 DEF Versions
      <3>3. \A t \in 1 .. Len(b) : b[t].ver = base
        BY <1>7, <3>2
      <3>4. PICK m \in Nat, n \in Nat : m = Len(buf) /\ n = Len(b)
        BY <1>4, <1>7
      <3>5. /\ \A t \in 1 .. m : (buf \o b)[t] = buf[t]
            /\ \A t \in 1 .. m + n : t > m => (buf \o b)[t] = b[t - m]
        BY <1>4, <1>7, <3>4, ConcatProperties
      <3>6. DOMAIN buf' = 1 .. m + n
        BY <1>7, <1>8, <3>4
      <3>7. ASSUME NEW t \in 1 .. m + n, t > m PROVE t - m \in 1 .. n
        BY <3>7
      <3> QED BY <3>1, <3>2, <3>3, <3>4, <3>5, <3>6, <3>7
    <2>2. DOMAIN ep' = {}
      BY <1>1
    <2> QED BY <1>1, <1>3, <2>1, <2>2 DEF Versions
  <1>14. Passes'
    <2>1. pass' = 0 /\ start' = 0
      BY <1>1 DEF Passes
    <2>2. ASSUME algo = "ppo" PROVE ver' = base'
      BY <1>1, <2>2 DEF Versions
    <2>3. Len(buf') \in Nat /\ Len(buf') >= 1
      BY <1>1, <1>4, <1>8
    <2>4. PICK q \in Int : q = (Len(buf') + Minibatch - 1) \div Minibatch
      BY <2>3, TrainLimits
    <2>5. 0 * q + 0 \div Minibatch = 0 /\ 0 = 0 * Minibatch /\ 0 \in Nat
      BY TrainLimits
    <2>6. PassesAreWhole'
      BY <1>1, <1>3, <1>4, <2>1, <2>2, <2>3, <2>4, <2>5, TrainLimits DEF PassesAreWhole
    <2> QED BY <2>1, <2>5, <2>6 DEF Passes
  <1> QED BY <1>3, <1>9, <1>10, <1>11, <1>12, <1>13, <1>14

\* The end of an iteration leaves an empty batch for the policy as it now is.
LEMMA EndIterationKeeps ==
    ASSUME TrainInv, pc = "update", EndIteration, ver' \in Nat, algo = "reinforce" => ver' = ver + 1
    PROVE  TrainInv'
  <1> USE DEF TrainInv
  <1>1. /\ it' = it + 1 /\ buf' = <<>> /\ eps' = 0 /\ pass' = 0 /\ start' = 0 /\ base' = ver'
        /\ pc' = (IF it + 1 = Rounds THEN "return" ELSE "collect")
        /\ UNCHANGED <<jobs, trained, saved, env, ep, hist>>
    BY DEF EndIteration
  <1>2. JobsLeft' /\ algo' = algo /\ BatchSize' = BatchSize /\ Rounds' = Rounds
    BY <1>1, SameJob
  <1>3. {eps, it, ver, base, hist} \subseteq Nat
    BY DEF TrainTypes
  <1>4. /\ algo \notin {"save", "none"} /\ env.done /\ ep = <<>> /\ eps = BatchSize /\ it < Rounds
        /\ hist = it * BatchSize + eps
    BY DEF Progress
  <1>5. TrainTypes'
    <2>1. it' \in Nat /\ pc' \in {"collect", "update", "return"} /\ buf' \in Seq(Samples)
      BY <1>1, <1>3
    <2> QED BY <1>1, <2>1 DEF TrainTypes
  <1>6. Progress'
    <2>1. hist' = it' * BatchSize' + eps'
      <3>1. \A i, n \in Nat : i * n + n = (i + 1) * n + 0
        BY SMTT(30)
      <3>2. hist' = it * BatchSize + BatchSize /\ it' * BatchSize' + eps' = (it + 1) * BatchSize + 0
        BY <1>1, <1>2, <1>4
      <3> QED BY <1>3, <3>1, <3>2, RoundsAre
    <2>2. Len(buf') <= eps' * MaxSteps
      BY <1>1, TrainLimits
    <2>3. it + 1 # Rounds => it' < Rounds
      BY <1>1, <1>3, <1>4, RoundsAre
    <2>4. eps' < BatchSize
      BY <1>1, RoundsAre
    <2> QED BY <1>1, <1>2, <1>4, <2>1, <2>2, <2>3, <2>4 DEF Progress
  <1>7. EpisodeFollows'
    BY <1>1 DEF EpisodeFollows
  <1>8. BatchIsWhole(buf)' /\ DOMAIN buf' = {} /\ DOMAIN ep' = {}
    BY <1>1, <1>4 DEF BatchIsWhole
  <1>9. Versions'
    <2>1. algo = "reinforce" => ver' = it'
      BY <1>1 DEF Versions
    <2> QED BY <1>1, <1>2, <1>4, <1>8, <2>1 DEF Versions
  <1>10. Passes'
    BY <1>1 DEF Passes, PassesAreWhole
  <1> QED BY <1>2, <1>5, <1>6, <1>7, <1>8, <1>9, <1>10

\* The update of A2C, and the empty ones of the bandit and of an evaluation.
LEMMA UpdateKeeps == ASSUME TrainInv, Update PROVE TrainInv'
  <1>1. pc = "update" /\ EndIteration /\ ver' = IF algo = "reinforce" THEN ver + 1 ELSE ver
    BY DEF Update
  <1>2. ver \in Nat
    BY DEF TrainInv, TrainTypes
  <1>3. ver' \in Nat /\ (algo = "reinforce" => ver' = ver + 1)
    BY <1>1, <1>2
  <1> QED BY <1>1, <1>3, EndIterationKeeps

\* Minibatch n, counted from 0, of a pass over u samples in minibatches of k.
IsMinibatch(k, n, u) ==
    /\ (n * k) \div k = n /\ (n + 1) * k = n * k + k
    /\ n * k + k >= u => (u + k - 1) \div k = n + 1

\* A minibatch that is not the last one of its pass, and one that is.
LEMMA NextMinibatch ==
    ASSUME NEW k \in Nat, NEW n \in Nat, NEW u \in Nat, k >= 1, n * k < u
    PROVE  IsMinibatch(k, n, u)
  <1>1. PICK w \in Nat : w = n * k
    OBVIOUS
  <1>2. w \div k = n
    BY <1>1, SMTT(30)
  <1>3. (n + 1) * k = w + k
    BY <1>1, SMTT(30)
  <1>4. ASSUME w + k >= u PROVE (u + k - 1) \div k = n + 1
    <2>1. PICK e \in 0 .. k - 1 : u + k - 1 = (n + 1) * k + e
      <3>1. u - 1 - w \in 0 .. k - 1 /\ u + k - 1 = w + k + (u - 1 - w)
        BY <1>1, <1>4
      <3> QED BY <1>3, <3>1
    <2>2. \A m \in Nat : \A x \in 0 .. k - 1 : (m * k + x) \div k = m
      BY SMTT(60)
    <2> QED BY <2>1, <2>2
  <1> QED BY <1>1, <1>2, <1>3, <1>4 DEF IsMinibatch

\* A minibatch changes the policy, and the batch only when it was the last.
LEMMA PpoMinibatchKeeps == ASSUME TrainInv, PpoMinibatch PROVE TrainInv'
  <1>1. pc = "update" /\ algo = "ppo" /\ ver' = ver + 1
    BY DEF PpoMinibatch
  <1>2. {ver, start, pass} \subseteq Nat /\ ver' \in Nat /\ Minibatch \in Nat
    BY <1>1, TrainLimits DEF TrainInv, TrainTypes
  <1>3. CASE EndIteration
    BY <1>1, <1>2, <1>3, EndIterationKeeps
  <1>4. CASE ~EndIteration
    <2>1. /\ start' = 0 \/ start' = start + Minibatch
          /\ pass' = pass + 1 \/ pass' = pass
          /\ UNCHANGED <<jobs, trained, saved, pc, env, ep, buf, eps, it, base, hist>>
      BY <1>4 DEF PpoMinibatch
    <2>2. start' \in Nat /\ pass' \in Nat
      BY <1>2, <2>1
    <2> USE DEF TrainInv
    <2>3. JobsLeft' /\ algo' = algo /\ BatchSize' = BatchSize /\ Rounds' = Rounds
      BY <2>1, SameJob
    <2>4. TrainTypes'
      BY <1>2, <2>1, <2>2 DEF TrainTypes
    <2>5. Progress' /\ EpisodeFollows' /\ BatchIsWhole(buf)'
      BY <2>1, <2>3 DEF Progress, EpisodeFollows, BatchIsWhole, Carried
    <2>6. Versions'
      BY <1>1, <2>1, <2>3 DEF Versions
    <2>7. Passes'
      <3>1. PICK k \in Nat, u \in Nat : k = Minibatch /\ u = Len(buf) /\ k >= 1
        BY TrainLimits DEF TrainTypes
      <3>2. PICK n \in Nat : start = n * k
        BY <1>1, <3>1 DEF Passes
      <3>3. start < u /\ pass < Epochs /\ base \in Nat /\ Epochs \in Nat
        BY <1>1, <3>1, TrainLimits DEF Passes, PassesAreWhole, TrainTypes
      <3>4. /\ start \div k = n /\ (n + 1) * k = start + k
            /\ start + k >= u => (u + k - 1) \div k = n + 1
        <4>1. n * k < u
          BY <3>2, <3>3
        <4>2. IsMinibatch(k, n, u)
          BY <3>1, <3>2, <4>1, NextMinibatch
        <4> QED BY <3>2, <4>2 DEF IsMinibatch
      <3>5. PICK q \in Int : q = (u + k - 1) \div k
        BY <3>1
      <3>6. ver - base = pass * q + n
        BY <1>1, <3>1, <3>4, <3>5 DEF Passes, PassesAreWhole
      <3>7. PICK w \in Int : w = pass * q
        BY <1>2, <3>5
      <3>8. buf' = buf /\ base' = base /\ pc' = pc
        BY <2>1
      <3>9. CASE start + k >= u
        <4>1. start' = 0 /\ pass' = pass + 1 /\ pass + 1 # Epochs
          BY <1>4, <3>1, <3>9 DEF PpoMinibatch
        <4>2. (pass + 1) * q = w + q
          <5>1. \A x, y \in Int : (x + 1) * y = x * y + y
            BY SMTT(30)
          <5> QED BY <1>2, <3>5, <3>7, <5>1
        <4>3. ver' - base = pass' * q + 0
          <5>1. q = n + 1
            BY <3>4, <3>5, <3>9
          <5>2. ver - base = w + n
            BY <3>6, <3>7
          <5>3. pass' * q = w + q
            BY <4>1, <4>2
          <5> QED BY <1>1, <1>2, <3>2, <3>3, <3>7, <5>1, <5>2, <5>3
        <4>4. 0 \div k = 0 /\ 0 = 0 * k /\ 0 \in Nat
          BY <3>1
        <4>5. pass' < Epochs /\ start' < u
          BY <1>2, <3>2, <3>3, <4>1
        <4>6. PassesAreWhole'
          BY <3>1, <3>5, <3>8, <4>1, <4>3, <4>4, <4>5 DEF PassesAreWhole
        <4> QED BY <1>1, <3>1, <3>8, <4>1, <4>4, <4>6 DEF Passes
      <3>10. CASE ~(start + k >= u)
        <4>1. start' = start + k /\ pass' = pass
          BY <1>4, <3>1, <3>10 DEF PpoMinibatch
        <4>2. start' < u /\ start' = (n + 1) * k /\ n + 1 \in Nat
          BY <1>2, <3>1, <3>4, <3>10, <4>1
        <4>3. start' \div k = n + 1
          <5>1. (n + 1) * k < u
            BY <4>2
          <5>2. IsMinibatch(k, n + 1, u)
            BY <3>1, <4>2, <5>1, NextMinibatch
          <5> QED BY <4>2, <5>2 DEF IsMinibatch
        <4>4. ver' - base = pass' * q + (n + 1)
          <5>1. ver - base = w + n /\ pass' * q = w
            BY <3>6, <3>7, <4>1
          <5> QED BY <1>1, <1>2, <3>2, <3>3, <3>7, <5>1
        <4>5. PassesAreWhole'
          BY <3>1, <3>3, <3>5, <3>8, <4>1, <4>2, <4>3, <4>4 DEF PassesAreWhole
        <4> QED BY <1>1, <3>1, <3>8, <4>2, <4>5 DEF Passes
      <3> QED BY <3>9, <3>10
    <2> QED BY <2>3, <2>4, <2>5, <2>6, <2>7
  <1> QED BY <1>3, <1>4

\* A trainer leaves its own policy behind, and the next one begins at nothing.
LEMMA TrainerReturnsKeeps == ASSUME TrainInv, TrainerReturns PROVE TrainInv'
  <1> USE DEF TrainInv
  <1>1. /\ pc = "return" /\ jobs' = Tail(jobs) /\ pc' = "collect" /\ it' = 0 /\ hist' = 0 /\ ver' = 0 /\ base' = 0
        /\ UNCHANGED <<saved, env, ep, buf, eps, pass, start>>
    BY DEF TrainerReturns
  <1>2. /\ eps = 0 /\ it = Rounds /\ env.done /\ ep = <<>> /\ algo \notin {"save", "none"}
        /\ Len(buf) <= eps * MaxSteps
    BY <1>1 DEF Progress
  <1>3. buf = <<>>
    <2>1. buf \in Seq(Samples) /\ Len(buf) <= 0
      BY <1>2, TrainLimits DEF TrainTypes
    <2> QED BY <2>1
  <1>4. algo \in Trainers \union {"evaluate"} /\ "evaluate" \notin Trainers
    BY <1>2, JobIs DEF Trainers
  <1>5. JobsLeft' /\ jobs' # <<>> /\ algo' \in {"bandit", "reinforce", "ppo", "evaluate", "save"}
    <2>1. CASE algo \in Trainers
      <3>1. PICK r \in Requests : /\ DOMAIN trained \subseteq r /\ algo \in r \ DOMAIN trained
                                  /\ Tail(jobs) = Planned(r \ (DOMAIN trained \union {algo}))
        BY <2>1, JobIs
      <3>2. DOMAIN trained' = DOMAIN trained \union {algo}
        BY <1>4, <2>1 DEF TrainerReturns
      <3>3. DOMAIN trained' \subseteq r /\ jobs' = Planned(r \ DOMAIN trained')
        BY <1>1, <3>1, <3>2
      <3>4. r \ DOMAIN trained' \in SUBSET Trainers
        BY TrainingAssumption DEF Trainers
      <3>5. JobsLeft'
        BY <3>3 DEF JobsLeft
      <3>6. jobs' # <<>> /\ Head(jobs') \in {"bandit", "reinforce", "ppo", "evaluate"}
        BY <3>3, <3>4, PlannedIs DEF Trainers
      <3> QED BY <3>5, <3>6 DEF algo
    <2>2. CASE algo = "evaluate"
      <3>1. DOMAIN trained \in Requests /\ jobs' = <<"save">> /\ trained' = trained
        BY <1>1, <2>2, JobIs DEF TrainerReturns
      <3>2. JobsLeft'
        BY <3>1 DEF JobsLeft
      <3>3. jobs' # <<>> /\ Head(jobs') = "save"
        BY <3>1
      <3> QED BY <3>2, <3>3 DEF algo
    <2> QED BY <1>4, <2>1, <2>2
  <1>6. BatchSize' >= 1 /\ BatchSize' \in Nat /\ (algo' # "save" => Rounds' \in Nat /\ Rounds' >= 1)
    <2>1. PICK q \in Nat : q = Episodes \div Batch
      BY TrainLimits
    <2> HIDE DEF algo
    <2>2. CASE algo' \in {"bandit", "evaluate"}
      BY <2>2, TrainLimits DEF BatchSize, Rounds
    <2>3. CASE algo' = "reinforce"
      BY <2>1, <2>3, TrainLimits DEF BatchSize, Rounds
    <2>4. CASE algo' = "ppo"
      BY <2>4, TrainLimits DEF BatchSize, Rounds
    <2>5. CASE algo' = "save"
      BY <2>5, TrainLimits DEF BatchSize
    <2> QED BY <1>5, <2>2, <2>3, <2>4, <2>5
  <1>7. TrainTypes'
    BY <1>1 DEF TrainTypes
  <1>8. Progress'
    <2>1. hist' = it' * BatchSize' + eps' /\ Len(buf') <= eps' * MaxSteps
      <3>1. \A n \in Nat : 0 = 0 * n + 0 /\ 0 <= 0 * n
        OBVIOUS
      <3>2. hist' = 0 /\ it' = 0 /\ eps' = 0 /\ Len(buf') = 0
        BY <1>1, <1>2, <1>3
      <3> QED BY <1>6, <3>1, <3>2, TrainLimits
    <2>2. algo' # "save" => eps' < BatchSize' /\ it' < Rounds'
      BY <1>1, <1>2, <1>6
    <2> QED BY <1>1, <1>2, <1>5, <2>1, <2>2 DEF Progress
  <1>9. EpisodeFollows' /\ BatchIsWhole(buf)' /\ DOMAIN buf' = {} /\ DOMAIN ep' = {}
    BY <1>1, <1>2, <1>3 DEF EpisodeFollows, BatchIsWhole
  <1>10. Versions'
    <2> DEFINE own == IF Episodes \div Batch > 1 THEN Episodes \div Batch ELSE 1
    <2>1. "reinforce" \in DOMAIN trained' => trained'["reinforce"] = own
      <3>1. CASE algo = "reinforce"
        <4>1. trained'["reinforce"] = ver
          BY <3>1 DEF TrainerReturns
        <4>2. ver = Rounds /\ Rounds = own
          BY <1>2, <3>1, RoundsAre DEF Versions
        <4> QED BY <4>1, <4>2
      <3>2. CASE algo # "reinforce"
        <4>1. "reinforce" \in DOMAIN trained' =>
                  "reinforce" \in DOMAIN trained /\ trained'["reinforce"] = trained["reinforce"]
          BY <3>2 DEF TrainerReturns
        <4>2. "reinforce" \in DOMAIN trained => trained["reinforce"] = own
          BY DEF Versions
        <4> QED BY <4>1, <4>2
      <3> QED BY <3>1, <3>2
    <2> QED BY <1>1, <1>5, <1>9, <2>1 DEF Versions
  <1>11. Passes'
    BY <1>1 DEF Passes, PassesAreWhole
  <1> QED BY <1>5, <1>7, <1>8, <1>9, <1>10, <1>11

\* The checkpoints are the policies as their trainers left them.
LEMMA SaveCheckpointsKeeps == ASSUME TrainInv, SaveCheckpoints PROVE TrainInv'
  <1> USE DEF TrainInv
  <1>1. /\ algo = "save" /\ jobs' = <<>> /\ saved' = trained
        /\ UNCHANGED <<trained, pc, env, ep, buf, eps, it, ver, base, hist, pass, start>>
    BY DEF SaveCheckpoints
  <1>2. algo' = "none"
    BY <1>1 DEF algo
  <1>3. JobsLeft'
    <2>1. DOMAIN trained \in Requests
      BY <1>1, JobIs
    <2> QED BY <1>1, <2>1 DEF JobsLeft
  <1>4. BatchSize' = 1 /\ BatchSize = 1
    BY <1>1, <1>2 DEF BatchSize
  <1>5. TrainTypes' /\ EpisodeFollows' /\ BatchIsWhole(buf)'
    <2>1. TrainTypes' /\ EpisodeFollows'
      BY <1>1 DEF TrainTypes, EpisodeFollows
    <2>2. buf \in Seq(Samples) /\ Len(buf) <= 0
      BY <1>1, TrainLimits DEF TrainTypes, Progress
    <2>3. DOMAIN buf' = {}
      BY <1>1, <2>2
    <2> QED BY <2>1, <2>3 DEF BatchIsWhole
  <1>6. Progress'
    <2>1. pc = "collect" /\ eps = 0 /\ it = 0 /\ env.done /\ ep = <<>> /\ hist = it * 1 + eps /\ Len(buf) <= eps * MaxSteps
      BY <1>1, <1>4 DEF Progress
    <2> QED BY <1>1, <1>2, <1>4, <2>1 DEF Progress
  <1>7. Versions' /\ Passes'
    BY <1>1, <1>2 DEF Versions, Passes, PassesAreWhole
  <1> QED BY <1>3, <1>5, <1>6, <1>7

\* Every step of training keeps the invariant.
LEMMA TrainingKeeps == TrainInv /\ [TrainNext]_trainVars => TrainInv'
  <1> SUFFICES ASSUME TrainInv, [TrainNext]_trainVars PROVE TrainInv'
    OBVIOUS
  <1>1. Acts \in SUBSET DeceptionAction /\ {0} \in SUBSET Int /\ Values \in SUBSET Int /\ ver \in Nat
    BY TrainLimits DEF TrainInv, TrainTypes
  <1>2. CASE ResetEpisode
    BY <1>2, ResetKeeps
  <1>3. CASE BanditTurn
    <2>1. algo = "bandit" /\ Turn(Acts, {0}) /\ ver' \in Nat
      BY <1>1, <1>3 DEF BanditTurn, BanditUpdate
    <2> QED BY <1>1, <2>1, TurnKeeps
  <1>4. CASE A2CTurn
    <2>1. Turn(Acts, {0}) /\ ver' = ver
      BY <1>4 DEF A2CTurn
    <2> QED BY <1>1, <2>1, TurnKeeps
  <1>5. CASE PpoTurn
    <2>1. Turn(Acts, Values) /\ ver' = ver
      BY <1>5 DEF PpoTurn
    <2> QED BY <1>1, <2>1, TurnKeeps
  <1>6. CASE EvaluateTurn
    <2> DEFINE all == Acts \union {Heuristic(Observe(env))}
    <2>1. Turn(all, {0}) /\ ver' = ver
      BY <1>6 DEF EvaluateTurn
    <2>2. all \in SUBSET DeceptionAction
      BY <1>1 DEF Heuristic, DeceptionAction
    <2> HIDE DEF all
    <2> QED BY <1>1, <2>1, <2>2, TurnKeeps
  <1>7. CASE FinishEpisode
    BY <1>7, FinishEpisodeKeeps
  <1>8. CASE Update
    BY <1>8, UpdateKeeps
  <1>9. CASE PpoMinibatch
    BY <1>9, PpoMinibatchKeeps
  <1>10. CASE TrainerReturns
    BY <1>10, TrainerReturnsKeeps
  <1>11. CASE SaveCheckpoints
    BY <1>11, SaveCheckpointsKeeps
  <1>12. CASE UNCHANGED trainVars
    <2>1. UNCHANGED <<jobs, trained, saved, pc, env, ep, buf, eps, it, ver, base, hist, pass, start>>
      BY <1>12 DEF trainVars
    <2> USE DEF TrainInv
    <2>2. JobsLeft' /\ algo' = algo /\ BatchSize' = BatchSize /\ Rounds' = Rounds
      BY <2>1, SameJob
    <2>3. TrainTypes' /\ Progress'
      BY <2>1, <2>2 DEF TrainTypes, Progress
    <2>4. EpisodeFollows' /\ BatchIsWhole(buf)' /\ Versions'
      BY <2>1, <2>2 DEF EpisodeFollows, BatchIsWhole, Carried, Versions
    <2>5. Passes'
      BY <2>1, <2>2 DEF Passes, PassesAreWhole
    <2> QED BY <2>2, <2>3, <2>4, <2>5
  <1> QED BY <1>2, <1>3, <1>4, <1>5, <1>6, <1>7, <1>8, <1>9, <1>10, <1>11, <1>12 DEF TrainNext

-----------------------------------------------------------------------------
(* What the updates learn from *)

\* The invariant says what the trainers promise.
LEMMA TrainInvSuffices == TrainInv => SamplesSound
  <1> SUFFICES ASSUME TrainInv PROVE SamplesSound
    OBVIOUS
  <1> USE DEF TrainInv
  <1>1. ep \in Seq(Samples) /\ buf \in Seq(Samples) /\ env \in EnvType /\ {eps, it, ver, base, hist} \subseteq Nat
    BY DEF TrainTypes
  <1>2. algo \in Trainers \union {"evaluate", "save", "none"}
    BY JobIs
  <1>3. eps <= BatchSize /\ it <= Rounds /\ BatchSize \in Nat /\ Rounds \in Nat /\ BatchSize <= Batch
    <2>1. BatchSize \in Nat /\ BatchSize >= 1 /\ Rounds \in Nat /\ BatchSize <= Batch
      BY RoundsAre
    <2>2. pc \in {"collect", "update", "return"}
      BY DEF TrainTypes
    <2> QED BY <1>1, <2>1, <2>2 DEF Progress
  <1>4. TrainTypeOK
    <2>1. Len(ep) <= MaxSteps
      <3>1. ep = <<>> => Len(ep) = 0
        OBVIOUS
      <3> QED BY <1>1, <3>1, TrainLimits DEF EpisodeFollows, EnvType
    <2>2. Len(buf) <= Batch * MaxSteps
      <3>1. Len(buf) <= eps * MaxSteps /\ Len(buf) \in Nat /\ eps \in Nat /\ eps <= Batch /\ Batch \in Nat /\ MaxSteps \in Nat
        BY <1>1, <1>3, TrainLimits DEF Progress
      <3>2. \A e, b, m, u \in Nat : e <= b /\ u <= e * m => u <= b * m
        BY SMTT(30)
      <3> QED BY <3>1, <3>2
    <2>3. eps \in 0 .. BatchSize /\ it \in 0 .. Rounds
      BY <1>1, <1>3
    <2> QED BY <1>1, <1>2, <2>1, <2>2, <2>3 DEF TrainTypeOK, TrainTypes
  <1>5. OnPolicy
    BY DEF OnPolicy, Versions, Range
  <1>6. TrajectoryAligned
    BY DEF TrajectoryAligned, EpisodeFollows, BatchIsWhole
  <1>7. TargetsStopAtEpisodeEnd
    BY DEF TargetsStopAtEpisodeEnd, BatchIsWhole
  <1>8. PICK q \in Nat : /\ q = Episodes \div Batch /\ Episodes - (Episodes % Batch) = q * Batch
                         /\ Episodes < Batch <=> q = 0
    <2>1. Episodes \in Nat /\ Batch \in Nat /\ Batch >= 1
      BY TrainLimits
    <2>2. PICK q \in Nat, r \in Nat : q = Episodes \div Batch /\ r = Episodes % Batch /\ r < Batch /\ Episodes = q * Batch + r
      BY <2>1, SMTT(30)
    <2>3. \A e, b, k, m \in Nat : e = k * b + m /\ m < b => e - m = k * b /\ (e < b <=> k = 0)
      BY SMTT(30)
    <2> QED BY <2>1, <2>2, <2>3
  <1>9. HistoryComplete
    <2>1. hist = it * BatchSize + eps
      BY DEF Progress
    <2>2. ASSUME pc = "return", algo = "reinforce"
          PROVE  hist = IF Episodes < Batch THEN Batch ELSE Episodes - (Episodes % Batch)
      <3>1. eps = 0 /\ it = Rounds /\ BatchSize = Batch /\ Rounds = IF q > 1 THEN q ELSE 1
        BY <1>8, <2>2, RoundsAre DEF Progress
      <3>2. hist = Rounds * Batch
        <4>1. \A n, k \in Nat : n * k + 0 = n * k
          OBVIOUS
        <4> QED BY <1>3, <2>1, <3>1, <4>1, TrainLimits
      <3>3. CASE q > 1
        BY <1>8, <3>1, <3>2, <3>3
      <3>4. CASE q <= 1
        <4>1. hist = Batch /\ 1 * Batch = Batch
          BY <3>1, <3>2, <3>4, TrainLimits
        <4> QED BY <1>8, <3>4, <4>1
      <3> QED BY <3>3, <3>4
    <2> QED BY <2>1, <2>2 DEF HistoryComplete
  <1>10. CheckpointsAreOwn
    <2> SUFFICES ASSUME algo = "none"
                 PROVE  /\ saved = trained /\ DOMAIN saved \in Requests
                        /\ "reinforce" \in DOMAIN saved =>
                               saved["reinforce"] = IF Episodes < Batch THEN 1 ELSE Episodes \div Batch
      BY DEF CheckpointsAreOwn
    <2>1. saved = trained /\ DOMAIN trained \in Requests
      BY JobIs DEF Versions
    <2>2. "reinforce" \in DOMAIN trained => trained["reinforce"] = IF q > 1 THEN q ELSE 1
      BY <1>8 DEF Versions
    <2>3. (IF q > 1 THEN q ELSE 1) = IF Episodes < Batch THEN 1 ELSE q
      BY <1>8
    <2> QED BY <1>8, <2>1, <2>2, <2>3
  <1> QED BY <1>4, <1>5, <1>6, <1>7, <1>9, <1>10 DEF SamplesSound

\* For every request, batch size, number of episodes and of epochs and every length of
\* an episode: all samples of a batch were chosen by the policy its update changes, every
\* batch is whole trajectories with the targets of their own episodes, the history has one
\* return per episode and each checkpoint is the policy its own trainer left
\* (bandit.py, train.py, ppo.py and main()).
THEOREM SamplesAreSound == TrainSpec => []SamplesSound
  <1>1. TrainSpec => []TrainInv
    BY TrainInitially, TrainingKeeps, PTL DEF TrainSpec
  <1> QED BY <1>1, TrainInvSuffices, PTL

\* For every size of the minibatches and of the batch: every gradient step of a PPO
\* update belongs to a pass over the whole batch or to the one under way, and no update
\* has more passes than epochs (train_ppo, whose early stop leaves both loops).
THEOREM UpdatesAreWholePasses == TrainSpec => []PassesAreWhole
  <1>1. TrainSpec => []TrainInv
    BY TrainInitially, TrainingKeeps, PTL DEF TrainSpec
  <1>2. TrainInv => PassesAreWhole
    BY DEF TrainInv, Passes
  <1> QED BY <1>1, <1>2, PTL

-----------------------------------------------------------------------------
(* The inductive invariant of the model trainers *)

\* The configuration is one of its trainer, and each trainer has its own phases.
Configured ==
    /\ job \in TrainConfig \/ job \in TrainReIDConfig \/ job \in TrainRealReIDConfig
    /\ phase \in Ended \cup {"prepare", "build", "train", "validate", "next", "rank", "finish"}
    /\ phase = "validate" => job.trainer = "embed"
    /\ phase = "rank" => job.trainer # "embed"

\* What is held out is apart from what is trained on, and the loader and the
\* optimizer have seen nothing else.
SplitKept ==
    /\ labels \in Seq(DOMAIN Kit)
    /\ held \subseteq DOMAIN labels /\ tok \subseteq DOMAIN labels \ held
    /\ train \in Seq(DOMAIN labels \ held)
    /\ fed \subseteq Range(train) /\ (phase = "prepare" => fed = {})
    /\ phase = "train" /\ job.trainer # "real" => left \subseteq Range(train)

\* A file this run has written, whole.
Own(f) == disk[f].run = run /\ ~disk[f].torn

LastFiles == IF job.trainer = "embed" THEN {"last", "metrics", "history"} ELSE {"tokenizer", "model", "summary"}

FilesTyped ==
    /\ run \in Nat /\ epoch \in Nat
    /\ disk \in [Files -> [run : Nat, epoch : Nat, torn : BOOLEAN]]
    /\ \A f \in Files : disk[f].run <= run

\* The files a run still has to write, by where it is.
Pending ==
    /\ phase = "build" => todo \in {<<>>, <<"tokenizer">>}
    /\ phase = "next" => todo \in {<<>>, <<"best">>}
    /\ phase \in {"build", "next"} /\ job.trainer # "embed" => todo = <<>>
    /\ phase = "finish" =>
           IF job.trainer = "embed"
           THEN todo \in {<<"last", "metrics", "history">>, <<"metrics", "history">>, <<"history">>, <<>>}
           ELSE todo \in {<<"tokenizer", "model", "summary">>, <<"model", "summary">>, <<"summary">>, <<>>}
    /\ phase \notin {"build", "next", "finish"} => todo = <<>>

\* The files that are not among them any more are this run's.
Written ==
    /\ job.trainer = "embed" /\ phase \in {"train", "validate", "next", "finish", "done"} => Own("tokenizer")
    /\ job.trainer = "embed" /\ phase = "build" /\ todo = <<>> => Own("tokenizer")
    /\ phase \in {"finish", "done"} => \A f \in LastFiles \ Range(todo) : Own(f)
    /\ SummaryTrailsModel

\* The first epoch with the least loss.
FirstBest(e, l) ==
    /\ e \in DOMAIN l /\ l[e] # NaN
    /\ \A d \in DOMAIN l : l[d] # NaN => l[e] <= l[d] /\ (d < e => l[e] < l[d])

\* best.pt is of that epoch, unless it is about to be written.
BestSaved ==
    Range(losses) \subseteq {NaN} \/
        \E e \in DOMAIN losses : FirstBest(e, losses) /\ disk["best"] = [run |-> run, epoch |-> e, torn |-> FALSE]

BestKept ==
    /\ losses \in Seq(Losses \cup {0, NaN})
    /\ job.trainer = "embed" =>
          /\ phase \in {"prepare", "build"} => losses = <<>> /\ epoch = 0
          /\ phase \in {"train", "validate"} => epoch = Len(losses) + 1 /\ BestSaved
          /\ phase \in {"next", "finish", "done"} => epoch = Len(losses) /\ epoch >= 1
          /\ phase = "next" /\ todo = <<"best">> => FirstBest(epoch, losses)
          /\ phase = "next" /\ todo = <<>> => BestSaved
          /\ phase \in {"finish", "done"} => BestSaved

FitInv == Configured /\ SplitKept /\ FilesTyped /\ Pending /\ Written /\ BestKept

-----------------------------------------------------------------------------
(* Splits and batches *)

\* A finite set of numbers can be put in order: each is there, and once.
Orders(s, S) ==
    /\ s \in Seq(S) /\ Len(s) = Cardinality(S) /\ IsInjective(s)
    /\ \A x \in S : \E n \in DOMAIN s : s[n] = x

LEMMA AscendingOrders ==
    ASSUME NEW S \in SUBSET Nat, IsFiniteSet(S)
    PROVE  Orders(Ascending(S), S)
  <1> DEFINE below(x) == {y \in S : y < x}
             rank == [x \in S |-> Cardinality(below(x)) + 1]
  <1>1. PICK k \in Nat : k = Cardinality(S)
    BY FS_CardinalityType
  <1>2. ASSUME NEW x \in S PROVE IsFiniteSet(below(x)) /\ Cardinality(below(x)) \in Nat /\ Cardinality(below(x)) < k
    <2>1. below(x) \in SUBSET S /\ below(x) # S
      OBVIOUS
    <2> HIDE DEF below
    <2>2. IsFiniteSet(below(x)) /\ Cardinality(below(x)) <= k /\ Cardinality(below(x)) # k
      BY <1>1, <2>1, FS_Subset
    <2>3. Cardinality(below(x)) \in Nat
      BY <2>2, FS_CardinalityType
    <2> QED BY <2>2, <2>3
  <1>3. ASSUME NEW x \in S, NEW y \in S, x < y PROVE Cardinality(below(x)) < Cardinality(below(y))
    <2>1. below(x) \in SUBSET below(y) /\ below(x) # below(y)
      <3>1. x \in below(y) /\ x \notin below(x)
        BY <1>3
      <3>2. below(x) \subseteq below(y)
        <4> SUFFICES ASSUME NEW z \in S, z < x PROVE z < y
          OBVIOUS
        <4>1. x \in Nat /\ y \in Nat /\ z \in Nat
          OBVIOUS
        <4> QED BY <1>3, <4>1
      <3> HIDE DEF below
      <3> QED BY <3>1, <3>2
    <2> HIDE DEF below
    <2>2. Cardinality(below(x)) <= Cardinality(below(y)) /\ Cardinality(below(x)) # Cardinality(below(y))
      BY <1>2, <2>1, FS_Subset
    <2> QED BY <1>2, <2>2
  <1>4. ASSUME NEW m \in 1 .. k PROVE \E x \in S : rank[x] = m
    <2> SUFFICES ASSUME \A x \in S : rank[x] # m PROVE FALSE
      OBVIOUS
    <2> DEFINE T == (1 .. k) \ {m}
    <2>1. IsFiniteSet(1 .. k) /\ Cardinality(1 .. k) = k
      BY FS_Interval
    <2>2. IsFiniteSet(T) /\ Cardinality(T) = k - 1
      <3> DEFINE U == 1 .. k
      <3>1. m \in U /\ IsFiniteSet(U) /\ Cardinality(U) = k /\ T = U \ {m}
        BY <2>1
      <3> HIDE DEF T, U
      <3>2. IsFiniteSet(U \ {m}) /\ Cardinality(U \ {m}) = Cardinality(U) - 1
        BY <3>1, FS_RemoveElement
      <3> QED BY <3>1, <3>2
    <2>3. rank \in [S -> T]
      <3>1. \A x \in S : Cardinality(below(x)) + 1 \in 1 .. k
        <4> HIDE DEF below
        <4> QED BY <1>2
      <3>2. \A x \in S : rank[x] \in T
        <4>1. \A x \in S : rank[x] = Cardinality(below(x)) + 1
          OBVIOUS
        <4> HIDE DEF below, rank
        <4> QED BY <3>1, <4>1
      <3> HIDE DEF below, T
      <3> QED BY <3>2
    <2>4. PICK x \in S, y \in S : x # y /\ rank[x] = rank[y]
      <3>1. Cardinality(T) < Cardinality(S)
        BY <1>1, <2>2
      <3> HIDE DEF rank, T
      <3> QED BY <2>2, <2>3, <3>1, FS_PigeonHole
    <2>5. Cardinality(below(x)) = Cardinality(below(y))
      <3>1. Cardinality(below(x)) + 1 = Cardinality(below(y)) + 1
        BY <2>4
      <3> HIDE DEF below
      <3> QED BY <1>2, <3>1
    <2>6. x < y \/ y < x
      BY <2>4
    <2> HIDE DEF below
    <2> QED BY <1>2, <1>3, <2>5, <2>6
  <1> DEFINE A == Ascending(S)
  <1>5. ASSUME NEW n \in 1 .. k
        PROVE  A[n] \in S /\ Cardinality(below(A[n])) = n - 1
    <2>1. PICK x \in S : rank[x] = n
      BY <1>4
    <2>2. Cardinality(below(x)) + 1 = n
      BY <2>1
    <2>3. Cardinality(below(x)) = n - 1
      <3> HIDE DEF below
      <3> QED BY <1>2, <2>2
    <2>4. A[n] = CHOOSE y \in S : Cardinality(below(y)) = n - 1
      BY <1>1 DEF Ascending
    <2> HIDE DEF below, A
    <2> QED BY <2>3, <2>4
  <1>6. A \in [1 .. k -> S]
    <2> DEFINE nth(n) == CHOOSE y \in S : Cardinality({z \in S : z < y}) = n - 1
    <2>1. A = [n \in 1 .. k |-> nth(n)]
      BY <1>1 DEF Ascending
    <2> HIDE DEF A, nth
    <2>2. \A n \in 1 .. k : nth(n) \in S
      BY <1>5, <2>1
    <2> QED BY <2>1, <2>2
  <1> HIDE DEF A
  <1>7. A \in Seq(S) /\ Len(A) = k /\ DOMAIN A = 1 .. k
    BY <1>6
  <1>8. IsInjective(A)
    <2> SUFFICES ASSUME NEW m \in 1 .. k, NEW n \in 1 .. k, A[m] = A[n] PROVE m = n
      BY <1>7 DEF IsInjective
    <2>1. m - 1 = n - 1
      <3> HIDE DEF below
      <3> QED BY <1>5
    <2> QED BY <2>1
  <1>9. ASSUME NEW x \in S PROVE \E n \in DOMAIN A : A[n] = x
    <2> DEFINE c == Cardinality(below(x))
    <2>1. c \in Nat /\ c + 1 \in 1 .. k
      <3> HIDE DEF below
      <3> QED BY <1>2
    <2>2. A[c + 1] \in S /\ Cardinality(below(A[c + 1])) = c
      <3> HIDE DEF c, below
      <3> QED BY <1>5, <2>1
    <2>3. A[c + 1] = x
      <3> DEFINE y == A[c + 1]
      <3>1. y \in S /\ Cardinality(below(y)) = Cardinality(below(x))
        BY <2>2
      <3> HIDE DEF y, c, below
      <3>2. ~(x < y) /\ ~(y < x)
        BY <1>2, <1>3, <3>1
      <3>3. x \in Nat /\ y \in Nat
        BY <3>1
      <3>4. x = y
        BY <3>2, <3>3
      <3> QED BY <3>4 DEF y
    <2> HIDE DEF c
    <2> QED BY <1>7, <2>1, <2>3
  <1>10. Ascending(S) \in Seq(S) /\ Len(Ascending(S)) = Cardinality(S) /\ IsInjective(Ascending(S))
    BY <1>1, <1>7, <1>8 DEF A
  <1> QED BY <1>9, <1>10 DEF A, Orders

LEMMA AscendingIs ==
    ASSUME NEW S \in SUBSET Nat, IsFiniteSet(S)
    PROVE  Ascending(S) \in Seq(S) /\ Len(Ascending(S)) = Cardinality(S)
  BY AscendingOrders DEF Orders

\* The part of a sequence at a set of its positions.
LEMMA AtIs ==
    ASSUME NEW R, NEW s \in Seq(R), NEW S \in SUBSET DOMAIN s
    PROVE  At(s, S) \in Seq(R)
  <1>1. S \in SUBSET Nat /\ IsFiniteSet(S) /\ \A n \in S : s[n] \in R
    <2>1. Len(s) \in Nat /\ DOMAIN s = 1 .. Len(s) /\ IsFiniteSet(1 .. Len(s))
      BY FS_Interval
    <2>2. IsFiniteSet(S)
      BY <2>1, FS_Subset
    <2> QED BY <2>1, <2>2
  <1>2. PICK k \in Nat : k = Cardinality(S)
    BY <1>1, FS_CardinalityType
  <1>3. \A n \in 1 .. k : Ascending(S)[n] \in S
    BY <1>1, <1>2, AscendingIs
  <1>4. At(s, S) \in [1 .. k -> R]
    BY <1>1, <1>2, <1>3 DEF At
  <1> QED BY <1>4

\* A sequence over a set is one over every larger set.
LEMMA SeqOfMore == ASSUME NEW D, NEW S \in SUBSET D, NEW s \in Seq(S) PROVE s \in Seq(D)
  <1>1. Len(s) \in Nat /\ s \in [1 .. Len(s) -> S]
    OBVIOUS
  <1>2. s \in [1 .. Len(s) -> D]
    BY <1>1
  <1> QED BY <1>1, <1>2

\* The positions of a sequence are finitely many numbers.
LEMMA PositionsAre ==
    ASSUME NEW R, NEW s \in Seq(R), NEW S \in SUBSET DOMAIN s
    PROVE  S \in SUBSET Nat /\ IsFiniteSet(S)
  <1>1. Len(s) \in Nat /\ DOMAIN s = 1 .. Len(s) /\ IsFiniteSet(1 .. Len(s))
    BY FS_Interval
  <1>2. IsFiniteSet(S)
    BY <1>1, FS_Subset
  <1> QED BY <1>1, <1>2

\* Flattening is concatenating one sequence after the other.
Concatenates(f, seqs) ==
    f = [i \in 1 .. Len(seqs) |-> IF i = 1 THEN seqs[i] ELSE f[i - 1] \o seqs[i]]

\* There is such a function.
LEMMA ConcatenatesExists ==
    ASSUME NEW R, NEW seqs \in Seq(Seq(R))
    PROVE  \E f : f \in [1 .. Len(seqs) -> Seq(R)] /\ Concatenates(f, seqs)
  <1> DEFINE n == Len(seqs)
             onto(f, i) == IF i = 1 THEN seqs[i] ELSE f[i - 1] \o seqs[i]
             N == {k \in Nat : \E f \in [1 .. n -> Seq(R)] : \A i \in 1 .. n : i <= k => f[i] = onto(f, i)}
  <1>0. n \in Nat /\ \A i \in 1 .. n : seqs[i] \in Seq(R)
    OBVIOUS
  <1>1. 0 \in N
    <2> DEFINE f == [i \in 1 .. n |-> <<>>]
    <2>1. f \in [1 .. n -> Seq(R)] /\ \A i \in 1 .. n : ~(i <= 0)
      BY <1>0
    <2> HIDE DEF n, f, onto
    <2> QED BY <2>1
  <1>2. ASSUME NEW k \in Nat, k \in N PROVE k + 1 \in N
    <2>1. PICK f \in [1 .. n -> Seq(R)] : \A i \in 1 .. n : i <= k => f[i] = onto(f, i)
      BY <1>2
    <2> DEFINE g == [i \in 1 .. n |-> onto(f, i)]
    <2> HIDE DEF n
    <2>2. ASSUME NEW i \in 1 .. n PROVE onto(f, i) \in Seq(R)
      <3>1. CASE i = 1
        BY <1>0, <3>1
      <3>2. CASE i # 1
        <4>1. i - 1 \in 1 .. n
          BY <1>0, <3>2
        <4>2. f[i - 1] \in Seq(R) /\ seqs[i] \in Seq(R)
          BY <1>0, <2>1, <4>1
        <4>3. f[i - 1] \o seqs[i] \in Seq(R)
          BY <4>2
        <4> QED BY <3>2, <4>3
      <3> QED BY <3>1, <3>2
    <2>3. g \in [1 .. n -> Seq(R)]
      <3> HIDE DEF onto
      <3> QED BY <2>2
    <2>4. ASSUME NEW i \in 1 .. n, i <= k + 1 PROVE g[i] = onto(g, i)
      <3>1. CASE i = 1
        BY <3>1
      <3>2. CASE i # 1
        <4>1. i - 1 \in 1 .. n /\ i - 1 <= k
          BY <1>0, <2>4, <3>2
        <4>2. f[i - 1] = onto(f, i - 1) /\ g[i - 1] = onto(f, i - 1)
          <5> HIDE DEF onto
          <5> QED BY <2>1, <4>1
        <4>3. g[i] = onto(f, i)
          <5> HIDE DEF onto
          <5> QED OBVIOUS
        <4>4. onto(f, i) = f[i - 1] \o seqs[i] /\ onto(g, i) = g[i - 1] \o seqs[i]
          <5> HIDE DEF g
          <5> QED BY <3>2
        <4> HIDE DEF g, onto
        <4> QED BY <4>2, <4>3, <4>4
      <3> QED BY <3>1, <3>2
    <2> HIDE DEF g, onto
    <2>5. \E h \in [1 .. n -> Seq(R)] : \A i \in 1 .. n : i <= k + 1 => h[i] = onto(h, i)
      BY <2>3, <2>4
    <2>6. k + 1 \in Nat
      OBVIOUS
    <2> QED BY <2>5, <2>6
  <1>3. Nat \subseteq N
    <2> HIDE DEF N
    <2> QED BY <1>1, <1>2, StepByStep
  <1>4. n \in N
    BY <1>0, <1>3
  <1>5. PICK f \in [1 .. n -> Seq(R)] : \A i \in 1 .. n : i <= n => f[i] = onto(f, i)
    BY <1>4
  <1>6. f = [i \in 1 .. n |-> onto(f, i)]
    <2> HIDE DEF n, onto
    <2> QED BY <1>0, <1>5
  <1> QED BY <1>6 DEF Concatenates

\* What is flattened is made of the same elements.
LEMMA FlattenIs ==
    ASSUME NEW R, NEW seqs \in Seq(Seq(R))
    PROVE  FlattenSeq(seqs) \in Seq(R)
  <1>1. CASE Len(seqs) = 0
    <2>1. seqs = <<>>
      BY <1>1
    <2>2. FlattenSeq(seqs) = <<>>
      BY <1>1, <2>1 DEF FlattenSeq
    <2> QED BY <2>2
  <1>2. CASE Len(seqs) # 0
    <2> DEFINE f == CHOOSE g : Concatenates(g, seqs)
               n == Len(seqs)
               N == {k \in Nat : \A i \in 1 .. n : i <= k => f[i] \in Seq(R)}
    <2>1. FlattenSeq(seqs) = f[n]
      BY <1>2 DEF FlattenSeq, Concatenates
    <2>2. Concatenates(f, seqs)
      BY ConcatenatesExists
    <2>3. n \in Nat /\ n \in 1 .. n /\ \A i \in 1 .. n : seqs[i] \in Seq(R)
      BY <1>2
    <2>4. \A i \in 1 .. n : f[i] = IF i = 1 THEN seqs[i] ELSE f[i - 1] \o seqs[i]
      <3> HIDE DEF f
      <3> QED BY <2>2 DEF Concatenates
    <2> HIDE DEF f, n
    <2>5. 0 \in N
      BY <2>3
    <2>6. ASSUME NEW k \in Nat, k \in N PROVE k + 1 \in N
      <3> SUFFICES ASSUME NEW i \in 1 .. n, i <= k + 1 PROVE f[i] \in Seq(R)
        OBVIOUS
      <3>1. CASE i = 1
        BY <2>3, <2>4, <3>1
      <3>2. CASE i # 1
        <4>1. i - 1 \in 1 .. n /\ i - 1 <= k
          BY <2>3, <3>2
        <4>2. f[i - 1] \in Seq(R) /\ seqs[i] \in Seq(R)
          BY <2>3, <2>6, <4>1
        <4>3. f[i - 1] \o seqs[i] \in Seq(R)
          BY <4>2
        <4> QED BY <2>4, <3>2, <4>3
      <3> QED BY <3>1, <3>2
    <2>7. Nat \subseteq N
      <3> HIDE DEF N
      <3> QED BY <2>5, <2>6, StepByStep
    <2>8. f[n] \in Seq(R)
      <3>1. n \in N
        <4> HIDE DEF N
        <4> QED BY <2>3, <2>7
      <3>2. n <= n
        BY <2>3
      <3> QED BY <2>3, <3>1, <3>2
    <2> QED BY <2>1, <2>8
  <1> QED BY <1>1, <1>2

\* What the loader serves was left to draw from.
LEMMA ServedIs ==
    ASSUME NEW D \in SUBSET Nat, IsFiniteSet(D), NEW size, NEW dropLast, NEW b \in Served(D, size, dropLast)
    PROVE  b \in Seq(D) /\ Range(b) \subseteq D
  <1>1. PICK S \in SUBSET D : b = Ascending(S)
    BY DEF Served, kSubset
  <1>2. IsFiniteSet(S) /\ S \in SUBSET Nat
    BY FS_Subset
  <1>3. b \in Seq(S)
    BY <1>1, <1>2, AscendingIs
  <1>4. b \in Seq(D)
    BY <1>3, SeqOfMore
  <1> QED BY <1>4 DEF Range

\* The sessions picked of one identity are its own, also when some are repeated.
LEMMA PicksAre ==
    ASSUME NEW A \in SUBSET Nat, IsFiniteSet(A), NEW k \in Nat, NEW x \in Picks(A, k)
    PROVE  x \in Seq(A)
  <1>1. CASE Cardinality(A) >= k
    <2>1. PICK S \in SUBSET A : x = Ascending(S)
      BY <1>1 DEF Picks, kSubset
    <2>2. IsFiniteSet(S) /\ S \in SUBSET Nat
      BY FS_Subset
    <2>3. x \in Seq(S)
      BY <2>1, <2>2, AscendingIs
    <2> QED BY <2>3, SeqOfMore
  <1>2. CASE ~(Cardinality(A) >= k)
    <2>1. PICK again \in [1 .. k - Cardinality(A) -> A] : x = Ascending(A) \o again
      BY <1>2 DEF Picks
    <2>2. PICK m \in Nat : m = k - Cardinality(A)
      BY <1>2, FS_CardinalityType
    <2>3. again \in Seq(A)
      <3>1. again \in [1 .. m -> A]
        BY <2>2
      <3> QED BY <3>1
    <2>4. Ascending(A) \in Seq(A)
      BY AscendingIs
    <2> QED BY <2>1, <2>3, <2>4
  <1> QED BY <1>1, <1>2

\* The sampler yields positions of the labels it was given.
LEMMA PKBatchesAre ==
    ASSUME NEW R, NEW l \in Seq(R), NEW p \in Nat, NEW k \in Nat, NEW b \in PKBatches(l, p, k)
    PROVE  b \in Seq(DOMAIN l)
  <1>1. PICK chosen \in kSubset(p, Range(l)) :
            b \in LET ids == SetToSeq(chosen)
                      picks == [j \in 1 .. p |-> Picks(SessionsOf(l, ids[j]), k)]
                  IN  {FlattenSeq(row) : row \in {r \in [1 .. p -> UNION Range(picks)] : \A j \in 1 .. p : r[j] \in picks[j]}}
    BY DEF PKBatches
  <1> DEFINE ids == SetToSeq(chosen)
             picks == [j \in 1 .. p |-> Picks(SessionsOf(l, ids[j]), k)]
  <1>2. PICK row \in [1 .. p -> UNION Range(picks)] : b = FlattenSeq(row) /\ \A j \in 1 .. p : row[j] \in picks[j]
    BY <1>1
  <1>3. ASSUME NEW j \in 1 .. p PROVE row[j] \in Seq(DOMAIN l)
    <2> DEFINE A == SessionsOf(l, ids[j])
    <2>1. row[j] \in Picks(A, k)
      BY <1>2
    <2>2. A \in SUBSET DOMAIN l
      BY DEF SessionsOf
    <2> HIDE DEF A
    <2>3. A \in SUBSET Nat /\ IsFiniteSet(A)
      BY <2>2, PositionsAre
    <2>4. row[j] \in Seq(A)
      BY <2>1, <2>3, PicksAre
    <2> QED BY <2>2, <2>4
  <1>4. row \in Seq(Seq(DOMAIN l))
    <2>1. row \in [1 .. p -> Seq(DOMAIN l)]
      <3> HIDE DEF picks
      <3> QED BY <1>2, <1>3
    <2> QED BY <2>1
  <1> QED BY <1>2, <1>4, FlattenIs

-----------------------------------------------------------------------------
(* Configurations, files and losses *)

\* What the properties ask of a configuration.
LEMMA ConfigIs ==
    ASSUME Configured
    PROVE  /\ job.trainer \in {"embed", "reid", "real"}
           /\ job.corpora \subseteq Seq(DOMAIN Kit)
           /\ job.trainer = "reid" => job \in TrainReIDConfig /\ job.variants \in Nat
           /\ job.trainer = "real" => job.p \in Nat /\ job.k \in Nat
  <1>1. CASE job \in TrainConfig
    BY <1>1 DEF TrainConfig
  <1>2. CASE job \in TrainReIDConfig
    BY <1>2 DEF TrainReIDConfig
  <1>3. CASE job \in TrainRealReIDConfig
    BY <1>3 DEF TrainRealReIDConfig
  <1> QED BY <1>1, <1>2, <1>3 DEF Configured

\* A list of files, from the one that is written next.
LEMMA QueueOfOne ==
    ASSUME NEW a
    PROVE  <<a>> # <<>> /\ Head(<<a>>) = a /\ Tail(<<a>>) = <<>> /\ Range(<<a>>) = {a} /\ Range(<<>>) = {}
  <1>1. Len(<<a>>) = 1 /\ <<a>>[1] = a /\ DOMAIN <<a>> = {1} /\ <<a>> \in Seq({a})
    OBVIOUS
  <1>2. Tail(<<a>>) = <<>>
    <2>1. Tail(<<a>>) \in Seq({a}) /\ Len(Tail(<<a>>)) = 0
      BY <1>1
    <2> QED BY <2>1
  <1>3. Range(<<a>>) = {a}
    BY <1>1 DEF Range
  <1>4. DOMAIN <<>> = {}
    OBVIOUS
  <1>5. Range(<<>>) = {}
    BY <1>4 DEF Range
  <1> QED BY <1>1, <1>2, <1>3, <1>5

LEMMA QueueOfTwo ==
    ASSUME NEW a, NEW b
    PROVE  <<a, b>> # <<>> /\ Head(<<a, b>>) = a /\ Tail(<<a, b>>) = <<b>> /\ Range(<<a, b>>) = {a, b}
  <1>1. Len(<<a, b>>) = 2 /\ <<a, b>>[1] = a /\ <<a, b>>[2] = b /\ DOMAIN <<a, b>> = {1, 2} /\ <<a, b>> \in Seq({a, b})
    OBVIOUS
  <1>2. Tail(<<a, b>>) = <<b>>
    <2>1. Tail(<<a, b>>) \in Seq({a, b}) /\ Len(Tail(<<a, b>>)) = 1 /\ Tail(<<a, b>>)[1] = b
      BY <1>1
    <2>2. <<b>> \in Seq({a, b}) /\ Len(<<b>>) = 1 /\ <<b>>[1] = b
      OBVIOUS
    <2>3. \A i \in 1 .. Len(<<b>>) : Tail(<<a, b>>)[i] = <<b>>[i]
      BY <2>1, <2>2
    <2> QED BY <2>1, <2>2, <2>3, SeqEqual
  <1>3. Range(<<a, b>>) = {a, b}
    BY <1>1 DEF Range
  <1> QED BY <1>1, <1>2, <1>3

LEMMA QueueOfThree ==
    ASSUME NEW a, NEW b, NEW c
    PROVE  /\ <<a, b, c>> # <<>> /\ Head(<<a, b, c>>) = a /\ Tail(<<a, b, c>>) = <<b, c>>
           /\ Range(<<a, b, c>>) = {a, b, c}
  <1> DEFINE q == <<a, b, c>>
             S == {a, b, c}
  <1>1. Len(q) = 3 /\ q[1] = a /\ q[2] = b /\ q[3] = c /\ DOMAIN q = {1, 2, 3} /\ q \in Seq(S)
    OBVIOUS
  <1>2. Tail(q) = <<b, c>>
    <2>1. <<b, c>> \in Seq(S) /\ Len(<<b, c>>) = 2 /\ <<b, c>>[1] = b /\ <<b, c>>[2] = c
      OBVIOUS
    <2> HIDE DEF q, S
    <2>2. Tail(q) \in Seq(S) /\ Len(Tail(q)) = 2 /\ \A i \in 1 .. 2 : Tail(q)[i] = q[i + 1]
      <3>1. q # <<>> /\ q \in Seq(S)
        <4>1. q \in Seq(S)
          BY <1>1
        <4>2. q = <<>> => Len(q) = 0
          OBVIOUS
        <4>3. Len(q) = 3 /\ 3 # 0
          BY <1>1
        <4> QED BY <4>1, <4>2, <4>3
      <3>2. Tail(q) \in Seq(S) /\ Len(Tail(q)) = Len(q) - 1 /\ \A i \in 1 .. Len(Tail(q)) : Tail(q)[i] = q[i + 1]
        BY <3>1, HeadTailProperties
      <3>3. Len(Tail(q)) = 2
        BY <1>1, <3>2
      <3> QED BY <3>2, <3>3
    <2>3. \A i \in 1 .. Len(<<b, c>>) : Tail(q)[i] = <<b, c>>[i]
      <3>1. Tail(q)[1] = q[1 + 1] /\ Tail(q)[2] = q[2 + 1] /\ 1 + 1 = 2 /\ 2 + 1 = 3
        BY <2>2
      <3>2. \A i \in 1 .. 2 : i = 1 \/ i = 2
        OBVIOUS
      <3> QED BY <1>1, <2>1, <3>1, <3>2
    <2> QED BY <2>1, <2>2, <2>3, SeqEqual
  <1>3. Range(q) = S
    <2> HIDE DEF q
    <2> QED BY <1>1 DEF Range
  <1>4. q # <<>> /\ Head(q) = a
    BY <1>1
  <1> QED BY <1>2, <1>3, <1>4

\* One file is written and no other changes.
LEMMA WriteOne ==
    ASSUME FilesTyped, NEW h \in Files, NEW t \in BOOLEAN, UNCHANGED <<run, epoch>>,
           disk' = [disk EXCEPT ![h] = [run |-> run, epoch |-> epoch, torn |-> t]]
    PROVE  /\ FilesTyped' /\ disk'[h] = [run |-> run, epoch |-> epoch, torn |-> t]
           /\ disk'[h].run = run /\ disk'[h].torn = t
           /\ \A f \in Files \ {h} : disk'[f] = disk[f]
  <1> DEFINE x == [run |-> run, epoch |-> epoch, torn |-> t]
  <1>1. x \in [run : Nat, epoch : Nat, torn : BOOLEAN] /\ x.run = run /\ x.torn = t
    BY DEF FilesTyped
  <1> HIDE DEF x
  <1>2. disk' = [disk EXCEPT ![h] = x]
    BY DEF x
  <1>3. disk'[h] = x /\ \A f \in Files \ {h} : disk'[f] = disk[f]
    BY <1>2 DEF FilesTyped
  <1>4. disk' \in [Files -> [run : Nat, epoch : Nat, torn : BOOLEAN]]
    BY <1>1, <1>2 DEF FilesTyped
  <1>5. \A f \in Files : disk'[f].run <= run
    BY <1>1, <1>3 DEF FilesTyped
  <1>6. FilesTyped'
    BY <1>4, <1>5 DEF FilesTyped
  <1> QED BY <1>1, <1>3, <1>6 DEF x

\* The summary stays behind the model, if it is only written after it.
LEMMA SummaryTrails ==
    ASSUME FilesTyped, SummaryTrailsModel, NEW h \in Files, NEW t \in BOOLEAN, UNCHANGED <<run, epoch>>,
           disk' = [disk EXCEPT ![h] = [run |-> run, epoch |-> epoch, torn |-> t]],
           h = "summary" /\ ~t => disk["model"].run = run
    PROVE  SummaryTrailsModel'
  <1>1. /\ disk'[h].run = run /\ disk'[h].torn = t
        /\ \A f \in Files \ {h} : disk'[f] = disk[f]
    BY WriteOne
  <1>2. "summary" \in Files /\ "model" \in Files /\ "summary" # "model"
    BY DEF Files
  <1>3. disk["summary"].run <= run /\ disk["summary"].run \in Nat /\ run \in Nat
    BY <1>2 DEF FilesTyped
  <1>4. CASE h = "summary"
    <2>1. disk'["model"] = disk["model"]
      BY <1>1, <1>2, <1>4
    <2> QED BY <1>1, <1>3, <1>4, <2>1 DEF SummaryTrailsModel
  <1>5. CASE h = "model"
    <2>1. disk'["summary"] = disk["summary"]
      BY <1>1, <1>2, <1>5
    <2> QED BY <1>1, <1>3, <1>5, <2>1 DEF SummaryTrailsModel
  <1>6. CASE h \notin {"summary", "model"}
    <2>1. disk'["model"] = disk["model"] /\ disk'["summary"] = disk["summary"]
      BY <1>1, <1>2, <1>6
    <2> QED BY <2>1 DEF SummaryTrailsModel
  <1> QED BY <1>4, <1>5, <1>6

\* The losses are numbers, or NaN, which is none.
LEMMA LossesAre ==
    ASSUME NEW l \in Seq(Losses \cup {0, NaN})
    PROVE  /\ Len(l) \in Nat /\ DOMAIN l = 1 .. Len(l)
           /\ \A d \in DOMAIN l : l[d] # NaN => l[d] \in Nat
           /\ NaN \notin Nat /\ Inf \notin Nat
  <1>1. Losses \subseteq Nat /\ NaN \notin Nat /\ Inf \notin Nat
    BY ModelsAssumption
  <1>2. Len(l) \in Nat /\ DOMAIN l = 1 .. Len(l)
    OBVIOUS
  <1>3. \A d \in DOMAIN l : l[d] \in Losses \cup {0, NaN}
    OBVIOUS
  <1>4. \A v \in Losses \cup {0, NaN} : v # NaN => v \in Nat
    BY <1>1
  <1>5. \A d \in DOMAIN l : l[d] # NaN => l[d] \in Nat
    BY <1>3, <1>4, Zenon
  <1> QED BY <1>1, <1>2, <1>5

\* The first best epoch is what the property says it is.
LEMMA FirstBestIs ==
    ASSUME NEW l \in Seq(Losses \cup {0, NaN}), NEW e, FirstBest(e, l)
    PROVE  /\ Least(l) = l[e] /\ l[e] \in Nat
           /\ Min({d \in DOMAIN l : l[d] = Least(l)}) = e
  <1>1. e \in DOMAIN l /\ l[e] # NaN /\ \A d \in DOMAIN l : l[d] # NaN => l[e] <= l[d] /\ (d < e => l[e] < l[d])
    BY DEF FirstBest
  <1>2. l[e] \in Nat /\ \A d \in DOMAIN l : l[d] # NaN => l[d] \in Nat
    BY <1>1, LossesAre
  <1> DEFINE V == Range(l) \ {NaN}
  <1>3. l[e] \in V /\ (\A v \in V : v \in Nat /\ l[e] <= v)
    BY <1>1, <1>2 DEF Range
  <1>4. Least(l) = l[e]
    <2> HIDE DEF V
    <2>1. \A v \in V : (\A w \in V : v =< w) => v = l[e]
      BY <1>2, <1>3
    <2>2. (CHOOSE v \in V : \A w \in V : v =< w) = l[e]
      BY <1>3, <2>1
    <2> QED BY <2>2 DEF Least, Min, V
  <1> DEFINE D == {d \in DOMAIN l : l[d] = Least(l)}
  <1>5. e \in D /\ D \subseteq Nat
    <2>1. DOMAIN l = 1 .. Len(l) /\ Len(l) \in Nat
      BY LossesAre
    <2> QED BY <1>1, <1>4, <2>1
  <1>6. \A d \in D : e <= d
    <2> SUFFICES ASSUME NEW d \in D, d < e PROVE FALSE
      BY <1>5
    <2>1. l[d] = l[e] /\ d \in DOMAIN l
      BY <1>4
    <2>2. l[e] < l[d]
      BY <1>1, <2>1
    <2> QED BY <1>2, <2>1, <2>2
  <1>7. Min(D) = e
    <2> HIDE DEF D
    <2>1. \A d \in D : (\A c \in D : d =< c) => d = e
      BY <1>5, <1>6
    <2> QED BY <1>5, <1>6, <2>1 DEF Min
  <1> QED BY <1>2, <1>4, <1>7

\* A new loss that improves is the first best; any other leaves it.
LEMMA NextBest ==
    ASSUME losses \in Seq(Losses \cup {0, NaN}), NEW loss \in Losses \cup {0, NaN}
    PROVE  LET l == Append(losses, loss)
           IN  /\ (Range(losses) \subseteq {NaN} \/ \E e \in DOMAIN losses : FirstBest(e, losses)) /\ Improves(loss)
                      => FirstBest(Len(l), l)
               /\ \A e : FirstBest(e, losses) /\ ~Improves(loss) => FirstBest(e, l)
               /\ Range(losses) \subseteq {NaN} /\ ~Improves(loss) => Range(l) \subseteq {NaN}
  <1> DEFINE l == Append(losses, loss)
             n == Len(losses)
  <1>0. Losses \cup {0} \subseteq Nat /\ NaN \notin Nat /\ Inf \notin Nat /\ (loss # NaN => loss \in Nat)
    BY ModelsAssumption
  <1>1. n \in Nat /\ Len(l) = n + 1 /\ DOMAIN l = 1 .. n + 1 /\ DOMAIN losses = 1 .. n
        /\ l[n + 1] = loss /\ \A d \in 1 .. n : l[d] = losses[d]
    OBVIOUS
  <1>2. \A d \in 1 .. n : losses[d] # NaN => losses[d] \in Nat
    BY LossesAre
  <1> HIDE DEF l, n
  <1>3. Range(losses) \subseteq {NaN} => BestSoFar = Inf /\ \A d \in 1 .. n : losses[d] = NaN
    BY <1>1 DEF BestSoFar, Range
  <1>4. ASSUME NEW e, FirstBest(e, losses)
        PROVE  /\ e \in 1 .. n /\ losses[e] \in Nat
               /\ \A d \in 1 .. n : losses[d] # NaN => losses[e] <= losses[d] /\ (d < e => losses[e] < losses[d])
               /\ BestSoFar = losses[e] /\ BestSoFar # Inf
    <2>1. e \in 1 .. n /\ losses[e] # NaN
        /\ \A d \in 1 .. n : losses[d] # NaN => losses[e] <= losses[d] /\ (d < e => losses[e] < losses[d])
      BY <1>1, <1>4 DEF FirstBest
    <2>2. ~(Range(losses) \subseteq {NaN})
      BY <1>1, <2>1 DEF Range
    <2>3. Least(losses) = losses[e] /\ losses[e] \in Nat
      BY <1>4, FirstBestIs
    <2>4. BestSoFar = losses[e]
      BY <2>2, <2>3 DEF BestSoFar
    <2> QED BY <1>0, <2>1, <2>3, <2>4
  <1>5. ASSUME Range(losses) \subseteq {NaN}, Improves(loss) PROVE FirstBest(Len(l), l)
    <2>1. loss # NaN /\ loss \in Nat
      BY <1>0, <1>5 DEF Improves
    <2>2. ASSUME NEW d \in DOMAIN l, l[d] # NaN PROVE l[n + 1] <= l[d] /\ ~(d < n + 1)
      <3>1. d = n + 1
        BY <1>1, <1>3, <1>5, <2>2
      <3> QED BY <1>1, <2>1, <3>1
    <2>3. n + 1 \in DOMAIN l
      BY <1>1
    <2> QED BY <1>1, <2>1, <2>2, <2>3 DEF FirstBest
  <1>6. ASSUME NEW e \in DOMAIN losses, FirstBest(e, losses), Improves(loss) PROVE FirstBest(Len(l), l)
    <2>1. loss # NaN /\ loss \in Nat /\ loss < losses[e] /\ losses[e] \in Nat
      BY <1>0, <1>4, <1>6 DEF Improves
    <2>2. ASSUME NEW d \in DOMAIN l, l[d] # NaN PROVE l[n + 1] <= l[d] /\ (d < n + 1 => l[n + 1] < l[d])
      <3>1. CASE d = n + 1
        BY <1>1, <2>1, <3>1
      <3>2. CASE d \in 1 .. n
        <4>1. l[d] = losses[d] /\ losses[d] \in Nat /\ losses[e] <= losses[d]
          BY <1>1, <1>2, <1>4, <1>6, <2>2, <3>2
        <4> QED BY <1>1, <2>1, <4>1
      <3> QED BY <1>1, <3>1, <3>2
    <2>3. n + 1 \in DOMAIN l
      BY <1>1
    <2> QED BY <1>1, <2>1, <2>2, <2>3 DEF FirstBest
  <1>7. ASSUME NEW e, FirstBest(e, losses), ~Improves(loss) PROVE FirstBest(e, l)
    <2>1. loss # NaN => losses[e] <= loss
      BY <1>0, <1>4, <1>7 DEF Improves
    <2>2. e \in DOMAIN l /\ l[e] = losses[e] /\ l[e] # NaN /\ e \in 1 .. n
      BY <1>0, <1>1, <1>4, <1>7
    <2>3. ASSUME NEW d \in DOMAIN l, l[d] # NaN PROVE l[e] <= l[d] /\ (d < e => l[e] < l[d])
      <3>1. CASE d = n + 1
        BY <1>1, <2>1, <2>2, <2>3, <3>1
      <3>2. CASE d \in 1 .. n
        BY <1>1, <1>4, <1>7, <2>2, <2>3, <3>2
      <3> QED BY <1>1, <3>1, <3>2
    <2> QED BY <2>2, <2>3 DEF FirstBest
  <1>8. ASSUME Range(losses) \subseteq {NaN}, ~Improves(loss) PROVE Range(l) \subseteq {NaN}
    <2>1. loss = NaN
      BY <1>3, <1>8 DEF Improves
    <2>2. \A d \in DOMAIN l : l[d] = NaN
      BY <1>1, <1>3, <1>8, <2>1
    <2> QED BY <2>2 DEF Range
  <1> QED BY <1>5, <1>6, <1>7, <1>8 DEF l

-----------------------------------------------------------------------------
(* The invariant is inductive *)

\* Before the first run nothing is written.
LEMMA ModelInitially == ModelInit => FitInv
  <1> SUFFICES ASSUME ModelInit PROVE FitInv
    OBVIOUS
  <1>1. /\ phase = "off" /\ run = 0 /\ labels = <<>> /\ train = <<>> /\ held = {} /\ tok = {} /\ fed = {}
        /\ epoch = 0 /\ losses = <<>> /\ todo = <<>> /\ disk = [f \in Files |-> NoFile]
    BY DEF ModelInit
  <1>2. Configured
    <2>1. job \in Jobs
      BY ModelsAssumption DEF ModelInit
    <2>2. job \in TrainConfig \/ job \in TrainReIDConfig \/ job \in TrainRealReIDConfig
      BY <2>1, ModelsAssumption
    <2> QED BY <1>1, <2>2 DEF Configured, Ended
  <1>3. SplitKept
    BY <1>1 DEF SplitKept
  <1>4. PICK t \in BOOLEAN : t = FALSE
    OBVIOUS
  <1>5. NoFile = [run |-> 0, epoch |-> 0, torn |-> t]
    BY <1>4 DEF NoFile
  <1>6. NoFile \in [run : Nat, epoch : Nat, torn : BOOLEAN] /\ NoFile.run = 0
    BY <1>5
  <1>7. FilesTyped /\ \A f \in Files : disk[f] = NoFile
    BY <1>1, <1>6 DEF FilesTyped
  <1>8. Pending /\ BestKept
    BY <1>1 DEF Pending, BestKept
  <1>9. Written
    <2>1. disk["summary"] = NoFile /\ disk["model"] = NoFile
      BY <1>7 DEF Files
    <2> QED BY <1>1, <1>6, <2>1 DEF Written, SummaryTrailsModel
  <1> QED BY <1>2, <1>3, <1>7, <1>8, <1>9 DEF FitInv

\* A run starts with nothing of its own, in a directory as it was left.
LEMMA StartKeeps == ASSUME FitInv, NEW j \in Jobs, Start(j) PROVE FitInv'
  <1> USE DEF FitInv
  <1>1. /\ job' = j /\ phase' = "prepare" /\ run' = run + 1 /\ labels' \in j.corpora
        /\ train' = <<>> /\ held' = {} /\ tok' = {} /\ fed' = {} /\ epoch' = 0 /\ losses' = <<>> /\ todo' = <<>>
        /\ disk' = disk
    BY DEF Start
  <1>2. Configured'
    <2>1. j \in TrainConfig \/ j \in TrainReIDConfig \/ j \in TrainRealReIDConfig
      BY ModelsAssumption
    <2> QED BY <1>1, <2>1 DEF Configured
  <1>3. j.corpora \subseteq Seq(DOMAIN Kit)
    <2>1. CASE j \in TrainConfig
      BY <2>1 DEF TrainConfig
    <2>2. CASE j \in TrainReIDConfig
      BY <2>2 DEF TrainReIDConfig
    <2>3. CASE j \in TrainRealReIDConfig
      BY <2>3 DEF TrainRealReIDConfig
    <2> QED BY <2>1, <2>2, <2>3, ModelsAssumption
  <1>4. SplitKept'
    BY <1>1, <1>3 DEF SplitKept
  <1>5. FilesTyped'
    <2>1. run \in Nat /\ \A f \in Files : disk[f].run \in Nat /\ disk[f].run <= run
      BY DEF FilesTyped
    <2>2. \A f \in Files : disk[f].run <= run + 1
      BY <2>1
    <2> QED BY <1>1, <2>1, <2>2 DEF FilesTyped
  <1>6. Pending' /\ BestKept'
    BY <1>1 DEF Pending, BestKept
  <1>7. Written'
    BY <1>1 DEF Written, SummaryTrailsModel
  <1> QED BY <1>2, <1>4, <1>5, <1>6, <1>7

\* A run that fails leaves the files as they are.
LEMMA FailKeeps == ASSUME FitInv, Fail, todo = <<>> PROVE FitInv'
  <1> USE DEF FitInv
  <1>1. /\ phase' = "failed"
        /\ UNCHANGED <<job, run, labels, train, held, tok, fed, epoch, left, losses, todo, disk>>
    BY DEF Fail, fitVars, loopVars
  <1>2. Configured' /\ SplitKept' /\ FilesTyped'
    BY <1>1 DEF Configured, SplitKept, FilesTyped, Ended
  <1>3. Pending' /\ BestKept'
    BY <1>1 DEF Pending, BestKept
  <1>4. Written'
    BY <1>1 DEF Written, SummaryTrailsModel
  <1> QED BY <1>2, <1>3, <1>4

\* A split keeps what is held out from the tokenizer and from the training set.
LEMMA SplitIs ==
    ASSUME NEW corpus \in Seq(DOMAIN Kit), NEW H \in SUBSET DOMAIN corpus, Split(H, corpus)
    PROVE  /\ labels' = corpus /\ held' \subseteq DOMAIN labels' /\ tok' \subseteq DOMAIN labels' \ held'
           /\ train' \in Seq(DOMAIN labels' \ held')
  <1> DEFINE rest == DOMAIN corpus \ H
  <1>1. held' = H /\ train' = Ascending(rest) /\ tok' = rest /\ labels' = corpus
    BY DEF Split
  <1>2. rest \in SUBSET DOMAIN corpus
    OBVIOUS
  <1>3. Ascending(rest) \in Seq(rest)
    <2> HIDE DEF rest
    <2>1. rest \in SUBSET Nat /\ IsFiniteSet(rest)
      BY <1>2, PositionsAre
    <2> QED BY <2>1, AscendingIs
  <1> QED BY <1>1, <1>3

\* The three ways to prepare a run.
LEMMA PrepareKeeps ==
    ASSUME FitInv, phase = "prepare", NEW corpus \in Seq(DOMAIN Kit), NEW H \in SUBSET DOMAIN corpus, Split(H, corpus),
           phase' = "build", UNCHANGED <<job, run, fed, epoch, losses, disk>>,
           todo' = IF job.trainer = "embed" THEN <<"tokenizer">> ELSE <<>>
    PROVE  FitInv'
  <1> USE DEF FitInv
  <1>1. Configured' /\ FilesTyped'
    BY DEF Configured, FilesTyped
  <1>2. SplitKept'
    <2>1. /\ labels' = corpus /\ held' \subseteq DOMAIN labels' /\ tok' \subseteq DOMAIN labels' \ held'
          /\ train' \in Seq(DOMAIN labels' \ held')
      BY SplitIs
    <2>2. fed' = {}
      BY DEF SplitKept
    <2> QED BY <2>1, <2>2 DEF SplitKept
  <1>3. Pending' /\ BestKept'
    BY DEF Pending, BestKept
  <1>4. Written'
    <2>1. SummaryTrailsModel'
      BY DEF Written, SummaryTrailsModel
    <2>2. job.trainer = "embed" => todo' # <<>>
      BY QueueOfOne
    <2> QED BY <2>1, <2>2 DEF Written
  <1> QED BY <1>1, <1>2, <1>3, <1>4

LEMMA PrepareEmbedKeeps == ASSUME FitInv, PrepareEmbed PROVE FitInv'
  <1>1. phase = "prepare" /\ job.trainer = "embed" /\ todo = <<>>
    BY DEF PrepareEmbed, Is
  <1>2. CASE Fail
    BY <1>1, <1>2, FailKeeps
  <1>3. CASE ~Fail
    <2>1. PICK H \in ValidationSets(Len(labels), job.frac) : Split(H, labels)
      BY <1>3 DEF PrepareEmbed
    <2>2. phase' = "build" /\ todo' = <<"tokenizer">> /\ UNCHANGED <<job, run, fed, epoch, losses, disk>>
      BY <1>3 DEF PrepareEmbed, loopVars
    <2>3. labels \in Seq(DOMAIN Kit)
      BY DEF FitInv, SplitKept
    <2>4. H \in SUBSET DOMAIN labels
      BY <2>1, <2>3 DEF ValidationSets, kSubset
    <2> QED BY <1>1, <2>1, <2>2, <2>3, <2>4, PrepareKeeps
  <1> QED BY <1>2, <1>3

LEMMA PrepareReidKeeps == ASSUME FitInv, PrepareReid PROVE FitInv'
  <1>1. /\ phase = "prepare" /\ job.trainer = "reid" /\ todo = <<>> /\ phase' = "build"
        /\ UNCHANGED <<job, run, fed, epoch, losses, todo, disk>>
    BY DEF PrepareReid, Is, loopVars
  <1>2. PICK H \in ProbeSets(labels, job.nProbe) : Split(H, labels)
    BY DEF PrepareReid
  <1>3. labels \in Seq(DOMAIN Kit) /\ H \in SUBSET DOMAIN labels
    BY DEF FitInv, SplitKept, ProbeSets
  <1> QED BY <1>1, <1>2, <1>3, PrepareKeeps

LEMMA PrepareRealKeeps == ASSUME FitInv, PrepareReal PROVE FitInv'
  <1>1. phase = "prepare" /\ job.trainer = "real" /\ todo = <<>>
    BY DEF PrepareReal, Is
  <1> DEFINE kept == KeepFrequent(labels, job.minSessions)
  <1>2. labels \in Seq(DOMAIN Kit)
    BY DEF FitInv, SplitKept
  <1>3. kept \in Seq(DOMAIN Kit)
    <2> DEFINE S == {n \in DOMAIN labels : Counts(labels)[labels[n]] >= job.minSessions}
    <2>1. kept = At(labels, S) \/ kept = labels
      BY DEF KeepFrequent
    <2>2. S \in SUBSET DOMAIN labels
      OBVIOUS
    <2> HIDE DEF S, kept
    <2> QED BY <1>2, <2>1, <2>2, AtIs
  <1>4. PICK H \in ProbeSets(kept, job.nProbe) :
            \/ Fail
            \/ Split(H, kept) /\ phase' = "build" /\ UNCHANGED <<job, run, loopVars, todo, disk, crashes>>
    BY DEF PrepareReal
  <1>5. CASE Fail
    BY <1>1, <1>5, FailKeeps
  <1>6. CASE Split(H, kept) /\ phase' = "build" /\ UNCHANGED <<job, run, loopVars, todo, disk, crashes>>
    <2>1. UNCHANGED <<job, run, fed, epoch, losses, todo, disk>>
      BY <1>6 DEF loopVars
    <2>2. H \in SUBSET DOMAIN kept
      BY DEF ProbeSets
    <2> HIDE DEF kept
    <2> QED BY <1>1, <1>3, <1>6, <2>1, <2>2, PrepareKeeps
  <1> QED BY <1>4, <1>5, <1>6

\* The first epoch draws from the training set.
LEMMA BuildKeeps == ASSUME FitInv, Build PROVE FitInv'
  <1>1. phase = "build" /\ todo = <<>>
    BY DEF Build
  <1>2. CASE Fail
    BY <1>1, <1>2, FailKeeps
  <1>3. CASE ~Fail
    <2> USE DEF FitInv
    <2>1. /\ phase' = "train" /\ epoch' = 1 /\ left' = FullLoader
          /\ UNCHANGED <<job, run, labels, train, held, tok, fed, losses, todo, disk>>
      BY <1>3 DEF Build, fitVars
    <2>2. Configured' /\ FilesTyped'
      BY <2>1 DEF Configured, FilesTyped
    <2>3. SplitKept'
      BY <2>1 DEF SplitKept, FullLoader
    <2>4. Pending' /\ Written'
      BY <1>1, <2>1 DEF Pending, Written, Own, SummaryTrailsModel
    <2>5. BestKept'
      <3>1. job.trainer = "embed" => losses = <<>> /\ Len(losses) = 0 /\ Range(losses) = {}
        BY <1>1, QueueOfOne DEF BestKept
      <3>2. losses' \in Seq(Losses \cup {0, NaN})
        BY <2>1 DEF BestKept
      <3>3. job.trainer = "embed" => BestSaved'
        BY <2>1, <3>1 DEF BestSaved
      <3> QED BY <1>1, <2>1, <3>1, <3>2, <3>3 DEF BestKept
    <2> QED BY <2>2, <2>3, <2>4, <2>5
  <1> QED BY <1>2, <1>3

\* An optimizer step feeds sessions that are trained on.
LEMMA OptimizeKeeps ==
    ASSUME FitInv, phase = "train", NEW b, Range(b) \subseteq Range(train), NEW pulled, Optimize(b, pulled),
           job.trainer # "real" => left' \subseteq left
    PROVE  FitInv'
  <1> USE DEF FitInv
  <1>1. /\ fed' = fed \cup Range(b)
        /\ UNCHANGED <<job, phase, run, labels, train, held, tok, epoch, losses, todo, disk>>
    BY DEF Optimize, fitVars
  <1>2. Configured' /\ FilesTyped'
    BY <1>1 DEF Configured, FilesTyped
  <1>3. SplitKept'
    BY <1>1 DEF SplitKept
  <1>4. Pending' /\ Written'
    BY <1>1 DEF Pending, Written, Own, LastFiles, SummaryTrailsModel
  <1>5. BestKept'
    BY <1>1 DEF BestKept, BestSaved
  <1> QED BY <1>2, <1>3, <1>4, <1>5

\* A batch of the shuffled loader.
LEMMA TakeBatchKeeps ==
    ASSUME FitInv, phase = "train", job.trainer # "real", NEW b \in Served(left, Size, DropLast), TakeBatch(b)
    PROVE  FitInv'
  <1>1. left \subseteq Range(train) /\ train \in Seq(DOMAIN labels \ held) /\ labels \in Seq(DOMAIN Kit)
    BY DEF FitInv, SplitKept
  <1>2. left \in SUBSET DOMAIN labels
    <2>1. Range(train) \subseteq DOMAIN labels
      BY <1>1 DEF Range
    <2> QED BY <1>1, <2>1
  <1>3. left \in SUBSET Nat /\ IsFiniteSet(left)
    BY <1>1, <1>2, PositionsAre
  <1>4. Range(b) \subseteq left
    BY <1>3, ServedIs
  <1>5. left' \subseteq left /\ Optimize(b, NTXentPairs(b))
    BY DEF TakeBatch
  <1>6. Range(b) \subseteq Range(train)
    BY <1>1, <1>4
  <1> QED BY <1>5, <1>6, OptimizeKeeps

LEMMA StepEmbedKeeps == ASSUME FitInv, StepEmbed PROVE FitInv'
  <1>1. phase = "train" /\ job.trainer # "real"
    BY DEF StepEmbed, Is
  <1>2. PICK b \in Served(left, Size, DropLast) : TakeBatch(b)
    BY DEF StepEmbed
  <1> QED BY <1>1, <1>2, TakeBatchKeeps

LEMMA StepReidKeeps == ASSUME FitInv, StepReid PROVE FitInv'
  <1>1. phase = "train" /\ job.trainer # "real" /\ todo = <<>>
    BY DEF StepReid, Is
  <1>2. PICK b \in Served(left, Size, DropLast) : Fail \/ TakeBatch(b)
    BY DEF StepReid
  <1>3. CASE Fail
    BY <1>1, <1>3, FailKeeps
  <1>4. CASE TakeBatch(b)
    BY <1>1, <1>4, TakeBatchKeeps
  <1> QED BY <1>2, <1>3, <1>4

\* A batch of the sampler: its positions are positions of the gallery.
LEMMA StepRealKeeps == ASSUME FitInv, StepReal PROVE FitInv'
  <1> DEFINE l == [n \in DOMAIN train |-> labels[train[n]]]
  <1>1. phase = "train" /\ job.trainer = "real"
    BY DEF StepReal, Is
  <1>2. PICK positions \in PKBatches(l, job.p, job.k) :
            Optimize(Rows(positions), CampaignAwarePairs(Rows(positions), labels, Kit, Unknown, None))
    BY DEF StepReal
  <1>3. train \in Seq(DOMAIN labels \ held) /\ labels \in Seq(DOMAIN Kit) /\ job.p \in Nat /\ job.k \in Nat
    BY <1>1, ConfigIs DEF FitInv, SplitKept
  <1>4. l \in Seq(DOMAIN Kit) /\ DOMAIN l = DOMAIN train
    <2>1. PICK m \in Nat : m = Len(train) /\ DOMAIN train = 1 .. m
      BY <1>3
    <2>2. \A n \in 1 .. m : labels[train[n]] \in DOMAIN Kit
      <3>1. \A n \in 1 .. m : train[n] \in DOMAIN labels
        BY <1>3, <2>1
      <3>2. \A d \in DOMAIN labels : labels[d] \in DOMAIN Kit
        BY <1>3
      <3> QED BY <3>1, <3>2
    <2>3. l \in [1 .. m -> DOMAIN Kit]
      BY <2>1, <2>2
    <2> HIDE DEF l
    <2>4. DOMAIN l = 1 .. m
      BY <2>3
    <2> QED BY <2>1, <2>3, <2>4
  <1> HIDE DEF l
  <1>5. positions \in Seq(DOMAIN train)
    <2>1. positions \in Seq(DOMAIN l)
      BY <1>2, <1>3, <1>4, PKBatchesAre
    <2> QED BY <1>4, <2>1
  <1>6. Range(Rows(positions)) \subseteq Range(train)
    <2>1. \A r \in DOMAIN positions : positions[r] \in DOMAIN train
      BY <1>5
    <2> QED BY <2>1 DEF Rows, Range
  <1> QED BY <1>1, <1>2, <1>6, OptimizeKeeps

LEMMA UnknownTokenKeeps == ASSUME FitInv, UnknownToken PROVE FitInv'
  <1>1. Fail /\ todo = <<>>
    BY DEF UnknownToken, FitInv, Pending
  <1> QED BY <1>1, FailKeeps

\* The end of an epoch.
LEMMA EndEpochKeeps == ASSUME FitInv, EndEpoch PROVE FitInv'
  <1> USE DEF FitInv
  <1>1. /\ phase = "train" /\ todo = <<>> /\ phase' = IF job.trainer = "embed" THEN "validate" ELSE "next"
        /\ UNCHANGED <<job, run, labels, train, held, tok, fed, epoch, left, losses, todo, disk>>
    BY DEF EndEpoch, fitVars
  <1>2. Configured' /\ FilesTyped'
    BY <1>1 DEF Configured, FilesTyped
  <1>3. SplitKept' /\ Pending'
    BY <1>1 DEF SplitKept, Pending
  <1>4. Written'
    BY <1>1 DEF Written, Own, SummaryTrailsModel
  <1>5. BestKept'
    BY <1>1 DEF BestKept, BestSaved
  <1> QED BY <1>2, <1>3, <1>4, <1>5

\* A validation: the best checkpoint is written exactly when the loss is the least.
LEMMA ValidateKeeps == ASSUME FitInv, Validate PROVE FitInv'
  <1> USE DEF FitInv
  <1>1. /\ phase = "validate" /\ job.trainer = "embed" /\ phase' = "next"
        /\ UNCHANGED <<job, run, labels, train, held, tok, fed, epoch, left, disk>>
    BY DEF Validate, Is, fitVars
  <1>2. PICK loss \in ValidationLosses :
            losses' = Append(losses, loss) /\ todo' = IF Improves(loss) THEN <<"best">> ELSE <<>>
    BY DEF Validate
  <1>3. loss \in Losses \cup {0, NaN}
    BY DEF ValidationLosses
  <1>4. Configured' /\ FilesTyped' /\ SplitKept'
    BY <1>1 DEF Configured, FilesTyped, SplitKept
  <1>5. Pending' /\ Written'
    BY <1>1, <1>2 DEF Pending, Written, Own, SummaryTrailsModel
  <1>6. losses \in Seq(Losses \cup {0, NaN}) /\ epoch = Len(losses) + 1 /\ BestSaved
    BY <1>1 DEF BestKept
  <1>7. losses' \in Seq(Losses \cup {0, NaN}) /\ epoch' = Len(losses') /\ epoch' >= 1
    <2>1. Len(losses) \in Nat /\ losses' \in Seq(Losses \cup {0, NaN}) /\ Len(losses') = Len(losses) + 1
      BY <1>2, <1>3, <1>6
    <2> QED BY <1>1, <1>6, <2>1
  <1>8. /\ (Range(losses) \subseteq {NaN} \/ \E e \in DOMAIN losses : FirstBest(e, losses)) /\ Improves(loss)
               => FirstBest(Len(losses'), losses')
        /\ \A e : FirstBest(e, losses) /\ ~Improves(loss) => FirstBest(e, losses')
        /\ Range(losses) \subseteq {NaN} /\ ~Improves(loss) => Range(losses') \subseteq {NaN}
    BY <1>2, <1>3, <1>6, NextBest
  <1>9. CASE Improves(loss)
    <2>1. FirstBest(epoch', losses')
      BY <1>6, <1>7, <1>8, <1>9 DEF BestSaved
    <2>2. FirstBest(epoch, losses)'
      BY <2>1 DEF FirstBest
    <2>3. todo' # <<>>
      BY <1>2, <1>9, QueueOfOne
    <2>4. BestKept'
      BY <1>1, <1>7, <2>2, <2>3 DEF BestKept
    <2> QED BY <1>4, <1>5, <2>4
  <1>10. CASE ~Improves(loss)
    <2>1. BestSaved'
      <3>1. CASE Range(losses) \subseteq {NaN}
        <4>1. Range(losses') \subseteq {NaN}
          BY <1>8, <1>10, <3>1
        <4> QED BY <4>1 DEF BestSaved, Range
      <3>2. CASE ~(Range(losses) \subseteq {NaN})
        <4>1. PICK e \in DOMAIN losses : FirstBest(e, losses) /\ disk["best"] = [run |-> run, epoch |-> e, torn |-> FALSE]
          BY <1>6, <3>2 DEF BestSaved
        <4>2. FirstBest(e, losses')
          BY <1>8, <1>10, <4>1
        <4>3. e \in DOMAIN losses' /\ FirstBest(e, losses)'
          BY <4>2 DEF FirstBest
        <4>4. disk'["best"] = [run |-> run', epoch |-> e, torn |-> FALSE]
          BY <1>1, <4>1
        <4> QED BY <4>3, <4>4 DEF BestSaved
      <3> QED BY <3>1, <3>2
    <2>2. todo' = <<>> /\ todo' # <<"best">>
      BY <1>2, <1>10, QueueOfOne
    <2>3. BestKept'
      BY <1>1, <1>7, <2>1, <2>2 DEF BestKept
    <2> QED BY <1>4, <1>5, <2>3
  <1> QED BY <1>9, <1>10

\* The next epoch, or what follows the last one.
LEMMA NextEpochKeeps == ASSUME FitInv, NextEpoch PROVE FitInv'
  <1> USE DEF FitInv
  <1>1. /\ phase = "next" /\ todo = <<>>
        /\ UNCHANGED <<job, run, labels, train, held, tok, fed, losses, disk>>
    BY DEF NextEpoch, fitVars
  <1>2. /\ epoch \in Nat /\ losses \in Seq(Losses \cup {0, NaN})
        /\ job.trainer = "embed" => epoch = Len(losses) /\ epoch >= 1 /\ BestSaved /\ Own("tokenizer")
    BY <1>1 DEF FilesTyped, BestKept, Written
  <1>3. BestSaved => BestSaved'
    BY <1>1 DEF BestSaved
  <1>4. SummaryTrailsModel' /\ (Own("tokenizer") => Own("tokenizer")')
    BY <1>1 DEF Written, SummaryTrailsModel, Own
  <1>5. CASE MoreEpochs
    <2>1. phase' = "train" /\ epoch' = epoch + 1 /\ left' = FullLoader /\ todo' = <<>>
      BY <1>5 DEF NextEpoch
    <2>2. Configured' /\ FilesTyped' /\ SplitKept'
      BY <1>1, <1>2, <2>1 DEF Configured, FilesTyped, SplitKept, FullLoader
    <2>3. Pending' /\ Written'
      BY <1>1, <1>2, <1>4, <2>1 DEF Pending, Written
    <2>4. BestKept'
      BY <1>1, <1>2, <1>3, <2>1 DEF BestKept
    <2> QED BY <2>2, <2>3, <2>4
  <1>6. CASE ~MoreEpochs /\ job.trainer = "embed"
    <2>1. epoch' = epoch /\ phase' = "finish" /\ todo' = <<"last", "metrics", "history">>
      BY <1>6 DEF NextEpoch
    <2>2. Configured' /\ FilesTyped' /\ SplitKept' /\ Pending'
      BY <1>1, <1>6, <2>1 DEF Configured, FilesTyped, SplitKept, Pending
    <2>3. Written'
      <3>1. Range(todo') = {"last", "metrics", "history"}
        BY <2>1, QueueOfThree
      <3>2. LastFiles' = {"last", "metrics", "history"}
        BY <1>1, <1>6 DEF LastFiles
      <3>3. (LastFiles \ Range(todo))' = {}
        BY <3>1, <3>2 DEF Range
      <3> QED BY <1>1, <1>2, <1>4, <1>6, <2>1, <3>3 DEF Written
    <2>4. BestKept'
      BY <1>1, <1>2, <1>3, <1>6, <2>1 DEF BestKept
    <2> QED BY <2>2, <2>3, <2>4
  <1>7. CASE ~MoreEpochs /\ job.trainer # "embed"
    <2>1. epoch' = epoch /\ phase' = "rank" /\ todo' = <<>>
      BY <1>7 DEF NextEpoch
    <2>2. Configured' /\ FilesTyped' /\ SplitKept' /\ Pending'
      BY <1>1, <1>7, <2>1 DEF Configured, FilesTyped, SplitKept, Pending
    <2>3. Written' /\ BestKept'
      BY <1>1, <1>2, <1>4, <1>7, <2>1 DEF Written, BestKept
    <2> QED BY <2>2, <2>3
  <1> QED BY <1>5, <1>6, <1>7

\* The evaluation, probe by probe.
LEMMA RankKeeps == ASSUME FitInv, Rank PROVE FitInv'
  <1> USE DEF FitInv
  <1>1. phase = "rank" /\ UNCHANGED <<job, phase, run, labels, train, held, tok, fed, epoch, losses, todo, disk>>
    BY DEF Rank, fitVars
  <1>2. Configured' /\ FilesTyped' /\ SplitKept' /\ Pending'
    BY <1>1 DEF Configured, FilesTyped, SplitKept, Pending
  <1>3. Written' /\ BestKept'
    BY <1>1 DEF Written, SummaryTrailsModel, BestKept, Configured
  <1> QED BY <1>2, <1>3

LEMMA EvaluatedKeeps == ASSUME FitInv, Evaluated PROVE FitInv'
  <1> USE DEF FitInv
  <1>1. /\ phase = "rank" /\ phase' = "finish" /\ todo' = <<"tokenizer", "model", "summary">>
        /\ UNCHANGED <<job, run, labels, train, held, tok, fed, epoch, left, losses, disk>>
    BY DEF Evaluated, ReidFiles, fitVars
  <1>2. job.trainer # "embed"
    BY <1>1 DEF Configured
  <1>3. Configured' /\ FilesTyped' /\ SplitKept' /\ Pending'
    BY <1>1, <1>2 DEF Configured, FilesTyped, SplitKept, Pending
  <1>4. Written'
    <2>1. (LastFiles \ Range(todo))' = {}
      <3>1. Range(todo') = {"tokenizer", "model", "summary"}
        BY <1>1, QueueOfThree
      <3>2. LastFiles' = {"tokenizer", "model", "summary"}
        BY <1>1, <1>2 DEF LastFiles
      <3> QED BY <3>1, <3>2 DEF Range
    <2>2. SummaryTrailsModel'
      BY <1>1 DEF Written, SummaryTrailsModel
    <2> QED BY <1>1, <1>2, <2>1, <2>2 DEF Written
  <1>5. BestKept'
    BY <1>1, <1>2 DEF BestKept
  <1> QED BY <1>3, <1>4, <1>5

\* What is written next, and what is left then.
LEMMA QueueIs ==
    ASSUME FitInv, todo # <<>>
    PROVE  /\ Head(todo) \in Files /\ phase \in {"build", "next", "finish"}
           /\ phase = "build" => job.trainer = "embed" /\ Head(todo) = "tokenizer" /\ Tail(todo) = <<>>
           /\ phase = "next" => job.trainer = "embed" /\ todo = <<"best">> /\ Head(todo) = "best" /\ Tail(todo) = <<>>
           /\ phase = "finish" =>
                  /\ Range(todo) = {Head(todo)} \cup Range(Tail(todo))
                  /\ job.trainer = "embed" =>
                         /\ Head(todo) \in {"last", "metrics", "history"}
                         /\ Tail(todo) \in {<<"metrics", "history">>, <<"history">>, <<>>}
                  /\ job.trainer # "embed" =>
                         /\ Head(todo) \in {"tokenizer", "model", "summary"}
                         /\ Tail(todo) \in {<<"model", "summary">>, <<"summary">>, <<>>}
                         /\ Head(todo) = "summary" => "model" \notin Range(todo)
  <1> USE DEF FitInv
  <1>1. phase \in {"build", "next", "finish"}
    BY DEF Pending
  <1>2. CASE phase = "build"
    <2>1. todo = <<"tokenizer">> /\ job.trainer = "embed"
      BY <1>2 DEF Pending
    <2>2. Head(todo) = "tokenizer" /\ Tail(todo) = <<>>
      BY <2>1, QueueOfOne
    <2> QED BY <1>2, <2>1, <2>2 DEF Files
  <1>3. CASE phase = "next"
    <2>1. todo = <<"best">> /\ job.trainer = "embed"
      BY <1>3 DEF Pending
    <2>2. Head(todo) = "best" /\ Tail(todo) = <<>>
      BY <2>1, QueueOfOne
    <2> QED BY <1>3, <2>1, <2>2 DEF Files
  <1>4. CASE phase = "finish" /\ job.trainer = "embed"
    <2>1. todo \in {<<"last", "metrics", "history">>, <<"metrics", "history">>, <<"history">>}
      BY <1>4 DEF Pending
    <2>2. CASE todo = <<"last", "metrics", "history">>
      <3>1. Head(todo) = "last" /\ Tail(todo) = <<"metrics", "history">> /\ Range(todo) = {"last", "metrics", "history"}
        BY <2>2, QueueOfThree
      <3>2. Range(Tail(todo)) = {"metrics", "history"}
        BY <3>1, QueueOfTwo
      <3> QED BY <1>4, <3>1, <3>2 DEF Files
    <2>3. CASE todo = <<"metrics", "history">>
      <3>1. Head(todo) = "metrics" /\ Tail(todo) = <<"history">> /\ Range(todo) = {"metrics", "history"}
        BY <2>3, QueueOfTwo
      <3>2. Range(Tail(todo)) = {"history"}
        BY <3>1, QueueOfOne
      <3> QED BY <1>4, <3>1, <3>2 DEF Files
    <2>4. CASE todo = <<"history">>
      <3>1. Head(todo) = "history" /\ Tail(todo) = <<>> /\ Range(todo) = {"history"} /\ Range(<<>>) = {}
        BY <2>4, QueueOfOne
      <3> QED BY <1>4, <3>1 DEF Files
    <2> QED BY <2>1, <2>2, <2>3, <2>4
  <1>5. CASE phase = "finish" /\ job.trainer # "embed"
    <2>1. todo \in {<<"tokenizer", "model", "summary">>, <<"model", "summary">>, <<"summary">>}
      BY <1>5 DEF Pending
    <2>2. CASE todo = <<"tokenizer", "model", "summary">>
      <3>1. Head(todo) = "tokenizer" /\ Tail(todo) = <<"model", "summary">> /\ Range(todo) = {"tokenizer", "model", "summary"}
        BY <2>2, QueueOfThree
      <3>2. Range(Tail(todo)) = {"model", "summary"}
        BY <3>1, QueueOfTwo
      <3> QED BY <1>5, <3>1, <3>2 DEF Files
    <2>3. CASE todo = <<"model", "summary">>
      <3>1. Head(todo) = "model" /\ Tail(todo) = <<"summary">> /\ Range(todo) = {"model", "summary"}
        BY <2>3, QueueOfTwo
      <3>2. Range(Tail(todo)) = {"summary"}
        BY <3>1, QueueOfOne
      <3> QED BY <1>5, <3>1, <3>2 DEF Files
    <2>4. CASE todo = <<"summary">>
      <3>1. Head(todo) = "summary" /\ Tail(todo) = <<>> /\ Range(todo) = {"summary"} /\ Range(<<>>) = {}
        BY <2>4, QueueOfOne
      <3> QED BY <1>5, <3>1 DEF Files
    <2> QED BY <2>1, <2>2, <2>3, <2>4
  <1> QED BY <1>1, <1>2, <1>3, <1>4, <1>5

\* A file is written, and is this run's from then on.
LEMMA WriteKeeps == ASSUME FitInv, Write PROVE FitInv'
  <1> USE DEF FitInv
  <1>1. /\ todo # <<>> /\ todo' = Tail(todo)
        /\ UNCHANGED <<job, phase, run, labels, train, held, tok, fed, epoch, left, losses>>
    BY DEF Write, fitVars, loopVars
  <1>h. PICK h \in Files : h = Head(todo)
    BY <1>1, QueueIs
  <1>2. PICK t \in BOOLEAN : t = FALSE
    OBVIOUS
  <1>3. disk' = [disk EXCEPT ![h] = [run |-> run, epoch |-> epoch, torn |-> t]]
    BY <1>2, <1>h DEF Write
  <1>4. h \in Files /\ phase \in {"build", "next", "finish"}
    BY <1>1, <1>h, QueueIs
  <1>5. /\ FilesTyped' /\ disk'[h] = [run |-> run, epoch |-> epoch, torn |-> t]
        /\ disk'[h].run = run /\ ~disk'[h].torn /\ \A f \in Files \ {h} : disk'[f] = disk[f]
    <2> QED BY <1>1, <1>2, <1>3, <1>4, WriteOne
  <1>6. Configured' /\ SplitKept'
    BY <1>1 DEF Configured, SplitKept
  <1>7. "best" \in Files /\ "tokenizer" \in Files /\ "model" \in Files /\ "best" # "tokenizer"
    BY DEF Files
  <1>8. Own(h)' /\ \A f \in Files \ {h} : Own(f) => Own(f)'
    BY <1>1, <1>5 DEF Own
  <1>9. SummaryTrailsModel'
    <2>1. h = "summary" => disk["model"].run = run
      <3> SUFFICES ASSUME h = "summary" PROVE disk["model"].run = run
        OBVIOUS
      <3>1. phase = "finish" /\ job.trainer # "embed" /\ "model" \notin Range(todo)
        BY <1>1, <1>h, QueueIs
      <3>2. "model" \in LastFiles \ Range(todo)
        BY <3>1 DEF LastFiles
      <3> QED BY <3>1, <3>2 DEF Written, Own
    <2>2. SummaryTrailsModel
      BY DEF Written
    <2> QED BY <1>1, <1>3, <1>4, <2>1, <2>2, SummaryTrails
  <1>10. CASE phase = "build"
    <2>1. job.trainer = "embed" /\ h = "tokenizer" /\ todo' = <<>>
      BY <1>1, <1>10, <1>h, QueueIs
    <2>2. Pending' /\ Written'
      BY <1>1, <1>8, <1>9, <1>10, <2>1 DEF Pending, Written
    <2>3. BestKept'
      BY <1>1, <1>10 DEF BestKept
    <2> QED BY <1>5, <1>6, <2>2, <2>3
  <1>11. CASE phase = "next"
    <2>1. job.trainer = "embed" /\ h = "best" /\ todo' = <<>> /\ todo = <<"best">> /\ todo' # <<"best">>
      BY <1>1, <1>11, <1>h, QueueIs, QueueOfOne
    <2>2. Own("tokenizer")'
      BY <1>7, <1>8, <1>11, <2>1 DEF Written
    <2>3. Pending' /\ Written'
      BY <1>1, <1>9, <1>11, <2>1, <2>2 DEF Pending, Written
    <2>4. BestSaved'
      <3>1. FirstBest(epoch, losses)
        BY <1>11, <2>1 DEF BestKept
      <3>2. epoch \in DOMAIN losses' /\ FirstBest(epoch, losses')
        BY <1>1, <3>1 DEF FirstBest
      <3>3. disk'["best"] = [run |-> run', epoch |-> epoch, torn |-> FALSE]
        BY <1>1, <1>2, <1>5, <2>1
      <3> QED BY <3>2, <3>3 DEF BestSaved, FirstBest
    <2>5. BestKept'
      BY <1>1, <1>11, <2>1, <2>4 DEF BestKept
    <2> QED BY <1>5, <1>6, <2>3, <2>5
  <1>12. CASE phase = "finish"
    <2>1. Range(todo) = {h} \cup Range(todo')
      BY <1>1, <1>12, <1>h, QueueIs
    <2>2. ASSUME NEW f \in LastFiles' \ Range(todo') PROVE Own(f)'
      <3>1. f \in LastFiles /\ f \in Files
        BY <1>1 DEF LastFiles, Files
      <3>2. CASE f = h
        BY <1>8, <3>2
      <3>3. CASE f # h
        <4>1. f \in LastFiles \ Range(todo)
          BY <2>1, <2>2, <3>1, <3>3
        <4>2. Own(f)
          BY <1>12, <4>1 DEF Written
        <4> QED BY <1>8, <3>1, <3>3, <4>2
      <3> QED BY <3>2, <3>3
    <2>3. CASE job.trainer = "embed"
      <3>1. h \in {"last", "metrics", "history"} /\ todo' \in {<<"metrics", "history">>, <<"history">>, <<>>}
        BY <1>1, <1>12, <2>3, <1>h, QueueIs
      <3>2. Own("tokenizer")' /\ disk'["best"] = disk["best"]
        BY <1>5, <1>7, <1>8, <1>12, <2>3, <3>1 DEF Written
      <3>3. Pending'
        BY <1>1, <1>12, <2>3, <3>1 DEF Pending
      <3>4. Written'
        <4>1. \A f \in (LastFiles \ Range(todo))' : Own(f)'
          BY <2>2 DEF Range
        <4> QED BY <1>1, <1>9, <1>12, <3>2, <4>1 DEF Written
      <3>5. BestKept'
        BY <1>1, <1>12, <2>3, <3>2 DEF BestKept, BestSaved
      <3> QED BY <1>5, <1>6, <3>3, <3>4, <3>5
    <2>4. CASE job.trainer # "embed"
      <3>1. todo' \in {<<"model", "summary">>, <<"summary">>, <<>>}
        BY <1>1, <1>12, <2>4, QueueIs
      <3>2. Pending'
        BY <1>1, <1>12, <2>4, <3>1 DEF Pending
      <3>3. Written'
        <4>1. \A f \in (LastFiles \ Range(todo))' : Own(f)'
          BY <2>2 DEF Range
        <4> QED BY <1>1, <1>9, <1>12, <2>4, <4>1 DEF Written
      <3>4. BestKept'
        BY <1>1, <2>4 DEF BestKept
      <3> QED BY <1>5, <1>6, <3>2, <3>3, <3>4
    <2> QED BY <2>3, <2>4
  <1> QED BY <1>4, <1>10, <1>11, <1>12

LEMMA FinishKeeps == ASSUME FitInv, Finish PROVE FitInv'
  <1> USE DEF FitInv
  <1>1. /\ phase = "finish" /\ todo = <<>> /\ phase' = "done"
        /\ UNCHANGED <<job, run, labels, train, held, tok, fed, epoch, left, losses, todo, disk>>
    BY DEF Finish, fitVars, loopVars
  <1>2. Configured' /\ FilesTyped' /\ SplitKept' /\ Pending'
    BY <1>1 DEF Configured, Ended, FilesTyped, SplitKept, Pending
  <1>3. Written'
    BY <1>1 DEF Written, Own, LastFiles, SummaryTrailsModel
  <1>4. BestKept'
    BY <1>1 DEF BestKept, BestSaved
  <1> QED BY <1>2, <1>3, <1>4

\* The next variant of the ablation is a run of its own, with the split of the last one.
LEMMA NextVariantKeeps == ASSUME FitInv, NextVariant PROVE FitInv'
  <1> USE DEF FitInv
  <1>1. /\ phase = "done" /\ job.trainer = "reid" /\ job.variants > 1 /\ job' = [job EXCEPT !.variants = @ - 1]
        /\ run' = run + 1 /\ phase' = "build" /\ fed' = {} /\ epoch' = 0 /\ losses' = <<>>
        /\ UNCHANGED <<labels, train, held, tok, todo, disk>>
    BY DEF NextVariant, fitVars
  <1>2. job' \in TrainReIDConfig /\ job'.trainer = "reid"
    <2>1. job \in TrainReIDConfig /\ job.variants \in Nat
      BY <1>1, ConfigIs
    <2>2. job.variants - 1 \in Nat \ {0}
      BY <1>1, <2>1
    <2> QED BY <1>1, <2>1, <2>2 DEF TrainReIDConfig
  <1>3. todo = <<>>
    BY <1>1 DEF Pending
  <1>4. FilesTyped'
    <2>1. run \in Nat /\ \A f \in Files : disk[f].run \in Nat /\ disk[f].run <= run
      BY DEF FilesTyped
    <2>2. \A f \in Files : disk[f].run <= run + 1
      BY <2>1
    <2> QED BY <1>1, <2>1, <2>2 DEF FilesTyped
  <1>5. Configured' /\ SplitKept' /\ Pending'
    BY <1>1, <1>2, <1>3 DEF Configured, SplitKept, Pending
  <1>6. Written' /\ BestKept'
    BY <1>1, <1>2, <1>3 DEF Written, SummaryTrailsModel, BestKept
  <1> QED BY <1>4, <1>5, <1>6

\* A run that dies leaves at most one file cut short, and a torn summary vouches for nothing.
LEMMA CrashKeeps == ASSUME FitInv, Crash PROVE FitInv'
  <1> USE DEF FitInv
  <1>1. phase' = "off" /\ todo' = <<>> /\ UNCHANGED <<job, run, labels, train, held, tok, fed, epoch, left, losses>>
    BY DEF Crash, fitVars, loopVars
  <1>2. Configured' /\ SplitKept' /\ Pending' /\ BestKept'
    BY <1>1 DEF Configured, Ended, SplitKept, Pending, BestKept
  <1>3. CASE UNCHANGED disk
    <2>1. FilesTyped' /\ Written'
      BY <1>1, <1>3 DEF FilesTyped, Written, SummaryTrailsModel
    <2> QED BY <1>2, <2>1
  <1>4. CASE ~UNCHANGED disk
    <2> DEFINE h == Head(todo)
    <2>1. PICK t \in BOOLEAN : t = TRUE
      OBVIOUS
    <2>2. todo # <<>> /\ disk' = [disk EXCEPT ![h] = [run |-> run, epoch |-> epoch, torn |-> t]]
      BY <1>4, <2>1 DEF Crash
    <2>3. h \in Files
      BY <2>2, QueueIs
    <2> HIDE DEF h
    <2>4. FilesTyped'
      BY <1>1, <2>2, <2>3, WriteOne
    <2>5. SummaryTrailsModel'
      BY <1>1, <2>1, <2>2, <2>3, SummaryTrails DEF Written
    <2>6. Written'
      BY <1>1, <2>5 DEF Written
    <2> QED BY <1>2, <2>4, <2>6
  <1> QED BY <1>3, <1>4

\* Every step of every trainer keeps the invariant.
LEMMA FittingKeeps == FitInv /\ [ModelNext]_modelVars => FitInv'
  <1> SUFFICES ASSUME FitInv, [ModelNext]_modelVars PROVE FitInv'
    OBVIOUS
  <1>1. CASE StartEmbed \/ StartReid \/ StartReal
    BY <1>1, StartKeeps DEF StartEmbed, StartReid, StartReal
  <1>2. CASE PrepareEmbed
    BY <1>2, PrepareEmbedKeeps
  <1>3. CASE PrepareReid
    BY <1>3, PrepareReidKeeps
  <1>4. CASE PrepareReal
    BY <1>4, PrepareRealKeeps
  <1>5. CASE Build
    BY <1>5, BuildKeeps
  <1>6. CASE StepEmbed
    BY <1>6, StepEmbedKeeps
  <1>7. CASE StepReid
    BY <1>7, StepReidKeeps
  <1>8. CASE StepReal
    BY <1>8, StepRealKeeps
  <1>9. CASE UnknownToken
    BY <1>9, UnknownTokenKeeps
  <1>10. CASE EndEpoch
    BY <1>10, EndEpochKeeps
  <1>11. CASE Validate
    BY <1>11, ValidateKeeps
  <1>12. CASE NextEpoch
    BY <1>12, NextEpochKeeps
  <1>13. CASE Rank
    BY <1>13, RankKeeps
  <1>14. CASE Evaluated
    BY <1>14, EvaluatedKeeps
  <1>15. CASE Write
    BY <1>15, WriteKeeps
  <1>16. CASE Finish
    BY <1>16, FinishKeeps
  <1>17. CASE NextVariant
    BY <1>17, NextVariantKeeps
  <1>18. CASE Crash
    BY <1>18, CrashKeeps
  <1>19. CASE UNCHANGED modelVars
    <2>1. UNCHANGED <<job, phase, run, labels, train, held, tok, fed, epoch, left, losses, todo, disk>>
      BY <1>19 DEF modelVars, fitVars, loopVars
    <2> USE DEF FitInv
    <2>2. Configured' /\ FilesTyped' /\ SplitKept' /\ Pending'
      BY <2>1 DEF Configured, FilesTyped, SplitKept, Pending
    <2>3. Written'
      BY <2>1 DEF Written, Own, LastFiles, SummaryTrailsModel
    <2>4. BestKept'
      BY <2>1 DEF BestKept, BestSaved
    <2> QED BY <2>2, <2>3, <2>4
  <1> QED BY <1>1, <1>2, <1>3, <1>4, <1>5, <1>6, <1>7, <1>8, <1>9, <1>10, <1>11, <1>12, <1>13, <1>14, <1>15,
             <1>16, <1>17, <1>18, <1>19 DEF ModelNext, Trainer

LEMMA FitInvariance == ModelSpec => []FitInv
  BY ModelInitially, FittingKeeps, PTL DEF ModelSpec

-----------------------------------------------------------------------------
(* What is held out, and the output directory *)

\* For every corpus, split, batch size and number of identities of a batch: no session that
\* is held out for validation or as a probe reaches the tokenizer or the optimizer
\* (_split_sessions, reconnection_split, PKBatchSampler and the three training loops).
THEOREM NothingLeaks == ModelSpec => []NoLeak
  <1>1. FitInv => NoLeak
    <2> SUFFICES ASSUME FitInv PROVE NoLeak
      OBVIOUS
    <2>1. tok \subseteq DOMAIN labels \ held /\ train \in Seq(DOMAIN labels \ held) /\ fed \subseteq Range(train)
      BY DEF FitInv, SplitKept
    <2>2. Range(train) \subseteq DOMAIN labels \ held
      BY <2>1 DEF Range
    <2> QED BY <2>1, <2>2 DEF NoLeak
  <1> QED BY <1>1, FitInvariance, PTL

\* For every sequence of runs into one directory, whatever dies in between: best.pt is the
\* checkpoint of the first epoch with the least validation loss, a run that finishes leaves
\* files of its own, and a whole summary is never newer than its model (train.py of the
\* embedder and of the re-identification, real_train.py).
THEOREM FilesStayOwn == ModelSpec => []FilesAreOwn
  <1>1. FitInv => FilesAreOwn
    <2> SUFFICES ASSUME FitInv PROVE FilesAreOwn
      OBVIOUS
    <2> USE DEF FitInv
    <2>1. BestIsBest
      <3> SUFFICES ASSUME phase \in {"next", "finish", "done"}, job.trainer = "embed", todo # <<"best">>,
                          Range(losses) # {NaN}
                   PROVE  disk["best"] = [run |-> run, torn |-> FALSE,
                                          epoch |-> Min({e \in DOMAIN losses : losses[e] = Least(losses)})]
        BY DEF BestIsBest
      <3>1. losses \in Seq(Losses \cup {0, NaN}) /\ epoch = Len(losses) /\ epoch >= 1 /\ BestSaved
        BY DEF BestKept, Pending
      <3>2. ~(Range(losses) \subseteq {NaN})
        <4>1. 1 \in DOMAIN losses
          BY <3>1
        <4>2. Range(losses) # {}
          BY <4>1 DEF Range
        <4> QED BY <4>2
      <3>3. PICK e \in DOMAIN losses : FirstBest(e, losses) /\ disk["best"] = [run |-> run, epoch |-> e, torn |-> FALSE]
        BY <3>1, <3>2 DEF BestSaved
      <3>4. Min({d \in DOMAIN losses : losses[d] = Least(losses)}) = e
        BY <3>1, <3>3, FirstBestIs
      <3> QED BY <3>3, <3>4
    <2>2. WholeWhenDone
      <3> SUFFICES ASSUME phase = "done",
                          NEW f \in (IF job.trainer = "embed" THEN {"tokenizer", "best", "last", "metrics", "history"}
                                     ELSE {"tokenizer", "model", "summary"})
                   PROVE  \/ f = "best" /\ Range(losses) = {NaN}
                          \/ disk[f].run = run /\ ~disk[f].torn
        BY DEF WholeWhenDone
      <3>1. todo = <<>> /\ Range(todo) = {}
        BY QueueOfOne DEF Pending
      <3>2. CASE f \in LastFiles
        BY <3>1, <3>2 DEF Written, Own
      <3>3. CASE f = "tokenizer" /\ job.trainer = "embed"
        BY <3>3 DEF Written, Own
      <3>4. CASE f = "best" /\ job.trainer = "embed"
        <4>1. losses \in Seq(Losses \cup {0, NaN}) /\ epoch = Len(losses) /\ epoch >= 1 /\ BestSaved
          BY <3>4 DEF BestKept
        <4>2. Range(losses) # {}
          <5>1. 1 \in DOMAIN losses
            BY <4>1
          <5> QED BY <5>1 DEF Range
        <4>3. CASE Range(losses) \subseteq {NaN}
          <5>1. Range(losses) = {NaN}
            BY <4>2, <4>3, Zenon
          <5> QED BY <3>4, <5>1
        <4>4. CASE ~(Range(losses) \subseteq {NaN})
          <5>1. PICK e \in DOMAIN losses : disk["best"] = [run |-> run, epoch |-> e, torn |-> FALSE]
            BY <4>1, <4>4 DEF BestSaved
          <5> QED BY <3>4, <5>1
        <4> QED BY <4>3, <4>4
      <3> QED BY <3>2, <3>3, <3>4 DEF LastFiles
    <2>3. SummaryTrailsModel
      BY DEF Written
    <2> QED BY <2>1, <2>2, <2>3 DEF FilesAreOwn
  <1> QED BY <1>1, FitInvariance, PTL

-----------------------------------------------------------------------------
(* Counting what a loader serves *)

\* The smaller and the larger of two numbers.
LEMMA OfTwo ==
    ASSUME NEW m \in Int, NEW n \in Int
    PROVE  /\ Min({m, n}) = (IF m <= n THEN m ELSE n)
           /\ Max({m, n}) = (IF m <= n THEN n ELSE m)
  <1>1. ASSUME NEW x \in {m, n}, \A y \in {m, n} : x <= y PROVE Min({m, n}) = x
    <2>1. \A y \in {m, n} : (\A z \in {m, n} : y <= z) => y = x
      BY <1>1
    <2> QED BY <1>1, <2>1 DEF Min
  <1>2. ASSUME NEW x \in {m, n}, \A y \in {m, n} : x >= y PROVE Max({m, n}) = x
    <2>1. \A y \in {m, n} : (\A z \in {m, n} : y >= z) => y = x
      BY <1>2
    <2> QED BY <1>2, <2>1 DEF Max
  <1> QED BY <1>1, <1>2

\* A finite set has a subset of every size up to its own.
LEMMA SubsetOfSize ==
    ASSUME NEW D, IsFiniteSet(D), NEW k \in Nat, k <= Cardinality(D)
    PROVE  kSubset(k, D) # {}
  <1> DEFINE N == {i \in Nat : i <= Cardinality(D) => \E S \in SUBSET D : Cardinality(S) = i}
  <1>1. 0 \in N
    <2>1. {} \in SUBSET D /\ Cardinality({}) = 0
      BY FS_EmptySet
    <2> QED BY <2>1
  <1>2. ASSUME NEW i \in Nat, i \in N PROVE i + 1 \in N
    <2> SUFFICES ASSUME i + 1 <= Cardinality(D) PROVE \E S \in SUBSET D : Cardinality(S) = i + 1
      OBVIOUS
    <2>1. Cardinality(D) \in Nat
      BY FS_CardinalityType
    <2>2. PICK S \in SUBSET D : Cardinality(S) = i
      BY <1>2, <2>1
    <2>3. IsFiniteSet(S) /\ S # D
      BY <2>1, <2>2, FS_Subset
    <2>4. PICK x \in D : x \notin S
      BY <2>3
    <2>5. Cardinality(S \cup {x}) = i + 1
      BY <2>2, <2>3, <2>4, FS_AddElement
    <2> QED BY <2>4, <2>5
  <1>3. Nat \subseteq N
    <2> HIDE DEF N
    <2> QED BY <1>1, <1>2, StepByStep
  <1>4. k \in N
    <2> HIDE DEF N
    <2> QED BY <1>3
  <1>5. PICK S \in SUBSET D : Cardinality(S) = k
    BY <1>4
  <1> QED BY <1>5 DEF kSubset

\* A batch of the loader: how many sessions it has, and how many it leaves.
LEMMA ServedCounts ==
    ASSUME NEW D \in SUBSET Nat, IsFiniteSet(D), NEW size \in Nat \ {0}, NEW dropLast \in BOOLEAN,
           NEW b \in Served(D, size, dropLast)
    PROVE  /\ b \in Seq(D) /\ Len(b) >= 1
           /\ IF size <= Cardinality(D) THEN Len(b) = size ELSE ~dropLast /\ Len(b) = Cardinality(D)
           /\ IsFiniteSet(D \ Range(b)) /\ Cardinality(D \ Range(b)) = Cardinality(D) - Len(b)
  <1>1. D # {} /\ ~(dropLast /\ Cardinality(D) < size)
    BY DEF Served
  <1>2. PICK S \in SUBSET D : b = Ascending(S) /\ Cardinality(S) = Min({size, Cardinality(D)})
    BY DEF Served, kSubset
  <1>3. Cardinality(D) \in Nat /\ Cardinality(D) # 0
    BY <1>1, FS_CardinalityType, FS_EmptySet
  <1>4. Cardinality(S) = IF size <= Cardinality(D) THEN size ELSE Cardinality(D)
    BY <1>2, <1>3, OfTwo
  <1>5. IsFiniteSet(S) /\ S \in SUBSET Nat
    BY FS_Subset
  <1>6. b \in Seq(S) /\ Len(b) = Cardinality(S) /\ \A x \in S : \E n \in DOMAIN b : b[n] = x
    BY <1>2, <1>5, AscendingOrders DEF Orders
  <1>7. Range(b) = S
    BY <1>6 DEF Range
  <1>8. b \in Seq(D)
    BY <1>6, SeqOfMore
  <1>9. IsFiniteSet(D \ S) /\ Cardinality(D \ S) = Cardinality(D) - Cardinality(D \cap S)
    BY <1>5, FS_Difference
  <1>10. D \cap S = S
    OBVIOUS
  <1> QED BY <1>1, <1>3, <1>4, <1>6, <1>7, <1>8, <1>9, <1>10

\* A loader that has no batch left.
LEMMA ServedAll ==
    ASSUME NEW D, IsFiniteSet(D), NEW size \in Nat \ {0}, NEW dropLast \in BOOLEAN,
           Served(D, size, dropLast) = {}
    PROVE  Cardinality(D) < size /\ (~dropLast => D = {} /\ Cardinality(D) = 0)
  <1>1. Cardinality(D) \in Nat
    BY FS_CardinalityType
  <1>2. CASE D = {}
    <2>1. Cardinality(D) = 0
      BY <1>2, FS_EmptySet
    <2> QED BY <1>2, <2>1
  <1>3. CASE dropLast /\ Cardinality(D) < size
    BY <1>3
  <1>4. CASE ~(D = {} \/ (dropLast /\ Cardinality(D) < size))
    <2> DEFINE k == Min({size, Cardinality(D)})
    <2>1. k \in Nat /\ k <= Cardinality(D)
      BY <1>1, OfTwo
    <2> HIDE DEF k
    <2>2. PICK S : S \in kSubset(k, D)
      BY <2>1, SubsetOfSize
    <2>3. Ascending(S) \in Served(D, size, dropLast)
      BY <1>4, <2>2 DEF Served, k
    <2> QED BY <2>3
  <1> QED BY <1>2, <1>3, <1>4

\* After t batches that leave nothing to serve, the epoch had t batches.
LEMMA LoaderLenIs ==
    ASSUME NEW n \in Nat, NEW size \in Nat \ {0}, NEW t \in Nat, NEW c \in Nat, NEW dropLast \in BOOLEAN, c < size,
           ~dropLast => c = 0,
           (t * size + c = n) \/ (~dropLast /\ (t - 1) * size < n /\ n < t * size)
    PROVE  LoaderLen(n, size, dropLast) = t
  <1>1. CASE dropLast
    <2>1. t * size <= n /\ n < (t + 1) * size
      BY <1>1, SMTT(20)
    <2>2. n \div size = t
      BY <2>1, SMTT(20)
    <2> QED BY <1>1, <2>2 DEF LoaderLen
  <1>2. CASE ~dropLast
    <2>1. t * size <= n + size - 1 /\ n + size - 1 < (t + 1) * size
      BY <1>2, SMTT(20)
    <2>2. (n + size - 1) \div size = t
      <3>1. n + size - 1 \in Nat
        OBVIOUS
      <3> QED BY <2>1, <3>1, SMTT(20)
    <2> QED BY <1>2, <2>2 DEF LoaderLen
  <1> QED BY <1>1, <1>2

-----------------------------------------------------------------------------
(* The rows of a P x K batch *)

\* Blocks of one length, one after the other.
InBlocks(s, blocks, k) ==
    /\ Len(s) = Len(blocks) * k
    /\ \A j \in 1 .. Len(blocks) : \A m \in 1 .. k : s[(j - 1) * k + m] = blocks[j][m]

\* Where a row is in its block.
LEMMA RowInBlock ==
    ASSUME NEW p \in Nat, NEW k \in Nat \ {0}, NEW r \in 1 .. p * k
    PROVE  \E j \in 1 .. p, m \in 1 .. k : r = (j - 1) * k + m
  <1> DEFINE q == (r - 1) \div k
             d == (r - 1) - q * k
  <1>0. p * k \in Nat
    BY SMTT(20)
  <1>1. r - 1 \in Nat /\ r \in Nat /\ r <= p * k
    BY <1>0
  <1>2. q \in Nat /\ d \in 0 .. k - 1 /\ r - 1 = q * k + d
    <2>1. ASSUME NEW x \in Nat
          PROVE  (x \div k) \in Nat /\ (x \div k) * k \in Nat /\ (x \div k) * k <= x /\ x < (x \div k) * k + k
      BY SMTT(20)
    <2>2. q \in Nat /\ q * k \in Nat /\ q * k <= r - 1 /\ r - 1 < q * k + k
      BY <1>1, <2>1
    <2> QED BY <1>1, <2>2
  <1> HIDE DEF q, d
  <1>3. q < p
    <2> SUFFICES ASSUME p <= q PROVE FALSE
      BY <1>2
    <2>1. p * k <= q * k
      BY <1>2, SMTT(20)
    <2>2. q * k \in Nat
      BY <1>2, SMTT(20)
    <2> QED BY <1>0, <1>1, <1>2, <2>1, <2>2
  <1>4. q + 1 \in 1 .. p /\ d + 1 \in 1 .. k
    BY <1>2, <1>3
  <1>5. r = ((q + 1) - 1) * k + (d + 1)
    <2>1. (q + 1) - 1 = q
      BY <1>2
    <2>2. q * k \in Nat
      BY <1>2, SMTT(20)
    <2> QED BY <1>1, <1>2, <2>1, <2>2
  <1> QED BY <1>4, <1>5

\* Joining two sequences.
Joins(u, s, t) ==
    /\ Len(u) = Len(s) + Len(t)
    /\ \A m \in 1 .. Len(t) : u[Len(s) + m] = t[m]
    /\ \A m \in 1 .. Len(s) : u[m] = s[m]

LEMMA Joined ==
    ASSUME NEW R, NEW s \in Seq(R), NEW t \in Seq(R)
    PROVE  s \o t \in Seq(R) /\ Joins(s \o t, s, t)
  BY DEF Joins

\* Flattening blocks of one length.
LEMMA FlattenBlocks ==
    ASSUME NEW R, NEW blocks \in Seq(Seq(R)), NEW k \in Nat, Len(blocks) # 0,
           \A j \in 1 .. Len(blocks) : Len(blocks[j]) = k
    PROVE  InBlocks(FlattenSeq(blocks), blocks, k)
  <1> DEFINE f == CHOOSE g : Concatenates(g, blocks)
             n == Len(blocks)
             Block(i) == /\ f[i] \in Seq(R) /\ Len(f[i]) = i * k
                         /\ \A j \in 1 .. i : \A m \in 1 .. k : f[i][(j - 1) * k + m] = blocks[j][m]
             N == {h \in Nat : \A i \in 1 .. n : i <= h => Block(i)}
  <1>1. FlattenSeq(blocks) = f[n]
    BY DEF FlattenSeq, Concatenates
  <1>2. Concatenates(f, blocks)
    BY ConcatenatesExists
  <1>3. n \in Nat /\ n \in 1 .. n /\ \A i \in 1 .. n : blocks[i] \in Seq(R) /\ Len(blocks[i]) = k
    OBVIOUS
  <1>4. \A i \in 1 .. n : f[i] = IF i = 1 THEN blocks[i] ELSE f[i - 1] \o blocks[i]
    <2> HIDE DEF f
    <2> QED BY <1>2 DEF Concatenates
  <1> HIDE DEF f, n
  <1>5. 0 \in N
    BY <1>3
  <1>6. ASSUME NEW h \in Nat, h \in N PROVE h + 1 \in N
    <2> SUFFICES ASSUME NEW i \in 1 .. n, i <= h + 1 PROVE Block(i)
      OBVIOUS
    <2>1. CASE i = 1
      <3>1. f[i] = blocks[i] /\ blocks[i] \in Seq(R) /\ Len(blocks[i]) = k /\ i * k = k
        BY <1>3, <1>4, <2>1
      <3>2. ASSUME NEW j \in 1 .. i, NEW m \in 1 .. k PROVE f[i][(j - 1) * k + m] = blocks[j][m]
        <4>1. j = i /\ (j - 1) * k + m = m
          BY <2>1
        <4> QED BY <3>1, <4>1
      <3> QED BY <3>1, <3>2
    <2>2. CASE i # 1
      <3> DEFINE h1 == i - 1
      <3>1. h1 \in 1 .. n /\ h1 <= h /\ h1 \in Nat /\ i = h1 + 1 /\ i \in Nat
        BY <1>3, <2>2
      <3> HIDE DEF h1
      <3>2. Block(h1)
        BY <1>6, <3>1
      <3>b. /\ f[h1] \in Seq(R) /\ Len(f[h1]) = h1 * k
            /\ \A j \in 1 .. h1 : \A m \in 1 .. k : f[h1][(j - 1) * k + m] = blocks[j][m]
        BY <3>2
      <3> HIDE DEF N, Block
      <3> DEFINE s == f[h1]
                 t == blocks[i]
      <3>c. PICK c \in Nat : c = h1 * k
        <4>1. h1 * k \in Nat
          BY <3>1, SMTT(20)
        <4> QED BY <4>1
      <3>3. f[i] = s \o t /\ s \in Seq(R) /\ t \in Seq(R) /\ Len(s) = c /\ Len(t) = k
        BY <1>3, <1>4, <2>2, <3>b, <3>c DEF h1
      <3>4. /\ f[i] \in Seq(R) /\ Len(f[i]) = c + k
            /\ \A m \in 1 .. k : f[i][c + m] = t[m]
            /\ \A m \in 1 .. c : f[i][m] = s[m]
        <4> HIDE DEF s, t
        <4>1. f[i] \in Seq(R) /\ Joins(f[i], s, t)
          BY <3>3, Joined
        <4> QED BY <3>3, <4>1 DEF Joins
      <3>5. c + k = i * k
        BY <3>1, <3>c, SMTT(20)
      <3>6. ASSUME NEW j \in 1 .. i, NEW m \in 1 .. k PROVE f[i][(j - 1) * k + m] = blocks[j][m]
        <4>1. CASE j = i
          <5>1. (j - 1) * k + m = c + m
            <6>1. j - 1 = h1
              BY <3>1, <4>1
            <6> QED BY <3>c, <6>1
          <5>2. f[i][c + m] = blocks[i][m]
            BY <3>4
          <5> QED BY <4>1, <5>1, <5>2
        <4>2. CASE j # i
          <5>1. j \in 1 .. h1 /\ j - 1 \in Nat
            BY <3>1, <4>2
          <5>2. PICK e \in Nat : e = (j - 1) * k /\ e + k <= c
            <6>1. (j - 1) * k \in Nat /\ (j - 1) * k + k <= c
              BY <3>1, <3>c, <5>1, SMTT(20)
            <6> QED BY <6>1
          <5>3. f[i][e + m] = f[h1][e + m]
            <6>1. e + m \in 1 .. c
              BY <5>2
            <6> QED BY <3>4, <6>1
          <5>4. f[h1][(j - 1) * k + m] = blocks[j][m]
            BY <3>b, <5>1
          <5> QED BY <5>2, <5>3, <5>4
        <4> QED BY <4>1, <4>2
      <3> QED BY <3>4, <3>5, <3>6 DEF Block
    <2> QED BY <2>1, <2>2
  <1>7. Nat \subseteq N
    <2> HIDE DEF N
    <2> QED BY <1>5, <1>6, StepByStep
  <1>8. Block(n)
    <2>1. n \in N
      <3> HIDE DEF N
      <3> QED BY <1>3, <1>7
    <2>2. n <= n
      BY <1>3
    <2> HIDE DEF Block
    <2> QED BY <1>3, <2>1, <2>2
  <1> QED BY <1>1, <1>8 DEF InBlocks, n

\* k sessions are picked of an identity, however many it has.
LEMMA PicksCount ==
    ASSUME NEW A \in SUBSET Nat, IsFiniteSet(A), NEW k \in Nat, NEW x \in Picks(A, k)
    PROVE  Len(x) = k
  <1>0. Cardinality(A) \in Nat
    BY FS_CardinalityType
  <1>1. CASE Cardinality(A) >= k
    <2>1. PICK S \in SUBSET A : x = Ascending(S) /\ Cardinality(S) = k
      BY <1>1 DEF Picks, kSubset
    <2>2. IsFiniteSet(S) /\ S \in SUBSET Nat
      BY FS_Subset
    <2> QED BY <2>1, <2>2, AscendingIs
  <1>2. CASE ~(Cardinality(A) >= k)
    <2>1. PICK again \in [1 .. k - Cardinality(A) -> A] : x = Ascending(A) \o again
      BY <1>2 DEF Picks
    <2>2. PICK m \in Nat : m = k - Cardinality(A)
      BY <1>0, <1>2
    <2>3. again \in Seq(A) /\ Len(again) = m
      <3>1. again \in [1 .. m -> A]
        BY <2>2
      <3> QED BY <3>1
    <2>4. Ascending(A) \in Seq(A) /\ Len(Ascending(A)) = Cardinality(A)
      BY AscendingIs
    <2>5. Joins(x, Ascending(A), again)
      BY <2>1, <2>3, <2>4, Joined
    <2>6. Len(x) = Cardinality(A) + m
      BY <2>3, <2>4, <2>5 DEF Joins
    <2> QED BY <1>0, <2>2, <2>6
  <1> QED BY <1>1, <1>2

\* The elements of a sequence are finitely many.
LEMMA FiniteRange ==
    ASSUME NEW R, NEW l \in Seq(R)
    PROVE  IsFiniteSet(Range(l))
  <1>1. PICK n \in Nat : n = Len(l) /\ l \in [1 .. n -> R] /\ DOMAIN l = 1 .. n
    OBVIOUS
  <1>2. l \in Surjection(1 .. n, Range(l))
    <2>1. \A i \in 1 .. n : l[i] \in Range(l)
      BY <1>1 DEF Range
    <2>2. l \in [1 .. n -> Range(l)]
      BY <1>1, <2>1
    <2>3. \A x \in Range(l) : \E i \in 1 .. n : l[i] = x
      BY <1>1 DEF Range
    <2> QED BY <2>2, <2>3 DEF Surjection
  <1>3. IsFiniteSet(1 .. n)
    BY FS_Interval
  <1> HIDE DEF Range
  <1> QED BY <1>2, <1>3, FS_Surjection

\* A finite set as a sequence.
LEMMA SetToSeqIs ==
    ASSUME NEW S, IsFiniteSet(S), NEW p \in Nat, p = Cardinality(S)
    PROVE  SetToSeq(S) \in [1 .. p -> S] /\ IsInjective(SetToSeq(S))
  <1>1. \E f \in [1 .. Cardinality(S) -> S] : IsInjective(f)
    BY FS_CardinalityType DEF ExistsBijection, Bijection, Injection
  <1>2. /\ SetToSeq(S) \in [1 .. Cardinality(S) -> S]
        /\ IsInjective(SetToSeq(S))
    <2> HIDE DEF IsInjective
    <2> QED BY <1>1 DEF SetToSeq
  <1> QED BY <1>2

\* The rows of a batch of the sampler, block by block: ids[j] is the identity of block j.
PKRows(b, l, p, k, ids) ==
    /\ ids \in [1 .. p -> Range(l)] /\ IsInjective(ids)
    /\ Len(b) = p * k
    /\ \A j \in 1 .. p : \A m \in 1 .. k : l[b[(j - 1) * k + m]] = ids[j]

LEMMA PKBlocks ==
    ASSUME NEW R, NEW l \in Seq(R), NEW p \in Nat \ {0}, NEW k \in Nat, NEW b \in PKBatches(l, p, k)
    PROVE  \E ids : PKRows(b, l, p, k, ids)
  <1>1. PICK chosen \in kSubset(p, Range(l)) :
            b \in LET ids == SetToSeq(chosen)
                      picks == [j \in 1 .. p |-> Picks(SessionsOf(l, ids[j]), k)]
                  IN  {FlattenSeq(row) : row \in {r \in [1 .. p -> UNION Range(picks)] : \A j \in 1 .. p : r[j] \in picks[j]}}
    BY DEF PKBatches
  <1> DEFINE ids == SetToSeq(chosen)
             picks == [j \in 1 .. p |-> Picks(SessionsOf(l, ids[j]), k)]
  <1>2. PICK row \in [1 .. p -> UNION Range(picks)] : b = FlattenSeq(row) /\ \A j \in 1 .. p : row[j] \in picks[j]
    BY <1>1
  <1>3. ids \in [1 .. p -> Range(l)] /\ IsInjective(ids)
    <2>1. chosen \in SUBSET Range(l) /\ Cardinality(chosen) = p
      BY DEF kSubset
    <2>2. IsFiniteSet(chosen)
      <3> HIDE DEF ids, picks
      <3>1. IsFiniteSet(Range(l))
        BY FiniteRange
      <3> QED BY <2>1, <3>1, FS_Subset
    <2>3. SetToSeq(chosen) \in [1 .. p -> chosen] /\ IsInjective(SetToSeq(chosen))
      BY <2>1, <2>2, SetToSeqIs
    <2> HIDE DEF picks
    <2> QED BY <2>1, <2>3
  <1>4. ASSUME NEW j \in 1 .. p
        PROVE  /\ row[j] \in Seq(DOMAIN l) /\ Len(row[j]) = k
               /\ \A m \in 1 .. k : l[row[j][m]] = ids[j]
    <2> DEFINE A == SessionsOf(l, ids[j])
    <2>1. row[j] \in Picks(A, k)
      BY <1>2
    <2>2. A \in SUBSET DOMAIN l /\ \A n \in A : l[n] = ids[j]
      BY DEF SessionsOf
    <2> HIDE DEF A, ids, picks
    <2>3. A \in SUBSET Nat /\ IsFiniteSet(A)
      BY <2>2, PositionsAre
    <2>4. row[j] \in Seq(A) /\ Len(row[j]) = k
      BY <2>1, <2>3, PicksAre, PicksCount
    <2>5. \A m \in 1 .. k : row[j][m] \in A
      BY <2>4
    <2>6. row[j] \in Seq(DOMAIN l)
      BY <2>2, <2>4, SeqOfMore
    <2> QED BY <2>2, <2>4, <2>5, <2>6
  <1> HIDE DEF picks, ids
  <1>5. row \in Seq(Seq(DOMAIN l)) /\ Len(row) = p
    <2>1. row \in [1 .. p -> Seq(DOMAIN l)]
      BY <1>2, <1>4
    <2> QED BY <2>1
  <1>6. InBlocks(b, row, k)
    BY <1>2, <1>4, <1>5, FlattenBlocks
  <1>7. /\ Len(b) = p * k
        /\ \A j \in 1 .. p : \A m \in 1 .. k : b[(j - 1) * k + m] = row[j][m]
    BY <1>5, <1>6 DEF InBlocks
  <1>8. ASSUME NEW j \in 1 .. p, NEW m \in 1 .. k PROVE l[b[(j - 1) * k + m]] = ids[j]
    <2>1. b[(j - 1) * k + m] = row[j][m]
      BY <1>7
    <2>2. l[row[j][m]] = ids[j]
      BY <1>4
    <2> QED BY <2>1, <2>2, Zenon
  <1>9. PKRows(b, l, p, k, ids)
    BY <1>3, <1>7, <1>8 DEF PKRows
  <1> QED BY <1>9

\* Rows in blocks of k, each block with an identity of its own: p identities, k rows each.
Balanced(g, p, k) ==
    /\ Cardinality(Range(g)) = p
    /\ \A i \in Range(g) : Cardinality({r \in DOMAIN g : g[r] = i}) = k

LEMMA PKCounts ==
    ASSUME NEW p \in Nat \ {0}, NEW k \in Nat \ {0}, NEW g, DOMAIN g = 1 .. p * k,
           NEW I, NEW ids \in [1 .. p -> I], IsInjective(ids),
           \A j \in 1 .. p : \A m \in 1 .. k : g[(j - 1) * k + m] = ids[j]
    PROVE  Balanced(g, p, k)
  <1>0. \A r \in 1 .. p * k : \E j \in 1 .. p, m \in 1 .. k : r = (j - 1) * k + m
    <2>1. p \in Nat
      OBVIOUS
    <2> TAKE r \in 1 .. p * k
    <2> QED BY <2>1, RowInBlock, Zenon
  <1>1. Range(g) = Range(ids)
    <2>1. ASSUME NEW j \in 1 .. p PROVE ids[j] \in Range(g)
      <3>1. PICK e \in Nat : e = (j - 1) * k /\ e + k <= p * k
        <4>1. (j - 1) * k \in Nat /\ (j - 1) * k + k <= p * k
          BY SMTT(20)
        <4> QED BY <4>1
      <3>2. p * k \in Nat
        BY SMTT(20)
      <3>3. e + 1 \in 1 .. p * k
        BY <3>1, <3>2
      <3>4. g[e + 1] = ids[j]
        BY <3>1
      <3> QED BY <3>3, <3>4 DEF Range
    <2>2. ASSUME NEW r \in 1 .. p * k PROVE g[r] \in Range(ids)
      <3>1. PICK j \in 1 .. p, m \in 1 .. k : r = (j - 1) * k + m
        BY <1>0, Zenon
      <3>2. g[r] = ids[j]
        BY <3>1
      <3> QED BY <3>2 DEF Range
    <2>3. \A x \in Range(ids) : \E j \in 1 .. p : x = ids[j]
      BY DEF Range
    <2>4. \A x \in Range(g) : \E r \in 1 .. p * k : x = g[r]
      BY DEF Range
    <2>5. Range(ids) \subseteq Range(g)
      BY <2>1, <2>3, Zenon
    <2>6. Range(g) \subseteq Range(ids)
      BY <2>2, <2>4, Zenon
    <2> QED BY <2>5, <2>6, Zenon
  <1>2. Cardinality(Range(ids)) = p
    <2>1. ids \in Surjection(1 .. p, Range(ids)) /\ ids \in Injection(1 .. p, Range(ids))
      <3>1. ids \in [1 .. p -> Range(ids)] /\ \A x \in Range(ids) : \E j \in 1 .. p : ids[j] = x
        BY DEF Range
      <3> QED BY <3>1 DEF Surjection, Injection
    <2>2. IsFiniteSet(1 .. p) /\ Cardinality(1 .. p) = p
      BY FS_Interval
    <2> QED BY <2>1, <2>2, FS_Surjection
  <1>3. ASSUME NEW i \in Range(ids) PROVE Cardinality({r \in DOMAIN g : g[r] = i}) = k
    <2>1. PICK j \in 1 .. p : ids[j] = i
      BY DEF Range
    <2>2. PICK e \in Nat : e = (j - 1) * k /\ e + k <= p * k
      <3>1. (j - 1) * k \in Nat /\ (j - 1) * k + k <= p * k
        BY SMTT(20)
      <3> QED BY <3>1
    <2>3. p * k \in Nat
      BY SMTT(20)
    <2>4. ASSUME NEW r \in 1 .. p * k, g[r] = i PROVE r \in e + 1 .. e + k
      <3>1. PICK h \in 1 .. p, m \in 1 .. k : r = (h - 1) * k + m
        BY <1>0, Zenon
      <3>2. ids[h] = ids[j]
        BY <2>1, <2>4, <3>1
      <3>3. h = j
        BY <3>2 DEF IsInjective
      <3>4. r = e + m
        BY <2>2, <3>1, <3>3
      <3> QED BY <2>2, <3>4
    <2>5. ASSUME NEW r \in e + 1 .. e + k PROVE r \in 1 .. p * k /\ g[r] = i
      <3>1. r \in 1 .. p * k
        BY <2>2, <2>3
      <3>2. r - e \in 1 .. k /\ e + (r - e) = r
        BY <2>2
      <3>3. g[e + (r - e)] = ids[j]
        BY <2>2, <3>2
      <3> QED BY <2>1, <3>1, <3>2, <3>3
    <2>6. {r \in DOMAIN g : g[r] = i} = e + 1 .. e + k
      BY <2>4, <2>5
    <2>7. Cardinality(e + 1 .. e + k) = k
      <3>1. e + 1 \in Int /\ e + k \in Int /\ ~(e + 1 > e + k) /\ (e + k) - (e + 1) + 1 = k
        BY <2>2
      <3> QED BY <3>1, FS_Interval
    <2> QED BY <2>6, <2>7
  <1> QED BY <1>1, <1>2, <1>3 DEF Balanced

-----------------------------------------------------------------------------
(* The metrics of a ranking *)

\* What average precision says of a set of hits.
Precise(ap, hits, scale) ==
    /\ ap > 0 /\ ap <= scale
    /\ ap = scale <=> hits = 1 .. Cardinality(hits)

LEMMA PrecisionIs ==
    ASSUME NEW rel \in Seq(BOOLEAN), NEW scale \in Nat, scale >= Len(rel), NEW some \in DOMAIN rel, rel[some]
    PROVE  Precise(AveragePrecision(rel, scale), {r \in DOMAIN rel : rel[r]}, scale)
  <1> DEFINE H == {r \in DOMAIN rel : rel[r]}
             upto(r) == {q \in H : q <= r}
             P(r) == (scale * Cardinality(upto(r))) \div r
             units == {x \in H \X (1 .. scale) : x[2] <= P(x[1])}
             all == H \X (1 .. scale)
  <1>1. PICK n \in Nat : n = Len(rel) /\ DOMAIN rel = 1 .. n
    OBVIOUS
  <1>2. H \in SUBSET (1 .. n) /\ some \in H /\ H # {} /\ H \in SUBSET Nat /\ \A r \in H : r >= 1 /\ r <= scale
    BY <1>1
  <1>3. AveragePrecision(rel, scale) = Cardinality(units) \div Cardinality(H)
    BY <1>2 DEF AveragePrecision
  <1> HIDE DEF H
  <1>4. IsFiniteSet(H)
    <2>1. IsFiniteSet(1 .. n)
      BY FS_Interval
    <2> QED BY <1>2, <2>1, FS_Subset
  <1>5. PICK h \in Nat : h = Cardinality(H) /\ h >= 1
    <2>1. Cardinality(H) \in Nat /\ Cardinality(H) # 0
      BY <1>2, <1>4, FS_CardinalityType, FS_EmptySet
    <2> QED BY <2>1
  <1>6. ASSUME NEW r \in H
        PROVE  /\ IsFiniteSet(upto(r)) /\ Cardinality(upto(r)) \in 1 .. r /\ Cardinality(upto(r)) <= h
               /\ (Cardinality(upto(r)) = r => r <= h)
    <2>0. r \in Nat /\ \A q \in H : q \in Nat /\ q >= 1
      BY <1>2
    <2>1. upto(r) \in SUBSET H /\ r \in upto(r) /\ upto(r) \in SUBSET (1 .. r) /\ r \in Nat
      <3>1. \A q \in upto(r) : q \in 1 .. r
        BY <2>0
      <3>2. r <= r
        BY <2>0
      <3> QED BY <2>0, <3>1, <3>2
    <2>2. IsFiniteSet(1 .. r) /\ Cardinality(1 .. r) = r
      BY <1>2, FS_Interval
    <2> HIDE DEF upto
    <2>3. IsFiniteSet(upto(r)) /\ Cardinality(upto(r)) <= h /\ Cardinality(upto(r)) <= r
      BY <1>4, <1>5, <2>1, <2>2, FS_Subset
    <2>4. Cardinality(upto(r)) \in Nat /\ Cardinality(upto(r)) # 0
      BY <2>1, <2>3, FS_CardinalityType, FS_EmptySet
    <2> QED BY <2>1, <2>3, <2>4
  <1>7. ASSUME NEW r \in H
        PROVE  P(r) \in 1 .. scale /\ (P(r) = scale <=> Cardinality(upto(r)) = r)
    <2>1. PICK c \in Nat : c = Cardinality(upto(r)) /\ c >= 1 /\ c <= r
      <3> HIDE DEF upto
      <3>1. r \in Nat
        BY <1>2
      <3> QED BY <1>6, <3>1
    <2>2. r \in Nat /\ r >= 1 /\ r <= scale
      BY <1>2
    <2>3. PICK d : d = (scale * c) \div r
      OBVIOUS
    <2>4. scale * c \in Nat /\ r <= scale * c /\ scale * c <= scale * r /\ (c < r => scale * c < scale * r)
      BY <2>1, <2>2, SMTT(20)
    <2>5. d \in Nat /\ d * r <= scale * c /\ scale * c < d * r + r
      BY <2>2, <2>3, <2>4, SMTT(20)
    <2>6. d >= 1
      BY <2>2, <2>4, <2>5, SMTT(20)
    <2>7. d <= scale
      BY <2>2, <2>4, <2>5, SMTT(20)
    <2>8. d = scale => c = r
      BY <2>1, <2>2, <2>4, <2>5, SMTT(20)
    <2>9. c = r => d = scale
      BY <2>2, <2>3, SMTT(20)
    <2>10. P(r) = d
      BY <2>1, <2>3
    <2> HIDE DEF P, upto
    <2> QED BY <2>1, <2>5, <2>6, <2>7, <2>8, <2>9, <2>10
  <1> HIDE DEF P
  <1>8. IsFiniteSet(all) /\ Cardinality(all) = h * scale
    <2>1. IsFiniteSet(1 .. scale) /\ Cardinality(1 .. scale) = scale
      BY <1>2, FS_Interval
    <2> QED BY <1>4, <1>5, <2>1, FS_Product
  <1>9. units \in SUBSET all
    OBVIOUS
  <1>10. IsFiniteSet(units) /\ Cardinality(units) <= h * scale /\ (Cardinality(units) = h * scale <=> units = all)
    <2> HIDE DEF units, all
    <2> QED BY <1>8, <1>9, FS_Subset
  <1>11. h <= Cardinality(units)
    <2> DEFINE f == [r \in H |-> <<r, 1>>]
    <2>1. ASSUME NEW r \in H PROVE <<r, 1>> \in units
      <3>1. P(r) \in 1 .. scale
        BY <1>7
      <3>2. 1 <= P(r) /\ 1 \in 1 .. scale
        BY <3>1
      <3> QED BY <3>2
    <2>2. f \in Injection(H, units)
      <3>1. f \in [H -> units]
        <4> HIDE DEF units
        <4> QED BY <2>1
      <3>2. IsInjective(f)
        BY DEF IsInjective
      <3> HIDE DEF f, units
      <3> QED BY <3>1, <3>2 DEF Injection
    <2> HIDE DEF f, units
    <2> QED BY <1>5, <1>10, <2>2, FS_Injection
  <1>12. units = all <=> \A r \in H : P(r) = scale
    <2>1. ASSUME units = all, NEW r \in H PROVE P(r) = scale
      <3>1. <<r, scale>> \in all
        BY <1>2
      <3>2. scale <= P(r)
        BY <2>1, <3>1
      <3>3. P(r) \in 1 .. scale
        BY <1>7
      <3> QED BY <3>2, <3>3
    <2>2. ASSUME \A r \in H : P(r) = scale PROVE units = all
      <3>1. \A x \in all : x[1] \in H /\ x[2] \in 1 .. scale
        OBVIOUS
      <3>2. \A x \in all : x[2] <= P(x[1])
        BY <2>2, <3>1
      <3> QED BY <3>2
    <2> HIDE DEF units, all
    <2> QED BY <2>1, <2>2
  <1>13. (\A r \in H : Cardinality(upto(r)) = r) <=> H = 1 .. h
    <2>1. ASSUME \A r \in H : Cardinality(upto(r)) = r PROVE H = 1 .. h
      <3>1. \A r \in H : r <= h /\ r >= 1 /\ r \in Nat
        <4> HIDE DEF upto
        <4> QED BY <1>2, <1>6, <2>1
      <3>2. H \in SUBSET (1 .. h)
        BY <3>1
      <3>3. IsFiniteSet(1 .. h) /\ Cardinality(1 .. h) = h
        BY <1>5, FS_Interval
      <3> QED BY <1>5, <3>2, <3>3, FS_Subset
    <2>2. ASSUME H = 1 .. h, NEW r \in H PROVE Cardinality(upto(r)) = r
      <3>1. r \in Nat /\ r >= 1 /\ r <= h
        BY <2>2
      <3>2. upto(r) = 1 .. r
        BY <2>2, <3>1
      <3>3. Cardinality(1 .. r) = r
        BY <3>1, FS_Interval
      <3> QED BY <3>2, <3>3
    <2> HIDE DEF upto
    <2> QED BY <2>1, <2>2
  <1> HIDE DEF units, all, upto
  <1>14. PICK u \in Nat : u = Cardinality(units) /\ h <= u /\ u <= h * scale
    BY <1>10, <1>11, FS_CardinalityType
  <1>15. PICK ap : ap = u \div h
    OBVIOUS
  <1>16. ap \in Nat /\ ap * h <= u /\ u < ap * h + h
    BY <1>5, <1>14, <1>15, SMTT(20)
  <1>17. ap > 0 /\ ap <= scale
    BY <1>5, <1>14, <1>16, SMTT(20)
  <1>18. ap = scale <=> u = h * scale
    BY <1>5, <1>14, <1>16, SMTT(20)
  <1>19. ap = scale <=> H = 1 .. h
    BY <1>7, <1>10, <1>12, <1>13, <1>14, <1>18
  <1>20. AveragePrecision(rel, scale) = ap
    BY <1>3, <1>5, <1>14, <1>15
  <1> QED BY <1>5, <1>17, <1>19, <1>20 DEF Precise, H

-----------------------------------------------------------------------------
(* The evaluation *)

\* The phases after the split.
Prepared == {"build", "train", "validate", "next", "rank", "finish", "done"}

\* Every identity of the corpus has a session that is trained on.
Findable == \A i \in Range(labels) : \E n \in DOMAIN train : labels[train[n]] = i

\* Only probes are ranked, and every ranking so far has a hit.
Ranked ==
    /\ phase \in Prepared /\ job.trainer # "embed" => Findable
    /\ phase = "rank" => left \subseteq held
    /\ ranks \in Seq(Seq(BOOLEAN))
    /\ \A n \in DOMAIN ranks : \E r \in DOMAIN ranks[n] : ranks[n][r]

\* The numbers of a configuration.
Numbers ==
    /\ job.trainer \in {"embed", "reid", "real"} /\ job.epochs \in Nat
    /\ job.warmup.num \in Nat /\ job.warmup.den \in Nat \ {0}
    /\ job.trainer # "real" => job.batch \in Nat \ {0}
    /\ job.trainer # "embed" => job.nProbe \in Nat
    /\ job.trainer = "real" => job.p \in Nat /\ job.k \in Nat /\ job.perEpoch \in Nat

LEMMA NumbersAre == ASSUME FitInv PROVE Numbers
  <1>1. CASE job \in TrainConfig
    BY <1>1 DEF TrainConfig, Numbers
  <1>2. CASE job \in TrainReIDConfig
    BY <1>2 DEF TrainReIDConfig, Numbers
  <1>3. CASE job \in TrainRealReIDConfig
    BY <1>3 DEF TrainRealReIDConfig, Numbers
  <1> QED BY <1>1, <1>2, <1>3 DEF FitInv, Configured

\* What is kept of a corpus is a corpus.
LEMMA KeptIs ==
    ASSUME NEW corpus \in Seq(DOMAIN Kit), NEW least
    PROVE  KeepFrequent(corpus, least) \in Seq(DOMAIN Kit)
  <1> DEFINE S == {n \in DOMAIN corpus : Counts(corpus)[corpus[n]] >= least}
  <1>1. KeepFrequent(corpus, least) \in {At(corpus, S), corpus}
    BY DEF KeepFrequent
  <1>2. S \in SUBSET DOMAIN corpus
    OBVIOUS
  <1> HIDE DEF S
  <1> QED BY <1>1, <1>2, AtIs

\* The probes leave every identity a session.
LEMMA ProbesLeaveOne ==
    ASSUME NEW corpus \in Seq(DOMAIN Kit), NEW nProbe \in Nat, NEW H \in ProbeSets(corpus, nProbe), Split(H, corpus)
    PROVE  Findable'
  <1> DEFINE rest == DOMAIN corpus \ H
  <1>1. train' = Ascending(rest) /\ labels' = corpus
    BY DEF Split
  <1>2. SUFFICES ASSUME NEW i \in Range(corpus) PROVE \E n \in DOMAIN Ascending(rest) : corpus[Ascending(rest)[n]] = i
    BY <1>1 DEF Findable
  <1> DEFINE X == SessionsOf(corpus, i)
  <1>3. X \in SUBSET DOMAIN corpus /\ \A x \in X : corpus[x] = i
    BY DEF SessionsOf
  <1>4. Cardinality(H \cap X) = Min({nProbe, Cardinality(X) - 1})
    BY DEF ProbeSets, Counts
  <1> HIDE DEF X
  <1>5. IsFiniteSet(X) /\ Cardinality(X) \in Nat
    BY <1>3, PositionsAre, FS_CardinalityType
  <1>6. Cardinality(H \cap X) <= Cardinality(X) - 1
    BY <1>4, <1>5, OfTwo
  <1>7. PICK x \in X : x \notin H
    <2> SUFFICES ASSUME X \subseteq H PROVE FALSE
      OBVIOUS
    <2>1. H \cap X = X
      OBVIOUS
    <2>2. Cardinality(H \cap X) = Cardinality(X)
      BY <2>1, Zenon
    <2> QED BY <1>5, <1>6, <2>2
  <1>8. x \in rest /\ rest \in SUBSET DOMAIN corpus
    BY <1>3, <1>7
  <1> HIDE DEF rest
  <1>9. rest \in SUBSET Nat /\ IsFiniteSet(rest)
    BY <1>8, PositionsAre
  <1>10. PICK n \in DOMAIN Ascending(rest) : Ascending(rest)[n] = x
    BY <1>8, <1>9, AscendingOrders DEF Orders
  <1> QED BY <1>3, <1>7, <1>10

\* A ranking of the gallery has all of it.
LEMMA RankingIs ==
    ASSUME NEW S, IsFiniteSet(S), NEW order \in SetToSeqs(S)
    PROVE  /\ order \in Seq(S)
           /\ \A x \in S : \E r \in DOMAIN order : order[r] = x
  <1>1. PICK n \in Nat : n = Cardinality(S)
    BY FS_CardinalityType
  <1>2. order \in [1 .. n -> S] /\ \A i, j \in 1 .. n : i # j => order[i] # order[j]
    BY <1>1 DEF SetToSeqs
  <1>3. order \in Injection(1 .. n, S)
    BY <1>2 DEF Injection, IsInjective
  <1>4. Cardinality(1 .. n) = n
    BY FS_Interval
  <1>5. order \in Surjection(1 .. n, S)
    BY <1>1, <1>3, <1>4, FS_Injection
  <1> QED BY <1>2, <1>5 DEF Surjection

\* Ranking one probe.
LEMMA RankKeepsHits ==
    ASSUME FitInv, Ranked, Rank
    PROVE  Ranked'
  <1>1. /\ phase = "rank" /\ left # {} /\ left' = left \ {Min(left)} /\ phase' = phase
        /\ UNCHANGED <<job, labels, train, held>>
    BY DEF Rank, fitVars
  <1>2. left \subseteq held /\ Findable /\ job.trainer # "embed"
    BY <1>1 DEF Ranked, Prepared, FitInv, Configured
  <1>3. held \in SUBSET DOMAIN labels /\ train \in Seq(DOMAIN labels \ held) /\ labels \in Seq(DOMAIN Kit)
    BY DEF FitInv, SplitKept
  <1> DEFINE probe == Min(left)
  <1>4. probe \in left
    <2>1. left \in SUBSET Nat
      <3>1. left \in SUBSET DOMAIN labels
        BY <1>2, <1>3
      <3> QED BY <1>3, <3>1, PositionsAre
    <2>2. PICK low \in left : \A m \in left : low <= m
      BY <1>1, <2>1, LowestNumber
    <2> QED BY <2>2 DEF Min
  <1>5. PICK order \in SetToSeqs(Range(train)) :
            ranks' = Append(ranks, [r \in DOMAIN order |-> labels[order[r]] = labels[probe]])
    BY DEF Rank
  <1> HIDE DEF probe
  <1>6. /\ order \in Seq(Range(train))
        /\ \A x \in Range(train) : \E r \in DOMAIN order : order[r] = x
    BY <1>3, FiniteRange, RankingIs
  <1> DEFINE rel == [r \in DOMAIN order |-> labels[order[r]] = labels[probe]]
  <1>7. rel \in Seq(BOOLEAN) /\ DOMAIN rel = DOMAIN order
    <2>1. PICK n \in Nat : DOMAIN order = 1 .. n
      BY <1>6
    <2>2. rel \in [1 .. n -> BOOLEAN] /\ DOMAIN rel = DOMAIN order
      BY <2>1
    <2> HIDE DEF rel
    <2> QED BY <2>2
  <1>8. \E r \in DOMAIN rel : rel[r]
    <2>1. labels[probe] \in Range(labels)
      BY <1>2, <1>3, <1>4 DEF Range
    <2>2. PICK n \in DOMAIN train : labels[train[n]] = labels[probe]
      BY <1>2, <2>1 DEF Findable
    <2>3. PICK r \in DOMAIN order : order[r] = train[n]
      BY <1>6 DEF Range
    <2> QED BY <2>2, <2>3
  <1>9. ranks' \in Seq(Seq(BOOLEAN)) /\ \A n \in DOMAIN ranks' : \E r \in DOMAIN ranks'[n] : ranks'[n][r]
    <2>1. ranks \in Seq(Seq(BOOLEAN)) /\ \A n \in DOMAIN ranks : \E r \in DOMAIN ranks[n] : ranks[n][r]
      BY DEF Ranked
    <2>2. ranks' = Append(ranks, rel)
      BY <1>5
    <2> HIDE DEF rel
    <2>3. ranks' \in Seq(Seq(BOOLEAN)) /\ DOMAIN ranks' = 1 .. Len(ranks) + 1
      BY <1>7, <2>1, <2>2
    <2>4. ASSUME NEW n \in DOMAIN ranks' PROVE \E r \in DOMAIN ranks'[n] : ranks'[n][r]
      <3>1. CASE n = Len(ranks) + 1
        <4>1. ranks'[n] = rel
          BY <1>7, <2>1, <2>2, <3>1
        <4> QED BY <1>8, <4>1
      <3>2. CASE n # Len(ranks) + 1
        <4>1. n \in DOMAIN ranks /\ ranks'[n] = ranks[n]
          BY <1>7, <2>1, <2>2, <2>3, <3>2
        <4> QED BY <2>1, <4>1
      <3> QED BY <3>1, <3>2
    <2> QED BY <2>3, <2>4
  <1>10. Findable'
    BY <1>1, <1>2 DEF Findable
  <1>11. left' \subseteq held'
    BY <1>1, <1>2
  <1> QED BY <1>9, <1>10, <1>11 DEF Ranked

\* A step with the same split and the same rankings.
LEMMA SameRankings ==
    ASSUME Ranked, UNCHANGED <<labels, train, ranks>>, job'.trainer = job.trainer,
           phase' \in Prepared => phase \in Prepared,
           phase' = "rank" => left' \subseteq held'
    PROVE  Ranked'
  BY DEF Ranked, Findable

LEMMA RankedKeeps == FitInv /\ Ranked /\ [ModelNext]_modelVars => Ranked'
  <1> SUFFICES ASSUME FitInv, Ranked, [ModelNext]_modelVars PROVE Ranked'
    OBVIOUS
  <1>1. ASSUME NEW j \in Jobs, Start(j) PROVE Ranked'
    BY <1>1 DEF Start, Ranked, Prepared
  <1>2. ASSUME Fail PROVE Ranked'
    <2>1. phase' = "failed" /\ UNCHANGED <<job, labels, train, ranks>>
      BY <1>2 DEF Fail, fitVars, loopVars
    <2> QED BY <2>1, SameRankings DEF Prepared
  <1>3. ASSUME PrepareEmbed, ~Fail PROVE Ranked'
    <2>1. job.trainer = "embed" /\ phase' = "build" /\ UNCHANGED <<job, ranks>>
      BY <1>3 DEF PrepareEmbed, Is, loopVars
    <2> QED BY <2>1 DEF Ranked
  <1>4. ASSUME PrepareReid PROVE Ranked'
    <2>1. job.trainer = "reid" /\ phase' = "build" /\ UNCHANGED <<job, ranks>>
      BY <1>4 DEF PrepareReid, Is, loopVars
    <2>2. PICK H \in ProbeSets(labels, job.nProbe) : Split(H, labels)
      BY <1>4 DEF PrepareReid
    <2>3. labels \in Seq(DOMAIN Kit) /\ job.nProbe \in Nat
      BY <2>1, NumbersAre DEF Numbers, FitInv, SplitKept
    <2>4. Findable'
      BY <2>2, <2>3, ProbesLeaveOne
    <2> QED BY <2>1, <2>4 DEF Ranked
  <1>5. ASSUME PrepareReal, ~Fail PROVE Ranked'
    <2> DEFINE kept == KeepFrequent(labels, job.minSessions)
    <2>1. job.trainer = "real"
      BY <1>5 DEF PrepareReal, Is
    <2>2. PICK H \in ProbeSets(kept, job.nProbe) : Split(H, kept) /\ phase' = "build" /\ UNCHANGED <<job, loopVars>>
      BY <1>5 DEF PrepareReal
    <2>3. kept \in Seq(DOMAIN Kit) /\ job.nProbe \in Nat
      <3>1. labels \in Seq(DOMAIN Kit) /\ job.nProbe \in Nat
        BY <2>1, NumbersAre DEF Numbers, FitInv, SplitKept
      <3> QED BY <3>1, KeptIs
    <2> HIDE DEF kept
    <2>4. Findable'
      BY <2>2, <2>3, ProbesLeaveOne
    <2>5. UNCHANGED <<job, ranks>>
      BY <2>2 DEF loopVars
    <2> QED BY <2>2, <2>4, <2>5 DEF Ranked
  <1>6. ASSUME Build, ~Fail PROVE Ranked'
    <2>1. phase = "build" /\ phase' = "train" /\ UNCHANGED <<job, labels, train, ranks>>
      BY <1>6 DEF Build, fitVars
    <2> QED BY <2>1, SameRankings DEF Prepared
  <1>7. ASSUME NEW b, NEW pulled, Optimize(b, pulled), phase = "train" PROVE Ranked'
    <2>1. phase' = "train" /\ UNCHANGED <<job, labels, train, ranks>>
      BY <1>7 DEF Optimize, fitVars
    <2> QED BY <1>7, <2>1, SameRankings DEF Prepared
  <1>8. ASSUME EndEpoch PROVE Ranked'
    <2>1. phase = "train" /\ phase' \in {"validate", "next"} /\ UNCHANGED <<job, labels, train, ranks>>
      BY <1>8 DEF EndEpoch, fitVars
    <2> QED BY <2>1, SameRankings DEF Prepared
  <1>9. ASSUME Validate PROVE Ranked'
    <2>1. phase = "validate" /\ phase' = "next" /\ UNCHANGED <<job, labels, train, ranks>>
      BY <1>9 DEF Validate, fitVars
    <2> QED BY <2>1, SameRankings DEF Prepared
  <1>10. ASSUME NextEpoch PROVE Ranked'
    <2>1. /\ phase = "next" /\ phase' \in {"train", "finish", "rank"} /\ (phase' = "rank" => left' = held)
          /\ UNCHANGED <<job, labels, train, held, ranks>>
      BY <1>10 DEF NextEpoch, fitVars
    <2> QED BY <2>1, SameRankings DEF Prepared
  <1>11. ASSUME Evaluated PROVE Ranked'
    <2>1. phase = "rank" /\ phase' = "finish" /\ UNCHANGED <<job, labels, train, ranks>>
      BY <1>11 DEF Evaluated, fitVars
    <2> QED BY <2>1, SameRankings DEF Prepared
  <1>12. ASSUME Write PROVE Ranked'
    <2>1. UNCHANGED <<job, phase, labels, train, held, left, ranks>>
      BY <1>12 DEF Write, fitVars, loopVars
    <2> QED BY <2>1 DEF Ranked, Findable
  <1>13. ASSUME Finish PROVE Ranked'
    <2>1. phase = "finish" /\ phase' = "done" /\ UNCHANGED <<job, labels, train, ranks>>
      BY <1>13 DEF Finish, fitVars, loopVars
    <2> QED BY <2>1, SameRankings DEF Prepared
  <1>14. ASSUME NextVariant PROVE Ranked'
    <2>1. /\ phase = "done" /\ phase' = "build" /\ ranks' = <<>> /\ job.trainer = "reid"
          /\ UNCHANGED <<labels, train>>
      BY <1>14 DEF NextVariant, fitVars
    <2>2. Findable'
      BY <2>1 DEF Ranked, Findable, Prepared
    <2> QED BY <2>1, <2>2 DEF Ranked
  <1>15. ASSUME Crash PROVE Ranked'
    <2>1. phase' = "off" /\ UNCHANGED <<job, labels, train, ranks>>
      BY <1>15 DEF Crash, fitVars, loopVars
    <2> QED BY <2>1, SameRankings DEF Prepared
  <1>16. ASSUME UNCHANGED modelVars PROVE Ranked'
    <2>1. UNCHANGED <<job, phase, labels, train, held, left, ranks>>
      BY <1>16 DEF modelVars, fitVars, loopVars
    <2> QED BY <2>1 DEF Ranked, Findable
  <1>17. CASE StepEmbed \/ StepReid
    <2>1. phase = "train"
      BY <1>17 DEF StepEmbed, StepReid, Is
    <2>2. Fail \/ \E b : Optimize(b, NTXentPairs(b))
      BY <1>17 DEF StepEmbed, StepReid, TakeBatch
    <2> QED BY <1>2, <1>7, <2>1, <2>2
  <1>18. CASE StepReal
    <2>1. phase = "train" /\ \E b, pulled : Optimize(b, pulled)
      BY <1>18 DEF StepReal, Is
    <2> QED BY <1>7, <2>1
  <1> QED BY <1>1, <1>2, <1>3, <1>4, <1>5, <1>6, <1>8, <1>9, <1>10, <1>11, <1>12, <1>13, <1>14, <1>15,
             <1>16, <1>17, <1>18, RankKeepsHits
          DEF ModelNext, Trainer, StartEmbed, StartReid, StartReal, UnknownToken

\* For every corpus, split and ranking: recall@k grows with k, every probe has a session of
\* its identity in the gallery, and the average precision is positive and 1 exactly when
\* those sessions come first (reconnection_split, reid_evaluate, recall_at_k,
\* average_precision).
THEOREM RetrievalIsSound == ModelSpec => []RetrievalSound
  <1>1. ModelInit => Ranked
    BY DEF ModelInit, Ranked, Prepared
  <1>2. Ranked => RetrievalSound
    <2> SUFFICES ASSUME Ranked, NEW n \in DOMAIN ranks
                 PROVE  LET rel == ranks[n]
                            hits == {r \in DOMAIN rel : rel[r]}
                            scale == Len(rel)
                            ap == AveragePrecision(rel, scale)
                        IN  /\ \A k, m \in Ks : k <= m /\ Hit(rel, k) => Hit(rel, m)
                            /\ Hit(rel, Len(rel))
                            /\ ap > 0 /\ ap <= scale
                            /\ ap = scale <=> hits = 1 .. Cardinality(hits)
      BY DEF RetrievalSound
    <2> DEFINE rel == ranks[n]
               hits == {r \in DOMAIN rel : rel[r]}
    <2>1. rel \in Seq(BOOLEAN) /\ Len(rel) \in Nat /\ DOMAIN rel = 1 .. Len(rel) /\ \E r \in DOMAIN rel : rel[r]
      BY DEF Ranked
    <2>2. PICK some \in DOMAIN rel : rel[some]
      BY <2>1
    <2>3. Precise(AveragePrecision(rel, Len(rel)), hits, Len(rel))
      <3>1. Len(rel) >= Len(rel)
        BY <2>1
      <3> HIDE DEF rel
      <3> QED BY <2>1, <2>2, <3>1, PrecisionIs
    <2>4. ASSUME NEW k \in Ks, NEW m \in Ks, k <= m, Hit(rel, k) PROVE Hit(rel, m)
      <3>1. k \in Nat /\ m \in Nat
        BY ModelsAssumption
      <3>2. /\ Min({k, Len(rel)}) = (IF k <= Len(rel) THEN k ELSE Len(rel))
            /\ Min({m, Len(rel)}) = (IF m <= Len(rel) THEN m ELSE Len(rel))
        BY <2>1, <3>1, OfTwo
      <3> HIDE DEF rel
      <3> QED BY <2>1, <2>4, <3>1, <3>2 DEF Hit
    <2>5. Hit(rel, Len(rel))
      <3>1. Min({Len(rel), Len(rel)}) = Len(rel)
        BY <2>1, OfTwo
      <3> HIDE DEF rel
      <3> QED BY <2>1, <2>2, <3>1 DEF Hit
    <2> HIDE DEF rel
    <2> QED BY <2>3, <2>4, <2>5 DEF Precise, rel
  <1> QED BY <1>1, <1>2, FitInvariance, RankedKeeps, PTL DEF ModelSpec

-----------------------------------------------------------------------------
(* What the optimizer is given *)

\* There is a batch only while the optimizer steps, in training mode, and it is what its loss is for.
Fed ==
    /\ phase \in (Prepared \cup {"prepare"}) \ {"train"} => batch = <<>> /\ pairs = {}
    /\ phase = "train" => mode = "train"
    /\ phase \in Prepared /\ job.trainer = "real" => job.p >= 1 /\ job.k >= 1
    /\ BatchShape /\ PositivesMatch /\ ModeFits

\* The other view of a session is another row of the same session.
LEMMA ViewsPair ==
    ASSUME NEW R, NEW b \in Seq(R), NEW x \in NTXentPairs(b)
    PROVE  x[1] # x[2] /\ x[3] = x[4]
  <1>1. PICK n \in Nat : n = Len(b)
    OBVIOUS
  <1> DEFINE rows == b \o b
  <1>2. Joins(rows, b, b)
    BY Joined
  <1> HIDE DEF rows
  <1>3. PICK r \in 1 .. 2 * n : x = <<r, NTXentTarget(n, r), rows[r], rows[NTXentTarget(n, r)]>>
    BY <1>1 DEF NTXentPairs, rows
  <1>4. PICK t \in Nat : t = NTXentTarget(n, r) /\ t # r /\ rows[r] = rows[t]
    <2>1. CASE r <= n
      <3>1. NTXentTarget(n, r) = r + n /\ r \in 1 .. n /\ n >= 1
        BY <2>1 DEF NTXentTarget
      <3>2. rows[n + r] = b[r] /\ rows[r] = b[r]
        BY <1>1, <1>2, <3>1 DEF Joins
      <3>3. n + r = r + n /\ r + n \in Nat /\ r + n # r
        BY <3>1
      <3> QED BY <3>1, <3>2, <3>3
    <2>2. CASE ~(r <= n)
      <3>1. NTXentTarget(n, r) = r - n /\ r - n \in 1 .. n /\ n >= 1
        BY <2>2 DEF NTXentTarget
      <3>2. rows[n + (r - n)] = b[r - n] /\ rows[r - n] = b[r - n]
        BY <1>1, <1>2, <3>1 DEF Joins
      <3>3. n + (r - n) = r /\ r - n # r
        BY <3>1
      <3> QED BY <3>1, <3>2, <3>3
    <2> QED BY <2>1, <2>2
  <1>5. x[1] = r /\ x[2] = t /\ x[3] = rows[r] /\ x[4] = rows[t]
    BY <1>3, <1>4
  <1> QED BY <1>4, <1>5

\* The labelled rows a loss pulls together have the same label.
LEMMA PairsAgree ==
    ASSUME NEW b, NEW l, NEW ignore, NEW x \in SupConPairs(b, l, ignore)
    PROVE  \E r \in DOMAIN l, t \in DOMAIN l : r # t /\ l[r] = l[t] /\ l[r] # ignore /\ x = <<r, t, b[r], b[t]>>
  <1>1. PICK y \in SupConAnchors(l, ignore) \X DOMAIN l :
            y[1] # y[2] /\ l[y[1]] = l[y[2]] /\ x = <<y[1], y[2], b[y[1]], b[y[2]]>>
    BY DEF SupConPairs
  <1>2. y[1] \in DOMAIN l /\ l[y[1]] # ignore /\ y[2] \in DOMAIN l
    BY DEF SupConAnchors
  <1> QED BY <1>1, <1>2

\* Sessions of one identity, or of one campaign that is known.
Alike(s, t) == labels[s] = labels[t] \/ (Kit[labels[s]] = Kit[labels[t]] /\ Kit[labels[s]] # Unknown)

LEMMA CampaignsAgree ==
    ASSUME NEW b, NEW x \in CampaignAwarePairs(b, labels, Kit, Unknown, None)
    PROVE  x[1] # x[2] /\ Alike(x[3], x[4])
  <1> DEFINE ids == [r \in DOMAIN b |-> labels[b[r]]]
             kits == [r \in DOMAIN b |-> Kit[ids[r]]]
  <1>1. x \in SupConPairs(b, ids, None) \/ x \in SupConPairs(b, kits, Unknown)
    BY DEF CampaignAwarePairs
  <1>2. DOMAIN ids = DOMAIN b /\ DOMAIN kits = DOMAIN b /\ \A r \in DOMAIN b : ids[r] = labels[b[r]] /\ kits[r] = Kit[labels[b[r]]]
    OBVIOUS
  <1> HIDE DEF ids, kits
  <1>3. CASE x \in SupConPairs(b, ids, None)
    <2>1. PICK r \in DOMAIN b, t \in DOMAIN b : r # t /\ ids[r] = ids[t] /\ x = <<r, t, b[r], b[t]>>
      BY <1>2, <1>3, PairsAgree
    <2>2. x[1] = r /\ x[2] = t /\ x[3] = b[r] /\ x[4] = b[t]
      BY <2>1
    <2> QED BY <1>2, <2>1, <2>2 DEF Alike
  <1>4. CASE x \in SupConPairs(b, kits, Unknown)
    <2>1. PICK r \in DOMAIN b, t \in DOMAIN b :
              r # t /\ kits[r] = kits[t] /\ kits[r] # Unknown /\ x = <<r, t, b[r], b[t]>>
      BY <1>2, <1>4, PairsAgree
    <2>2. x[1] = r /\ x[2] = t /\ x[3] = b[r] /\ x[4] = b[t]
      BY <2>1
    <2> QED BY <1>2, <2>1, <2>2 DEF Alike
  <1> QED BY <1>1, <1>3, <1>4

\* A step of the optimizer.
LEMMA OptimizeFeeds ==
    ASSUME FitInv, Fed, phase = "train", NEW b, NEW pulled, Optimize(b, pulled), BatchShape', PositivesMatch'
    PROVE  Fed'
  <1>1. phase' = phase /\ mode' = mode /\ job' = job
    BY DEF Optimize
  <1>2. ModeFits'
    BY <1>1 DEF Fed, ModeFits
  <1> QED BY <1>1, <1>2 DEF Fed

\* The batch size is not 0, and what is left to draw from is finite.
LEMMA SizeIs ==
    ASSUME FitInv, job.trainer # "real"
    PROVE  /\ Len(train) \in Nat /\ Size \in Nat \ {0} /\ DropLast \in BOOLEAN
           /\ job.trainer = "embed" => Size = job.batch /\ DropLast
           /\ job.trainer = "reid" => DropLast = (Len(train) >= 2 * Size)
  <1>1. Len(train) \in Nat /\ Numbers
    BY NumbersAre DEF FitInv, SplitKept
  <1>2. CASE job.trainer = "embed"
    BY <1>1, <1>2 DEF Numbers, Size, DropLast
  <1>3. CASE job.trainer = "reid"
    <2> DEFINE g == Len(train) \div 2
    <2>1. g \in Nat
      BY <1>1, SMTT(20)
    <2> HIDE DEF g
    <2>2. PICK m \in Nat \ {0} : m = Max({2, g})
      <3>1. Max({2, g}) \in Nat \ {0}
        BY <2>1, OfTwo
      <3> QED BY <3>1
    <2>3. Min({job.batch, Max({2, g})}) \in Nat \ {0}
      <3>1. PICK c \in Nat \ {0} : c = job.batch
        BY <1>1, <1>3 DEF Numbers
      <3>2. Min({c, m}) \in Nat \ {0}
        BY OfTwo
      <3> QED BY <2>2, <3>1, <3>2
    <2>4. Size \in Nat \ {0}
      BY <1>3, <2>3 DEF Size, ReidBatchSize, g
    <2> QED BY <1>1, <1>3, <2>4 DEF DropLast, ReidDropsLast
  <1> QED BY <1>1, <1>2, <1>3 DEF Numbers

LEMMA LeftIs ==
    ASSUME FitInv, phase = "train", job.trainer # "real"
    PROVE  left \in SUBSET Nat /\ IsFiniteSet(left) /\ Cardinality(left) \in Nat
  <1>1. left \subseteq Range(train) /\ train \in Seq(DOMAIN labels \ held) /\ labels \in Seq(DOMAIN Kit)
    BY DEF FitInv, SplitKept
  <1>2. left \in SUBSET DOMAIN labels
    BY <1>1 DEF Range
  <1> QED BY <1>1, <1>2, PositionsAre, FS_CardinalityType

\* A batch of the shuffled loader.
LEMMA TakeBatchFeeds ==
    ASSUME FitInv, Fed, phase = "train", job.trainer # "real", NEW b \in Served(left, Size, DropLast), TakeBatch(b),
           job.trainer = "reid" => Len(b) # 1 \/ ~job.bn
    PROVE  Fed'
  <1>1. /\ Size \in Nat \ {0} /\ DropLast \in BOOLEAN /\ (job.trainer = "embed" => Size = job.batch /\ DropLast)
        /\ left \in SUBSET Nat /\ IsFiniteSet(left)
    BY SizeIs, LeftIs
  <1>2. /\ b \in Seq(left) /\ Len(b) >= 1
        /\ IF Size <= Cardinality(left) THEN Len(b) = Size ELSE ~DropLast /\ Len(b) = Cardinality(left)
    BY <1>1, ServedCounts
  <1>3. job.trainer \in {"embed", "reid"}
    BY NumbersAre DEF Numbers
  <1>4. batch' = b /\ pairs' = NTXentPairs(b) /\ job' = job /\ Optimize(b, NTXentPairs(b))
    BY DEF TakeBatch, Optimize
  <1>5. BatchShape'
    <2>1. CASE job.trainer = "embed"
      BY <1>1, <1>2, <1>4, <2>1 DEF BatchShape
    <2>2. CASE job.trainer = "reid"
      <3>1. Len(b) \in Nat
        BY <1>2
      <3>2. Len(b) >= 2 \/ ~job.bn
        <4> SUFFICES ASSUME job.bn PROVE Len(b) >= 2
          OBVIOUS
        <4>1. PICK n \in Nat : n = Len(b) /\ n # 1 /\ n >= 1
          BY <1>2, <2>2, <3>1
        <4>2. n >= 2
          BY <4>1
        <4> QED BY <4>1, <4>2
      <3> QED BY <1>4, <2>2, <3>2 DEF BatchShape
    <2> QED BY <1>3, <2>1, <2>2
  <1>6. PositivesMatch'
    <2>1. \A x \in NTXentPairs(b) : x[1] # x[2] /\ x[3] = x[4]
      BY <1>2, ViewsPair
    <2> QED BY <1>4, <2>1 DEF PositivesMatch
  <1> QED BY <1>4, <1>5, <1>6, OptimizeFeeds

\* A batch of the sampler.
LEMMA StepRealFeeds == ASSUME FitInv, Fed, StepReal PROVE Fed'
  <1> DEFINE l == [n \in DOMAIN train |-> labels[train[n]]]
  <1>1. phase = "train" /\ job.trainer = "real"
    BY DEF StepReal, Is
  <1>2. PICK positions \in PKBatches(l, job.p, job.k) :
            Optimize(Rows(positions), CampaignAwarePairs(Rows(positions), labels, Kit, Unknown, None))
    BY DEF StepReal
  <1>3. train \in Seq(DOMAIN labels \ held) /\ job.p \in Nat \ {0} /\ job.k \in Nat \ {0}
    <2>1. job.p \in Nat /\ job.k \in Nat
      BY <1>1, NumbersAre DEF Numbers
    <2>2. job.p >= 1 /\ job.k >= 1
      BY <1>1 DEF Fed, Prepared
    <2> QED BY <2>1, <2>2 DEF FitInv, SplitKept
  <1>4. l \in Seq(DOMAIN Kit) /\ DOMAIN l = DOMAIN train /\ \A n \in DOMAIN train : l[n] = labels[train[n]]
    <2>1. PICK m \in Nat : m = Len(train) /\ DOMAIN train = 1 .. m
      BY <1>3
    <2>2. \A n \in 1 .. m : labels[train[n]] \in DOMAIN Kit
      <3>1. \A n \in 1 .. m : train[n] \in DOMAIN labels
        BY <1>3, <2>1
      <3>2. \A d \in DOMAIN labels : labels[d] \in DOMAIN Kit
        BY DEF FitInv, SplitKept
      <3> QED BY <3>1, <3>2
    <2>3. l \in [1 .. m -> DOMAIN Kit]
      BY <2>1, <2>2
    <2>4. \A n \in DOMAIN train : l[n] = labels[train[n]]
      OBVIOUS
    <2> HIDE DEF l
    <2>5. DOMAIN l = 1 .. m
      BY <2>3
    <2> QED BY <2>1, <2>3, <2>4, <2>5
  <1> HIDE DEF l
  <1>5. positions \in Seq(DOMAIN train)
    BY <1>2, <1>3, <1>4, PKBatchesAre
  <1>6. PICK ids : PKRows(positions, l, job.p, job.k, ids)
    BY <1>2, <1>3, <1>4, PKBlocks
  <1> DEFINE rows == Rows(positions)
             g == [r \in DOMAIN rows |-> labels[rows[r]]]
  <1>7. PICK len \in Nat : len = job.p * job.k /\ DOMAIN positions = 1 .. len
    BY <1>5, <1>6 DEF PKRows
  <1>8. DOMAIN rows = 1 .. len /\ \A r \in 1 .. len : rows[r] = train[positions[r]]
    BY <1>7 DEF Rows
  <1>9. \A r \in 1 .. len : labels[rows[r]] = l[positions[r]]
    <2>1. \A r \in 1 .. len : positions[r] \in DOMAIN train
      BY <1>5, <1>7
    <2> HIDE DEF rows
    <2> QED BY <1>4, <1>8, <2>1
  <1> HIDE DEF rows
  <1>10. DOMAIN g = 1 .. job.p * job.k /\ \A r \in 1 .. len : g[r] = l[positions[r]]
    BY <1>7, <1>8, <1>9
  <1>11. Balanced(g, job.p, job.k)
    <2>1. ids \in [1 .. job.p -> Range(l)] /\ IsInjective(ids)
      BY <1>6 DEF PKRows
    <2>2. ASSUME NEW j \in 1 .. job.p, NEW m \in 1 .. job.k PROVE g[(j - 1) * job.k + m] = ids[j]
      <3>1. (j - 1) * job.k + m \in 1 .. len
        <4>1. PICK e \in Nat : e = (j - 1) * job.k /\ e + job.k <= job.p * job.k
          <5>1. (j - 1) * job.k \in Nat /\ (j - 1) * job.k + job.k <= job.p * job.k
            BY <1>3, SMTT(20)
          <5> QED BY <5>1
        <4>2. PICK kk \in Nat : kk = job.k
          BY <1>3
        <4>3. e + kk <= len /\ m \in 1 .. kk
          BY <1>7, <4>1, <4>2
        <4>4. e + m \in 1 .. len
          BY <4>3
        <4> QED BY <4>1, <4>4
      <3>2. l[positions[(j - 1) * job.k + m]] = ids[j]
        BY <1>6 DEF PKRows
      <3> HIDE DEF g
      <3> QED BY <1>10, <3>1, <3>2
    <2> HIDE DEF g
    <2> QED BY <1>3, <1>10, <2>1, <2>2, PKCounts
  <1>12. batch' = rows /\ job' = job /\ labels' = labels /\ pairs' = CampaignAwarePairs(rows, labels, Kit, Unknown, None)
    BY <1>2 DEF Optimize, fitVars, rows
  <1>13. BatchShape'
    <2>1. {labels[s] : s \in Range(rows)} = Range(g)
      BY DEF Range
    <2>2. \A i : {r \in DOMAIN rows : labels[rows[r]] = i} = {r \in DOMAIN g : g[r] = i}
      OBVIOUS
    <2>3. /\ Cardinality({labels[s] : s \in Range(rows)}) = job.p
          /\ \A i \in {labels[s] : s \in Range(rows)} :
                 Cardinality({r \in DOMAIN rows : labels[rows[r]] = i}) = job.k
      <3> HIDE DEF g
      <3> QED BY <1>11, <2>1, <2>2 DEF Balanced
    <2>4. LET all == {labels'[s] : s \in Range(batch')}
          IN  /\ Cardinality(all) = job'.p
              /\ \A i \in all : Cardinality({r \in DOMAIN batch' : labels'[batch'[r]] = i}) = job'.k
      <3>1. {labels'[s] : s \in Range(batch')} = {labels[s] : s \in Range(rows)}
        BY <1>12, Zenon
      <3>2. \A i : {r \in DOMAIN batch' : labels'[batch'[r]] = i} = {r \in DOMAIN rows : labels[rows[r]] = i}
        BY <1>12, Zenon
      <3>3. job' = job
        BY <1>12
      <3> QED BY <2>3, <3>1, <3>2, <3>3
    <2>5. job'.trainer = "real" /\ job'.trainer # "embed" /\ job'.trainer # "reid"
      BY <1>1, <1>12
    <2> QED BY <2>4, <2>5 DEF BatchShape
  <1>14. PositivesMatch'
    <2>1. \A x \in pairs' : x[1] # x[2] /\ Alike(x[3], x[4])
      BY <1>12, CampaignsAgree
    <2> QED BY <1>1, <1>12, <2>1 DEF PositivesMatch, Alike
  <1> QED BY <1>1, <1>2, <1>13, <1>14, OptimizeFeeds

\* A step after which there is no batch.
LEMMA WithoutBatch ==
    ASSUME batch' = <<>>, pairs' = {}, phase' = "train" => mode' = "train",
           phase' \in {"validate", "rank"} => mode' = "eval",
           phase' \in Prepared /\ job'.trainer = "real" => job'.p >= 1 /\ job'.k >= 1
    PROVE  Fed'
  BY DEF Fed, BatchShape, PositivesMatch, ModeFits

\* A step that leaves the batch alone.
LEMMA SameBatch ==
    ASSUME Fed, UNCHANGED <<job, labels, batch, pairs, mode>>, phase' \in {phase, "off", "failed"}
    PROVE  Fed'
  <1>1. BatchShape'
    <2>1. BatchShape /\ job' = job /\ labels' = labels /\ batch' = batch
      BY DEF Fed
    <2> QED BY <2>1, ZenonT(30) DEF BatchShape
  <1>2. PositivesMatch'
    BY DEF Fed, PositivesMatch
  <1>3. ModeFits'
    BY DEF Fed, ModeFits
  <1> QED BY <1>1, <1>2, <1>3 DEF Fed, Prepared

LEMMA FedKeeps == FitInv /\ Fed /\ [ModelNext]_modelVars => Fed'
  <1> SUFFICES ASSUME FitInv, Fed, [ModelNext]_modelVars PROVE Fed'
    OBVIOUS
  <1>1. ASSUME NEW j \in Jobs, Start(j) PROVE Fed'
    <2>1. phase' = "prepare" /\ batch' = <<>> /\ pairs' = {}
      BY <1>1 DEF Start
    <2> QED BY <2>1, WithoutBatch DEF Prepared
  <1>2. ASSUME Fail PROVE Fed'
    <2>1. phase' = "failed" /\ UNCHANGED <<job, labels, batch, pairs, mode>>
      BY <1>2 DEF Fail, fitVars, loopVars
    <2> QED BY <2>1, SameBatch
  <1>3. ASSUME phase = "prepare", phase' = "build", UNCHANGED <<job, loopVars>>,
               job.trainer = "real" => job.p >= 1 /\ job.k >= 1
        PROVE  Fed'
    <2>1. batch' = <<>> /\ pairs' = {}
      BY <1>3 DEF Fed, loopVars
    <2> QED BY <1>3, <2>1, WithoutBatch
  <1>4. ASSUME PrepareEmbed, ~Fail PROVE Fed'
    <2>1. phase = "prepare" /\ phase' = "build" /\ UNCHANGED <<job, loopVars>> /\ job.trainer # "real"
      BY <1>4 DEF PrepareEmbed, Is
    <2> QED BY <1>3, <2>1
  <1>5. ASSUME PrepareReid PROVE Fed'
    <2>1. phase = "prepare" /\ phase' = "build" /\ UNCHANGED <<job, loopVars>> /\ job.trainer # "real"
      BY <1>5 DEF PrepareReid, Is
    <2> QED BY <1>3, <2>1
  <1>6. ASSUME PrepareReal, ~Fail PROVE Fed'
    <2>1. phase = "prepare" /\ phase' = "build" /\ UNCHANGED <<job, loopVars>> /\ job.trainer = "real"
      BY <1>6 DEF PrepareReal, Is
    <2>2. \E l : ~SamplerRefuses(l, job.p, job.k)
      BY <1>6 DEF PrepareReal
    <2>3. job.p \in Nat /\ job.k \in Nat
      BY <2>1, NumbersAre DEF Numbers
    <2>4. job.p >= 1 /\ job.k >= 1
      BY <2>2, <2>3 DEF SamplerRefuses
    <2> QED BY <1>3, <2>1, <2>4
  <1>7. ASSUME Build, ~Fail PROVE Fed'
    <2>1. phase = "build" /\ phase' = "train" /\ mode' = "train" /\ UNCHANGED <<job, batch, pairs>>
      BY <1>7 DEF Build
    <2>2. batch' = <<>> /\ pairs' = {} /\ (job.trainer = "real" => job.p >= 1 /\ job.k >= 1)
      BY <2>1 DEF Fed, Prepared
    <2> QED BY <2>1, <2>2, WithoutBatch
  <1>8. CASE StepEmbed
    <2>1. phase = "train" /\ job.trainer = "embed" /\ \E b \in Served(left, Size, DropLast) : TakeBatch(b)
      BY <1>8 DEF StepEmbed, Is
    <2> QED BY <2>1, TakeBatchFeeds
  <1>9. CASE StepReid
    <2>1. phase = "train" /\ job.trainer = "reid"
      BY <1>9 DEF StepReid, Is
    <2>2. PICK b \in Served(left, Size, DropLast) : Fail \/ ((Len(b) # 1 \/ ~job.bn) /\ TakeBatch(b))
      BY <1>9 DEF StepReid
    <2> QED BY <1>2, <2>1, <2>2, TakeBatchFeeds
  <1>10. ASSUME EndEpoch PROVE Fed'
    <2>1. /\ phase = "train" /\ batch' = <<>> /\ pairs' = {} /\ job' = job
          /\ phase' \in {"validate", "next"} /\ (phase' = "validate" => mode' = "eval")
      BY <1>10 DEF EndEpoch
    <2>2. job.trainer = "real" => job.p >= 1 /\ job.k >= 1
      BY <2>1 DEF Fed, Prepared
    <2> QED BY <2>1, <2>2, WithoutBatch
  <1>11. ASSUME Validate \/ NextEpoch \/ Rank \/ Evaluated \/ Finish PROVE Fed'
    <2>1. /\ phase \in {"validate", "next", "rank", "finish"}
          /\ (phase' = "train" => mode' = "train") /\ phase' \in Prepared \ {"validate"}
          /\ UNCHANGED <<job, batch, pairs>>
      BY <1>11 DEF Validate, NextEpoch, Rank, Evaluated, Finish, EpochMode, loopVars, Prepared, Is
    <2>2. phase' = "rank" => mode' = "eval"
      <3>1. CASE NextEpoch
        BY <3>1 DEF NextEpoch
      <3>2. CASE Rank
        BY <3>2 DEF Rank, Fed, ModeFits
      <3> QED BY <1>11, <3>1, <3>2 DEF Validate, Evaluated, Finish
    <2>3. batch' = <<>> /\ pairs' = {} /\ (job.trainer = "real" => job.p >= 1 /\ job.k >= 1)
      BY <2>1 DEF Fed, Prepared
    <2> QED BY <2>1, <2>2, <2>3, WithoutBatch
  <1>12. ASSUME Write PROVE Fed'
    <2>1. phase' = phase /\ UNCHANGED <<job, labels, batch, pairs, mode>>
      BY <1>12 DEF Write, fitVars, loopVars
    <2> QED BY <2>1, SameBatch
  <1>13. ASSUME NextVariant PROVE Fed'
    <2>1. batch' = <<>> /\ pairs' = {} /\ phase' = "build" /\ job.trainer = "reid" /\ job' = [job EXCEPT !.variants = @ - 1]
      BY <1>13 DEF NextVariant
    <2>2. job \in TrainReIDConfig
      BY <2>1, ConfigIs DEF FitInv
    <2>3. job'.trainer = "reid"
      BY <2>1, <2>2 DEF TrainReIDConfig
    <2> QED BY <2>1, <2>3, WithoutBatch
  <1>14. ASSUME Crash PROVE Fed'
    <2>1. phase' = "off" /\ UNCHANGED <<job, labels, batch, pairs, mode>>
      BY <1>14 DEF Crash, fitVars, loopVars
    <2> QED BY <2>1, SameBatch
  <1>15. ASSUME UNCHANGED modelVars PROVE Fed'
    <2>1. phase' = phase /\ UNCHANGED <<job, labels, batch, pairs, mode>>
      BY <1>15 DEF modelVars, fitVars, loopVars
    <2> QED BY <2>1, SameBatch
  <1> QED BY <1>1, <1>2, <1>4, <1>5, <1>6, <1>7, <1>8, <1>9, <1>10, <1>11, <1>12, <1>13, <1>14, <1>15, StepRealFeeds
          DEF ModelNext, Trainer, StartEmbed, StartReid, StartReal, UnknownToken

-----------------------------------------------------------------------------
(* Epochs, steps and the schedule *)

\* The phases after an epoch.
Passed == {"validate", "next", "rank", "finish", "done"}

\* The batches of an epoch.
LoaderBatches == IF job.trainer = "real" THEN job.perEpoch ELSE LoaderLen(Len(train), Size, DropLast)

\* What t batches leave of an epoch: only the last one may be short.
Leaves(t) ==
    IF job.trainer = "real" THEN left \subseteq 1 .. job.perEpoch /\ t + Cardinality(left) = job.perEpoch
    ELSE \/ t * Size + Cardinality(left) = Len(train)
         \/ ~DropLast /\ left = {} /\ (t - 1) * Size < Len(train) /\ Len(train) < t * Size

\* The scheduler has stepped once for every batch of every epoch, and what is served
\* neither repeats a session nor leaves one out that a batch has room for.
Counted ==
    /\ epoch \in 0 .. job.epochs /\ step \in Nat /\ IsInjective(train)
    /\ phase \in {"prepare", "build"} => epoch = 0 /\ step = 0
    /\ phase = "train" => \E t \in Nat : step = (epoch - 1) * LoaderBatches + t /\ Leaves(t)
    /\ phase \in Passed => step = epoch * LoaderBatches
    /\ phase \in Passed \cup {"train"} => epoch >= 1 /\ ~ScheduleRefuses(Warmup, Total)
    /\ phase \in {"rank", "finish", "done"} => epoch = job.epochs
    /\ EpochCovers

\* Python's round is a number.
LEMMA RoundIs == ASSUME NEW n \in Nat, NEW d \in Nat \ {0} PROVE Round(n, d) \in Nat
  <1>1. n \div d \in Nat
    BY SMTT(20)
  <1> DEFINE q == n \div d
  <1>2. Round(n, d) \in {q, q + 1}
    BY DEF Round
  <1> HIDE DEF q
  <1> QED BY <1>1, <1>2 DEF q

\* The steps a schedule is laid out for.
LEMMA LoadersAre ==
    ASSUME FitInv
    PROVE  /\ LoaderBatches \in Nat /\ PerEpoch \in Nat /\ PerEpoch >= LoaderBatches
           /\ LoaderBatches >= 1 => PerEpoch = LoaderBatches
           /\ Total \in Nat /\ Total = PerEpoch * job.epochs /\ Warmup \in Nat
  <1>1. Numbers
    BY NumbersAre
  <1>2. /\ LoaderBatches \in Nat /\ PerEpoch \in Nat /\ PerEpoch >= LoaderBatches
        /\ LoaderBatches >= 1 => PerEpoch = LoaderBatches
    <2>1. CASE job.trainer = "real"
      BY <1>1, <2>1 DEF Numbers, LoaderBatches, PerEpoch
    <2>2. CASE job.trainer # "real"
      <3>1. Len(train) \in Nat /\ Size \in Nat \ {0} /\ DropLast \in BOOLEAN
        BY <2>2, SizeIs
      <3>2. PICK n \in Nat, z \in Nat \ {0} : n = Len(train) /\ z = Size
        BY <3>1
      <3>3. n \div z \in Nat /\ (n + z - 1) \div z \in Nat
        <4>1. n + z - 1 \in Nat
          OBVIOUS
        <4>2. \A x \in Nat : x \div z \in Nat
          BY SMTT(20)
        <4> QED BY <4>1, <4>2
      <3>4. LoaderLen(Len(train), Size, DropLast) \in Nat
        BY <3>1, <3>2, <3>3 DEF LoaderLen
      <3>5. PICK m \in Nat : m = LoaderLen(Len(train), Size, DropLast)
        BY <3>4
      <3>6. LoaderBatches = m /\ PerEpoch = Max({1, m})
        BY <2>2, <3>5 DEF LoaderBatches, PerEpoch
      <3>7. Max({1, m}) = (IF 1 <= m THEN m ELSE 1)
        BY OfTwo
      <3> QED BY <3>6, <3>7
    <2> QED BY <2>1, <2>2
  <1>3. PICK e \in Nat, m \in Nat : e = job.epochs /\ m = PerEpoch
    BY <1>1, <1>2 DEF Numbers
  <1>4. Total \in Nat /\ Total = PerEpoch * job.epochs
    <2>1. m * e \in Nat
      BY SMTT(20)
    <2> QED BY <1>3, <2>1 DEF Total
  <1>5. Warmup \in Nat
    <2>1. PICK w \in Nat, d \in Nat \ {0}, x \in Nat : w = job.warmup.num /\ d = job.warmup.den /\ x = Total
      BY <1>1, <1>4 DEF Numbers
    <2>2. PICK y \in Nat : y = x * w
      <3>1. x * w \in Nat
        BY SMTT(20)
      <3> QED BY <3>1
    <2>3. Round(y, d) \in Nat
      BY RoundIs
    <2>4. y \div d \in Nat
      BY SMTT(20)
    <2> QED BY <2>1, <2>2, <2>3, <2>4 DEF Warmup
  <1> QED BY <1>2, <1>4, <1>5

\* t batches are no more than the epoch has.
LEMMA NoMoreThanLoader ==
    ASSUME FitInv, phase = "train", NEW t \in Nat, Leaves(t)
    PROVE  t <= LoaderBatches
  <1>1. CASE job.trainer = "real"
    <2>1. left \subseteq 1 .. job.perEpoch /\ t + Cardinality(left) = job.perEpoch /\ job.perEpoch \in Nat
      BY <1>1, NumbersAre DEF Leaves, Numbers
    <2>2. Cardinality(left) \in Nat
      <3>1. IsFiniteSet(1 .. job.perEpoch)
        BY <2>1, FS_Interval
      <3>2. IsFiniteSet(left)
        BY <2>1, <3>1, FS_Subset
      <3> QED BY <3>2, FS_CardinalityType
    <2> QED BY <1>1, <2>1, <2>2 DEF LoaderBatches
  <1>2. CASE job.trainer # "real"
    <2>1. Len(train) \in Nat /\ Size \in Nat \ {0} /\ DropLast \in BOOLEAN /\ Cardinality(left) \in Nat
      BY <1>2, SizeIs, LeftIs
    <2>2. PICK n \in Nat, z \in Nat \ {0}, c \in Nat : n = Len(train) /\ z = Size /\ c = Cardinality(left)
      BY <2>1
    <2>3. (t * z + c = n) \/ (~DropLast /\ (t - 1) * z < n)
      BY <1>2, <2>2 DEF Leaves
    <2>4. CASE t * z + c = n
      <3>1. t <= n \div z /\ t <= (n + z - 1) \div z
        <4>1. t * z <= n /\ t * z <= n + z - 1 /\ n + z - 1 \in Nat
          BY <2>4, SMTT(20)
        <4>2. \A x \in Nat : t * z <= x => t <= x \div z
          BY SMTT(20)
        <4> QED BY <4>1, <4>2
      <3> QED BY <1>2, <2>2, <3>1 DEF LoaderBatches, LoaderLen
    <2>5. CASE ~DropLast /\ (t - 1) * z < n
      <3>1. t <= (n + z - 1) \div z
        <4>1. t * z <= n + z - 1 /\ n + z - 1 \in Nat
          BY <2>5, SMTT(20)
        <4>2. \A x \in Nat : t * z <= x => t <= x \div z
          BY SMTT(20)
        <4> QED BY <4>1, <4>2
      <3> QED BY <1>2, <2>2, <2>5, <3>1 DEF LoaderBatches, LoaderLen
    <2> QED BY <2>3, <2>4, <2>5
  <1> QED BY <1>1, <1>2

\* After the last batch of an epoch.
LEMMA EpochEnds ==
    ASSUME FitInv, phase = "train", Exhausted, NEW t \in Nat, Leaves(t)
    PROVE  /\ t = LoaderBatches
           /\ job.trainer # "real" => /\ Cardinality(left) < Size
                                      /\ job.trainer = "reid" /\ Len(train) < 2 * Size => left = {}
  <1>1. CASE job.trainer = "real"
    <2>1. left = {} /\ t + Cardinality(left) = job.perEpoch /\ job.perEpoch \in Nat
      BY <1>1, NumbersAre DEF Exhausted, Leaves, Numbers
    <2>2. Cardinality(left) = 0
      BY <2>1, FS_EmptySet
    <2> QED BY <1>1, <2>1, <2>2 DEF LoaderBatches
  <1>2. CASE job.trainer # "real"
    <2>1. /\ Len(train) \in Nat /\ Size \in Nat \ {0} /\ DropLast \in BOOLEAN
          /\ IsFiniteSet(left) /\ Cardinality(left) \in Nat
          /\ job.trainer = "reid" => DropLast = (Len(train) >= 2 * Size)
      BY <1>2, SizeIs, LeftIs
    <2>2. Served(left, Size, DropLast) = {}
      BY <1>2 DEF Exhausted
    <2>3. Cardinality(left) < Size /\ (~DropLast => left = {} /\ Cardinality(left) = 0)
      BY <2>1, <2>2, ServedAll
    <2>4. (t * Size + Cardinality(left) = Len(train)) \/ (~DropLast /\ (t - 1) * Size < Len(train) /\ Len(train) < t * Size)
      BY <1>2 DEF Leaves
    <2>5. LoaderLen(Len(train), Size, DropLast) = t
      BY <2>1, <2>3, <2>4, LoaderLenIs
    <2>6. Len(train) < 2 * Size => ~(Len(train) >= 2 * Size)
      BY <2>1
    <2> QED BY <1>2, <2>1, <2>3, <2>5, <2>6 DEF LoaderBatches
  <1> QED BY <1>1, <1>2

\* A new epoch has everything left to serve.
LEMMA FullLeaves ==
    ASSUME FitInv, Counted, left' = FullLoader, UNCHANGED <<job, train>>
    PROVE  Leaves(0)'
  <1>1. CASE job.trainer = "real"
    <2>1. PICK n \in Nat : n = job.perEpoch
      BY <1>1, NumbersAre DEF Numbers
    <2>2. Cardinality(1 .. n) = n
      BY FS_Interval
    <2>3. left' = 1 .. n
      BY <1>1, <2>1 DEF FullLoader
    <2>4. 0 + Cardinality(left') = n
      BY <2>2, <2>3
    <2> QED BY <1>1, <2>1, <2>3, <2>4 DEF Leaves
  <1>2. CASE job.trainer # "real"
    <2> DEFINE R == DOMAIN labels \ held
    <2>0. train \in Seq(R)
      BY DEF FitInv, SplitKept
    <2> HIDE DEF R
    <2>1. PICK n \in Nat : n = Len(train) /\ train \in [1 .. n -> R] /\ DOMAIN train = 1 .. n
      BY <2>0
    <2>2. train \in Surjection(1 .. n, Range(train)) /\ train \in Injection(1 .. n, Range(train))
      <3>1. train \in [1 .. n -> Range(train)] /\ \A x \in Range(train) : \E i \in 1 .. n : train[i] = x
        BY <2>1 DEF Range
      <3> QED BY <3>1 DEF Surjection, Injection, Counted
    <2>3. IsFiniteSet(1 .. n) /\ Cardinality(1 .. n) = n
      BY FS_Interval
    <2>4. Cardinality(Range(train)) = n
      BY <2>2, <2>3, FS_Surjection
    <2>5. Size \in Nat /\ Size' = Size
      BY <1>2, SizeIs DEF Size
    <2>6. 0 * Size + n = n
      BY <2>5
    <2>7. left' = Range(train)
      BY <1>2 DEF FullLoader
    <2>8. 0 * Size' + Cardinality(left') = Len(train')
      BY <2>1, <2>4, <2>5, <2>6, <2>7
    <2> QED BY <1>2, <2>8 DEF Leaves
  <1> QED BY <1>1, <1>2

\* A batch of the shuffled loader.
LEMMA BatchLeaves ==
    ASSUME FitInv, phase = "train", job.trainer # "real", NEW b \in Served(left, Size, DropLast),
           left' = left \ Range(b), UNCHANGED <<job, train>>, NEW t \in Nat, Leaves(t)
    PROVE  Leaves(t + 1)'
  <1>1. /\ Len(train) \in Nat /\ Size \in Nat \ {0} /\ DropLast \in BOOLEAN
        /\ left \in SUBSET Nat /\ IsFiniteSet(left) /\ Cardinality(left) \in Nat
    BY SizeIs, LeftIs
  <1>2. /\ b \in Seq(left) /\ Len(b) >= 1
        /\ IF Size <= Cardinality(left) THEN Len(b) = Size ELSE ~DropLast /\ Len(b) = Cardinality(left)
        /\ IsFiniteSet(left \ Range(b)) /\ Cardinality(left \ Range(b)) = Cardinality(left) - Len(b)
    BY <1>1, ServedCounts
  <1>3. PICK n \in Nat, z \in Nat \ {0}, c \in Nat, m \in Nat :
            n = Len(train) /\ z = Size /\ c = Cardinality(left) /\ m = Len(b)
    BY <1>1, <1>2
  <1>4. t * z + c = n
    <2>1. left # {}
      <3>1. 1 \in DOMAIN b
        BY <1>2
      <3>2. b[1] \in left
        BY <1>2, <3>1
      <3> QED BY <3>2
    <2> QED BY <1>3, <2>1 DEF Leaves
  <1>5. Size' = z /\ DropLast' = DropLast /\ Len(train') = n /\ job'.trainer # "real"
    <2>1. Size' = Size
      BY DEF Size
    <2> QED BY <1>3, <2>1 DEF DropLast
  <1>6. Cardinality(left') = c - m /\ IsFiniteSet(left')
    BY <1>2, <1>3
  <1>7. CASE z <= c
    <2>1. m = z
      BY <1>2, <1>3, <1>7
    <2>2. (t + 1) * z + (c - m) = n
      BY <1>4, <2>1, SMTT(20)
    <2> QED BY <1>5, <1>6, <2>2 DEF Leaves
  <1>8. CASE ~(z <= c)
    <2>1. ~DropLast /\ m = c /\ m >= 1
      BY <1>2, <1>3, <1>8
    <2>2. left' = {}
      <3>1. Cardinality(left') = 0
        BY <1>6, <2>1
      <3> QED BY <1>6, <3>1, FS_EmptySet
    <2>3. ((t + 1) - 1) * z < n /\ n < (t + 1) * z
      BY <1>4, <1>8, <2>1, SMTT(20)
    <2> QED BY <1>5, <2>1, <2>2, <2>3 DEF Leaves
  <1> QED BY <1>7, <1>8

\* A batch of the sampler.
LEMMA SamplerLeaves ==
    ASSUME FitInv, job.trainer = "real", left # {}, left' = left \ {Max(left)}, job' = job, NEW t \in Nat, Leaves(t)
    PROVE  Leaves(t + 1)'
  <1>1. PICK n \in Nat : n = job.perEpoch /\ left \subseteq 1 .. n /\ t + Cardinality(left) = n
    BY NumbersAre DEF Numbers, Leaves
  <1>2. IsFiniteSet(left)
    <2>1. IsFiniteSet(1 .. n)
      BY FS_Interval
    <2> QED BY <1>1, <2>1, FS_Subset
  <1>3. Max(left) \in left
    <2> DEFINE M == {n - x : x \in left}
    <2>1. M \in SUBSET Nat /\ M # {}
      <3>1. \A x \in left : x \in 1 .. n
        BY <1>1
      <3>2. \A x \in left : n - x \in Nat
        BY <3>1
      <3> QED BY <3>2
    <2>2. PICK y \in M : \A z \in M : y <= z
      <3> HIDE DEF M
      <3> QED BY <2>1, LowestNumber
    <2>3. PICK x \in left : y = n - x
      BY <2>2
    <2>4. ASSUME NEW z \in left PROVE x >= z
      <3>1. n - x <= n - z
        BY <2>2, <2>3
      <3>2. x \in Nat /\ z \in Nat
        BY <1>1
      <3> QED BY <3>1, <3>2
    <2> QED BY <2>4 DEF Max
  <1>4. Cardinality(left) \in Nat /\ Cardinality(left') = Cardinality(left) - 1
    BY <1>2, <1>3, FS_CardinalityType, FS_RemoveElement
  <1>5. left' \subseteq 1 .. n /\ (t + 1) + Cardinality(left') = n
    <2>1. left' \subseteq 1 .. n
      BY <1>1
    <2>2. (t + 1) + Cardinality(left') = n
      BY <1>1, <1>4
    <2> QED BY <2>1, <2>2
  <1> QED BY <1>1, <1>5 DEF Leaves

\* The loader and the schedule follow from the configuration and the training set.
LEMMA SameLoader ==
    ASSUME UNCHANGED <<job, train>>
    PROVE  UNCHANGED <<Size, DropLast, LoaderBatches, Warmup, Total>>
  <1>1. Size' = Size
    BY DEF Size
  <1>2. DropLast' = DropLast
    BY <1>1 DEF DropLast
  <1>3. LoaderBatches' = LoaderBatches /\ PerEpoch' = PerEpoch
    BY <1>1, <1>2 DEF LoaderBatches, PerEpoch
  <1>4. Total' = Total
    BY <1>3 DEF Total
  <1> QED BY <1>1, <1>2, <1>3, <1>4 DEF Warmup

\* A run that fails or dies.
LEMMA CountedAside ==
    ASSUME Counted, phase' \in {"off", "failed"}, UNCHANGED <<job, train, epoch, step>>
    PROVE  Counted'
  BY DEF Counted, EpochCovers, Passed

\* A step between epochs, or after the last.
LEMMA CountedBetween ==
    ASSUME Counted, phase \in Passed, phase' \in Passed, UNCHANGED <<job, train, epoch, step>>,
           phase' \in {"validate", "next"} => phase \in {"validate", "next"} /\ left' = left,
           phase' \in {"rank", "finish", "done"} => epoch = job.epochs
    PROVE  Counted'
  <1>1. UNCHANGED <<Size, DropLast, LoaderBatches, Warmup, Total>>
    BY SameLoader
  <1>2. EpochCovers'
    BY <1>1 DEF Counted, EpochCovers
  <1>3. phase' \notin {"prepare", "build", "train"}
    BY DEF Passed
  <1>4. /\ epoch' \in 0 .. job'.epochs /\ step' \in Nat /\ IsInjective(train') /\ step' = epoch' * LoaderBatches'
        /\ epoch' >= 1 /\ ~ScheduleRefuses(Warmup', Total')
    BY <1>1 DEF Counted
  <1> QED BY <1>2, <1>3, <1>4 DEF Counted

\* A split serves each session once.
LEMMA SplitOnce ==
    ASSUME NEW corpus \in Seq(DOMAIN Kit), NEW H, Split(H, corpus)
    PROVE  IsInjective(train')
  <1> DEFINE rest == DOMAIN corpus \ H
  <1>1. train' = Ascending(rest) /\ rest \in SUBSET DOMAIN corpus
    BY DEF Split
  <1> HIDE DEF rest
  <1>2. rest \in SUBSET Nat /\ IsFiniteSet(rest)
    BY <1>1, PositionsAre
  <1>3. Orders(Ascending(rest), rest)
    BY <1>2, AscendingOrders
  <1> QED BY <1>1, <1>3 DEF Orders

LEMMA PreparedCounts ==
    ASSUME Counted, phase = "prepare", phase' = "build", UNCHANGED <<job, epoch, step>>, IsInjective(train')
    PROVE  Counted'
  BY DEF Counted, EpochCovers, Passed

\* A step of the optimizer is one step of the scheduler.
LEMMA CountedStep ==
    ASSUME FitInv, Counted, phase = "train", phase' = "train", UNCHANGED <<job, train, epoch>>, step' = step + 1,
           \A t \in Nat : Leaves(t) => Leaves(t + 1)'
    PROVE  Counted'
  <1>1. UNCHANGED <<Size, DropLast, LoaderBatches, Warmup, Total>>
    BY SameLoader
  <1>2. PICK t \in Nat : step = (epoch - 1) * LoaderBatches + t /\ Leaves(t)
    BY DEF Counted
  <1>3. Leaves(t + 1)' /\ t + 1 \in Nat
    BY <1>2
  <1>4. step' = (epoch' - 1) * LoaderBatches' + (t + 1)
    <2>1. PICK e \in Nat : e = (epoch - 1) * LoaderBatches
      <3>1. PICK p \in Nat, n \in Nat : p = epoch - 1 /\ n = LoaderBatches
        <4>1. epoch >= 1 /\ epoch \in Nat
          BY NumbersAre DEF Counted, Numbers
        <4>2. LoaderBatches \in Nat
          BY LoadersAre
        <4> QED BY <4>1, <4>2
      <3>2. p * n \in Nat
        BY SMTT(20)
      <3> QED BY <3>1, <3>2
    <2>2. step + 1 = e + (t + 1)
      BY <1>2, <2>1
    <2>3. (epoch' - 1) * LoaderBatches' = e
      BY <1>1, <2>1
    <2> QED BY <2>2, <2>3
  <1>5. step' \in Nat
    BY DEF Counted
  <1>6. \E u \in Nat : step' = (epoch' - 1) * LoaderBatches' + u /\ Leaves(u)'
    BY <1>3, <1>4
  <1>7. /\ epoch' \in 0 .. job'.epochs /\ IsInjective(train') /\ epoch' >= 1 /\ ~ScheduleRefuses(Warmup', Total')
    BY <1>1 DEF Counted
  <1> QED BY <1>5, <1>6, <1>7 DEF Counted, EpochCovers, Passed

\* The first epoch, and the next one.
LEMMA CountedEpoch ==
    ASSUME FitInv, Counted, phase \in {"build", "next"}, phase' = "train", UNCHANGED <<job, train, step>>,
           epoch' = epoch + 1, epoch' <= job.epochs, left' = FullLoader, ~ScheduleRefuses(Warmup, Total)
    PROVE  Counted'
  <1>1. UNCHANGED <<Size, DropLast, LoaderBatches, Warmup, Total>>
    BY SameLoader
  <1>2. Leaves(0)'
    BY FullLeaves
  <1>3. epoch \in Nat /\ LoaderBatches \in Nat /\ job.epochs \in Nat /\ step \in Nat
    BY NumbersAre, LoadersAre DEF Counted, Numbers
  <1>4. step = epoch * LoaderBatches
    BY <1>3 DEF Counted, Passed
  <1>5. step' = (epoch' - 1) * LoaderBatches' + 0
    <2>1. epoch' - 1 = epoch
      BY <1>3
    <2>2. step + 0 = step
      BY <1>3
    <2> QED BY <1>1, <1>4, <2>1, <2>2
  <1>6. \E u \in Nat : step' = (epoch' - 1) * LoaderBatches' + u /\ Leaves(u)'
    BY <1>2, <1>5
  <1>7. /\ epoch' \in 0 .. job'.epochs /\ step' \in Nat /\ IsInjective(train') /\ epoch' >= 1
        /\ ~ScheduleRefuses(Warmup', Total')
    BY <1>1, <1>3 DEF Counted
  <1> QED BY <1>6, <1>7 DEF Counted, EpochCovers, Passed

LEMMA CountedKeeps == FitInv /\ Counted /\ [ModelNext]_modelVars => Counted'
  <1> SUFFICES ASSUME FitInv, Counted, [ModelNext]_modelVars PROVE Counted'
    OBVIOUS
  <1>1. ASSUME NEW j \in Jobs, Start(j) PROVE Counted'
    <2>1. phase' = "prepare" /\ job' = j /\ epoch' = 0 /\ step' = 0 /\ train' = <<>>
      BY <1>1 DEF Start
    <2>2. j.epochs \in Nat
      <3>1. CASE j \in TrainConfig
        BY <3>1 DEF TrainConfig
      <3>2. CASE j \in TrainReIDConfig
        BY <3>2 DEF TrainReIDConfig
      <3>3. CASE j \in TrainRealReIDConfig
        BY <3>3 DEF TrainRealReIDConfig
      <3> QED BY <3>1, <3>2, <3>3, ModelsAssumption
    <2>3. IsInjective(train')
      BY <2>1 DEF IsInjective
    <2> QED BY <2>1, <2>2, <2>3 DEF Counted, EpochCovers, Passed
  <1>2. ASSUME Fail PROVE Counted'
    <2>1. phase' = "failed" /\ UNCHANGED <<job, train, epoch, step>>
      BY <1>2 DEF Fail, fitVars, loopVars
    <2> QED BY <2>1, CountedAside
  <1>3. ASSUME PrepareEmbed, ~Fail PROVE Counted'
    <2>1. phase = "prepare" /\ phase' = "build" /\ UNCHANGED <<job, epoch, step>> /\ \E H : Split(H, labels)
      BY <1>3 DEF PrepareEmbed, loopVars
    <2>2. labels \in Seq(DOMAIN Kit)
      BY DEF FitInv, SplitKept
    <2> QED BY <2>1, <2>2, SplitOnce, PreparedCounts
  <1>4. ASSUME PrepareReid PROVE Counted'
    <2>1. phase = "prepare" /\ phase' = "build" /\ UNCHANGED <<job, epoch, step>> /\ \E H : Split(H, labels)
      BY <1>4 DEF PrepareReid, loopVars
    <2>2. labels \in Seq(DOMAIN Kit)
      BY DEF FitInv, SplitKept
    <2> QED BY <2>1, <2>2, SplitOnce, PreparedCounts
  <1>5. ASSUME PrepareReal, ~Fail PROVE Counted'
    <2> DEFINE kept == KeepFrequent(labels, job.minSessions)
    <2>1. phase = "prepare" /\ phase' = "build" /\ UNCHANGED <<job, epoch, step>> /\ \E H : Split(H, kept)
      BY <1>5 DEF PrepareReal, loopVars
    <2>2. kept \in Seq(DOMAIN Kit)
      <3>1. labels \in Seq(DOMAIN Kit)
        BY DEF FitInv, SplitKept
      <3> QED BY <3>1, KeptIs
    <2> HIDE DEF kept
    <2> QED BY <2>1, <2>2, SplitOnce, PreparedCounts
  <1>6. ASSUME Build, ~Fail PROVE Counted'
    <2>1. /\ phase = "build" /\ phase' = "train" /\ epoch' = 1 /\ left' = FullLoader /\ UNCHANGED <<job, train, step>>
          /\ ~ScheduleRefuses(Warmup, Total)
      BY <1>6 DEF Build, fitVars
    <2>2. PICK e \in Nat, n \in Nat : e = job.epochs /\ n = PerEpoch /\ Total = n * e /\ epoch = 0
      BY <2>1, NumbersAre, LoadersAre DEF Numbers, Counted
    <2>3. n * e > 0
      <3>1. n * e \in Nat
        BY SMTT(20)
      <3> QED BY <2>1, <2>2, <3>1 DEF ScheduleRefuses
    <2>4. e >= 1
      <3> SUFFICES ASSUME e = 0 PROVE FALSE
        OBVIOUS
      <3>1. n * 0 = 0
        OBVIOUS
      <3> QED BY <2>3, <3>1
    <2>5. epoch' = epoch + 1 /\ epoch' <= job.epochs
      BY <2>1, <2>2, <2>4
    <2> QED BY <2>1, <2>5, CountedEpoch
  <1>7. ASSUME phase = "train", job.trainer # "real", NEW b \in Served(left, Size, DropLast), TakeBatch(b) PROVE Counted'
    <2>1. left' = left \ Range(b) /\ step' = step + 1 /\ UNCHANGED <<job, phase, train, epoch>>
      BY <1>7 DEF TakeBatch, Optimize, fitVars
    <2>2. \A t \in Nat : Leaves(t) => Leaves(t + 1)'
      BY <1>7, <2>1, BatchLeaves
    <2> QED BY <1>7, <2>1, <2>2, CountedStep
  <1>8. CASE StepEmbed \/ StepReid
    <2>1. phase = "train" /\ job.trainer # "real"
      BY <1>8 DEF StepEmbed, StepReid, Is
    <2>2. Fail \/ \E b \in Served(left, Size, DropLast) : TakeBatch(b)
      BY <1>8 DEF StepEmbed, StepReid
    <2> QED BY <1>2, <1>7, <2>1, <2>2
  <1>9. CASE StepReal
    <2>1. /\ phase = "train" /\ job.trainer = "real" /\ left # {} /\ left' = left \ {Max(left)}
          /\ step' = step + 1 /\ UNCHANGED <<job, phase, train, epoch>>
      BY <1>9 DEF StepReal, Is, Optimize, fitVars
    <2>2. \A t \in Nat : Leaves(t) => Leaves(t + 1)'
      BY <2>1, SamplerLeaves
    <2> QED BY <2>1, <2>2, CountedStep
  <1>10. ASSUME EndEpoch PROVE Counted'
    <2>1. /\ phase = "train" /\ Exhausted /\ phase' \in {"validate", "next"} /\ UNCHANGED <<job, train, epoch, step, left>>
      BY <1>10 DEF EndEpoch, fitVars
    <2>2. UNCHANGED <<Size, DropLast, LoaderBatches, Warmup, Total>>
      BY <2>1, SameLoader
    <2>3. PICK t \in Nat : step = (epoch - 1) * LoaderBatches + t /\ Leaves(t)
      BY <2>1 DEF Counted
    <2>4. /\ t = LoaderBatches
          /\ job.trainer # "real" => /\ Cardinality(left) < Size
                                     /\ job.trainer = "reid" /\ Len(train) < 2 * Size => left = {}
      BY <2>1, <2>3, EpochEnds
    <2>5. step = epoch * LoaderBatches
      <3>1. PICK p \in Nat, n \in Nat : p = epoch - 1 /\ n = LoaderBatches /\ epoch = p + 1
        <4>1. epoch >= 1 /\ epoch \in Nat
          BY <2>1, NumbersAre DEF Counted, Numbers
        <4>2. LoaderBatches \in Nat
          BY LoadersAre
        <4> QED BY <4>1, <4>2
      <3>2. p * n + n = (p + 1) * n
        BY SMTT(20)
      <3> QED BY <2>3, <2>4, <3>1, <3>2
    <2>6. EpochCovers'
      BY <2>1, <2>2, <2>4 DEF EpochCovers
    <2>7. /\ epoch' \in 0 .. job'.epochs /\ step' \in Nat /\ IsInjective(train') /\ step' = epoch' * LoaderBatches'
          /\ epoch' >= 1 /\ ~ScheduleRefuses(Warmup', Total')
      BY <2>1, <2>2, <2>5 DEF Counted
    <2> QED BY <2>1, <2>6, <2>7 DEF Counted
  <1>11. ASSUME NextEpoch, MoreEpochs PROVE Counted'
    <2>1. /\ phase = "next" /\ phase' = "train" /\ epoch' = epoch + 1 /\ left' = FullLoader
          /\ UNCHANGED <<job, train, step>>
      BY <1>11 DEF NextEpoch, fitVars
    <2>2. ~ScheduleRefuses(Warmup, Total) /\ epoch \in Nat /\ job.epochs \in Nat
      BY <2>1, NumbersAre DEF Counted, Passed, Numbers
    <2>3. epoch' <= job.epochs
      BY <1>11, <2>1, <2>2 DEF MoreEpochs
    <2> QED BY <2>1, <2>2, <2>3, CountedEpoch
  <1>12. ASSUME NextEpoch, ~MoreEpochs PROVE Counted'
    <2>1. phase = "next" /\ phase' \in {"finish", "rank"} /\ UNCHANGED <<job, train, epoch, step>>
      BY <1>12 DEF NextEpoch, fitVars
    <2>2. epoch = job.epochs
      <3>1. epoch \in 0 .. job.epochs /\ job.epochs \in Nat
        BY NumbersAre DEF Counted, Numbers
      <3> QED BY <1>12, <3>1 DEF MoreEpochs
    <2> QED BY <2>1, <2>2, CountedBetween DEF Passed
  <1>13. ASSUME Validate PROVE Counted'
    <2>1. phase = "validate" /\ phase' = "next" /\ UNCHANGED <<job, train, epoch, step, left>>
      BY <1>13 DEF Validate, fitVars
    <2> QED BY <2>1, CountedBetween DEF Passed
  <1>14. ASSUME Rank \/ Evaluated \/ Finish PROVE Counted'
    <2>1. /\ phase \in {"rank", "finish"} /\ phase' \in {"rank", "finish", "done"}
          /\ UNCHANGED <<job, train, epoch, step>>
      BY <1>14 DEF Rank, Evaluated, Finish, fitVars, loopVars
    <2>2. epoch = job.epochs
      BY <2>1 DEF Counted
    <2> QED BY <2>1, <2>2, CountedBetween DEF Passed
  <1>15. ASSUME UNCHANGED <<job, phase, train, epoch, step, left>> PROVE Counted'
    <2>1. UNCHANGED <<Size, DropLast, LoaderBatches, Warmup, Total>>
      BY <1>15, SameLoader
    <2>2. EpochCovers'
      BY <1>15, <2>1 DEF Counted, EpochCovers
    <2>3. \A t \in Nat : Leaves(t) => Leaves(t)'
      BY <1>15, <2>1 DEF Leaves
    <2> QED BY <1>15, <2>1, <2>2, <2>3 DEF Counted
  <1>16. ASSUME Write \/ UNCHANGED modelVars PROVE Counted'
    <2>1. UNCHANGED <<job, phase, train, epoch, step, left>>
      BY <1>16 DEF Write, modelVars, fitVars, loopVars
    <2> QED BY <1>15, <2>1
  <1>17. ASSUME NextVariant PROVE Counted'
    <2>1. /\ phase' = "build" /\ epoch' = 0 /\ step' = 0 /\ UNCHANGED train
          /\ job.trainer = "reid" /\ job' = [job EXCEPT !.variants = @ - 1]
      BY <1>17 DEF NextVariant, fitVars
    <2>2. job \in TrainReIDConfig
      BY <2>1, ConfigIs DEF FitInv
    <2>3. job'.epochs \in Nat
      BY <2>1, <2>2 DEF TrainReIDConfig
    <2> QED BY <2>1, <2>3 DEF Counted, EpochCovers, Passed
  <1>18. ASSUME Crash PROVE Counted'
    <2>1. phase' = "off" /\ UNCHANGED <<job, train, epoch, step>>
      BY <1>18 DEF Crash, fitVars, loopVars
    <2> QED BY <2>1, CountedAside
  <1> QED BY <1>1, <1>2, <1>3, <1>4, <1>5, <1>6, <1>8, <1>9, <1>10, <1>11, <1>12, <1>13, <1>14, <1>16, <1>17, <1>18
          DEF ModelNext, Trainer, StartEmbed, StartReid, StartReal, UnknownToken

\* What is still to be written are files.
LEMMA TodoIs == ASSUME FitInv PROVE Range(todo) \subseteq Files
  <1>1. \/ todo \in {<<>>, <<"tokenizer">>, <<"best">>, <<"history">>, <<"summary">>}
        \/ todo \in {<<"metrics", "history">>, <<"model", "summary">>}
        \/ todo \in {<<"last", "metrics", "history">>, <<"tokenizer", "model", "summary">>}
    BY DEF FitInv, Pending
  <1> QED BY <1>1 DEF Range, Files

\* The steps taken are within the schedule, and at the end they are all of it.
LEMMA ScheduleIs == ASSUME FitInv, Counted PROVE ScheduleFits
  <1>1. /\ LoaderBatches \in Nat /\ PerEpoch \in Nat /\ PerEpoch >= LoaderBatches
        /\ LoaderBatches >= 1 => PerEpoch = LoaderBatches
        /\ Total \in Nat /\ Total = PerEpoch * job.epochs /\ Warmup \in Nat
    BY LoadersAre
  <1>2. PICK n \in Nat, m \in Nat, e \in Nat, d \in Nat : n = LoaderBatches /\ m = PerEpoch /\ e = epoch /\ d = job.epochs
    <2>1. job.epochs \in Nat
      BY NumbersAre DEF Numbers
    <2>2. epoch \in 0 .. job.epochs
      BY DEF Counted
    <2>3. epoch \in Nat
      BY <2>1, <2>2
    <2> QED BY <1>1, <2>1, <2>3
  <1>3. step \in Nat /\ e <= d /\ n <= m /\ (n >= 1 => m = n)
    BY <1>1, <1>2 DEF Counted
  <1>4. e * n \in Nat /\ e * n <= m * d /\ m * d = Total
    <2>1. e * n \in Nat /\ e * n <= m * d
      BY <1>3, SMTT(20)
    <2> QED BY <1>1, <1>2, <2>1
  <1>5. CASE phase \in {"prepare", "build"}
    <2>1. step = 0
      BY <1>5 DEF Counted
    <2> QED BY <1>1, <1>5, <2>1 DEF ScheduleFits
  <1>6. CASE phase = "train"
    <2>1. PICK t \in Nat : step = (epoch - 1) * LoaderBatches + t /\ Leaves(t)
      BY <1>6 DEF Counted
    <2>2. t <= n
      BY <1>2, <1>6, <2>1, NoMoreThanLoader
    <2>3. PICK p \in Nat : p = e - 1
      <3>1. epoch >= 1
        BY <1>6 DEF Counted
      <3> QED BY <1>2, <3>1
    <2>4. p * n + t <= e * n
      BY <2>2, <2>3, SMTT(20)
    <2>5. step = p * n + t
      BY <1>2, <2>1, <2>3
    <2>6. step <= Total
      BY <1>1, <1>3, <1>4, <2>4, <2>5
    <2> QED BY <1>6, <2>6 DEF ScheduleFits
  <1>7. CASE phase \in Passed
    <2>1. step = e * n
      BY <1>2, <1>7 DEF Counted
    <2>2. step <= Total
      BY <1>4, <2>1
    <2>3. ASSUME phase \in {"finish", "done"}, step > 0
          PROVE  LET rate == LrLambda(step, Warmup, Total) IN ~rate.warm /\ (Warmup < Total => rate.num = rate.den)
      <3>1. e = d
        BY <1>2, <2>3 DEF Counted
      <3>2. n >= 1
        <4> SUFFICES ASSUME n = 0 PROVE FALSE
          OBVIOUS
        <4>1. e * 0 = 0
          OBVIOUS
        <4> QED BY <1>3, <2>1, <2>3, <4>1
      <3>3. step = Total
        <4>1. m = n
          BY <1>3, <3>2
        <4>2. e * n = n * e
          BY SMTT(20)
        <4> QED BY <1>4, <2>1, <3>1, <4>1, <4>2
      <3>4. Warmup <= Total
        BY <1>1, <1>7 DEF Counted, ScheduleRefuses
      <3> DEFINE den == Max({1, Total - Warmup})
                 num == Min({step - Warmup, den})
      <3>5. LrLambda(step, Warmup, Total) = [warm |-> FALSE, num |-> num, den |-> den]
        <4>1. ~(Warmup > 0 /\ step < Warmup)
          BY <1>1, <3>3, <3>4
        <4> QED BY <4>1 DEF LrLambda
      <3>6. Warmup < Total => num = den
        <4> SUFFICES ASSUME Warmup < Total PROVE num = den
          OBVIOUS
        <4>1. PICK g \in Nat : g = Total - Warmup /\ g >= 1
          BY <1>1
        <4>2. den = g
          <5>1. Max({1, g}) = IF 1 <= g THEN g ELSE 1
            BY OfTwo
          <5> QED BY <4>1, <5>1
        <4> HIDE DEF den
        <4>3. Min({g, g}) = g
          BY OfTwo
        <4> QED BY <3>3, <4>1, <4>2, <4>3
      <3> HIDE DEF num, den
      <3> QED BY <3>5, <3>6
    <2> QED BY <2>2, <2>3 DEF ScheduleFits
  <1>8. CASE phase \in {"off", "failed"}
    BY <1>8 DEF ScheduleFits
  <1>9. phase \in {"prepare", "build", "train", "off", "failed"} \cup Passed
    BY DEF FitInv, Configured, Ended, Passed
  <1> QED BY <1>5, <1>6, <1>7, <1>8, <1>9

\* For every configuration, corpus and order of the steps: full batches, or p identities with
\* k rows each; pairs that belong together; the right mode; epochs that leave out less than
\* a batch; and a schedule of exactly the steps taken (_run_epoch, fit_reid, fit_real_reid,
\* PKBatchSampler, the losses and cosine_warmup_schedule).
THEOREM StepsAlwaysFit == ModelSpec => []StepsFit
  <1>1. ModelInit => Fed /\ Counted
    <2> SUFFICES ASSUME ModelInit PROVE Fed /\ Counted
      OBVIOUS
    <2>1. /\ phase = "off" /\ train = <<>> /\ epoch = 0 /\ step = 0 /\ batch = <<>> /\ pairs = {}
      BY DEF ModelInit
    <2>2. Fed
      BY <2>1 DEF Fed, BatchShape, PositivesMatch, ModeFits, Prepared
    <2>3. job.epochs \in Nat
      <3>1. FitInv
        BY ModelInitially
      <3> QED BY <3>1, NumbersAre DEF Numbers
    <2>4. Counted
      BY <2>1, <2>3 DEF Counted, EpochCovers, Passed, IsInjective
    <2> QED BY <2>2, <2>4
  <1>2. FitInv /\ Fed /\ Counted => StepsFit
    <2> SUFFICES ASSUME FitInv, Fed, Counted PROVE StepsFit
      OBVIOUS
    <2>1. ModelTypeOK
      <3>1. Range(todo) \subseteq Files
        BY TodoIs
      <3>2. held \subseteq DOMAIN labels /\ Range(train) \subseteq DOMAIN labels
        BY DEF FitInv, SplitKept, Range
      <3>3. Range(losses) \subseteq Losses \cup {NaN, 0}
        <4>1. losses \in Seq(Losses \cup {0, NaN})
          BY DEF FitInv, BestKept
        <4> QED BY <4>1 DEF Range
      <3> QED BY <3>1, <3>2, <3>3 DEF ModelTypeOK, FitInv, Configured, FilesTyped, Counted
    <2>2. BatchShape /\ PositivesMatch /\ ModeFits /\ EpochCovers
      BY DEF Fed, Counted
    <2>3. ScheduleFits
      BY ScheduleIs
    <2> QED BY <2>1, <2>2, <2>3 DEF StepsFit
  <1> QED BY <1>1, <1>2, FitInvariance, FedKeeps, CountedKeeps, PTL DEF ModelSpec

=============================================================================
