---------------------------- MODULE SensorProofs ----------------------------
(***************************************************************************)
(* Proofs about two parts of a sensor: the session record of an SSH        *)
(* connection, for any number of channels and any values of the caps, and  *)
(* the guards of the completion engine that answers its commands, for any  *)
(* sessions, commands, providers and threads, and any limits.              *)
(***************************************************************************)
EXTENDS SshConnection, CompletionEngine, FiniteSetTheorems, TLAPS

-----------------------------------------------------------------------------
(* The session record of a connection *)

\* Channels run only while handleConnection serves or waits for them.
ChannelsFollowMain ==
    /\ main \in {"handshake", "answering"} => \A c \in Channels : pc[c] = "unopened"
    /\ main \in {"finalize", "save", "push", "done"} => Open = {}

Unsaved == saved = <<>> /\ pushed = <<>>

SavedOnce == outcome # "active" /\ \E ok \in BOOLEAN : saved = <<[doc |-> Snapshot, ok |-> ok]>>

\* What was saved and pushed follows from where handleConnection is: a record
\* that is given away has its outcome and is the one the connection holds.
SavedFollowsMain ==
    /\ main \notin {"push", "done"} => Unsaved
    /\ main = "save" => outcome # "active"
    /\ main = "push" => SavedOnce /\ pushed = <<>>
    /\ main = "done" => Unsaved \/ (SavedOnce /\ pushed = <<Snapshot>>)

\* A channel that goes on to its bait events has its command in the record.
BaitFollowsCommand == \A c \in Channels : pc[c] = "bait" => cmd[c].id \in Stored

ConnectionInv == ConnectionTypeOK /\ BaitHasCommand /\ CapsHold /\ BaitFollowsCommand /\ ChannelsFollowMain /\ SavedFollowsMain

Running(c) == pc[c] \notin {"unopened", "done"}

-----------------------------------------------------------------------------
(* Lemmas *)

\* While a channel runs the record has not been given away.
LEMMA RunningIsUnsaved ==
    ASSUME ConnectionInv, NEW c \in Channels, Running(c)
    PROVE  main \in {"serving", "waiting"} /\ Unsaved
<1>1. main \notin {"finalize", "save", "push", "done"}
  BY DEF ConnectionInv, ChannelsFollowMain, Running, Open
<1>2. main \notin {"handshake", "answering"}
  BY DEF ConnectionInv, ChannelsFollowMain, Running
<1>. QED  BY <1>1, <1>2 DEF ConnectionInv, ConnectionTypeOK, SavedFollowsMain

\* The channels that run are finitely many, and fewer of them are no more.
LEMMA OpenCount ==
    /\ IsFiniteSet(Open) /\ Cardinality(Open) \in Nat
    /\ \A T : T \subseteq Open => Cardinality(T) <= Cardinality(Open) /\ Cardinality(T) \in Nat
<1>1. IsFiniteSet(Open)
  BY LimitsAssumption, FS_Subset DEF Open
<1>2. Cardinality(Open) \in Nat
  BY <1>1, FS_CardinalityType
<1>3. ASSUME NEW T, T \subseteq Open
      PROVE  Cardinality(T) <= Cardinality(Open) /\ Cardinality(T) \in Nat
  BY <1>1, <1>3, FS_Subset, FS_CardinalityType
<1>. QED  BY <1>1, <1>2, <1>3

\* A step of a running channel that leaves the commands alone keeps the
\* invariant if it keeps the types, adds no bait and stays out of "bait".
LEMMA ChannelKeeps ==
    ASSUME ConnectionInv, NEW c \in Channels, Running(c), NEW l \in Labels \ {"unopened", "bait"}, Goto(c, l),
           UNCHANGED <<rest, commands, inputBytes, bait>>,
           \A d \in Channels \ {c} : cmd'[d] = cmd[d],
           ConnectionTypeOK'
    PROVE  ConnectionInv'
<1>. USE DEF ConnectionInv
<1>1. /\ main' = main /\ saved' = saved /\ pushed' = pushed
      /\ main \in {"serving", "waiting"} /\ Unsaved
  BY RunningIsUnsaved DEF rest
<1>2. ChannelsFollowMain' /\ SavedFollowsMain'
  BY <1>1 DEF ChannelsFollowMain, SavedFollowsMain, Unsaved
<1>3. pc' = [pc EXCEPT ![c] = l] /\ pc \in [Channels -> Labels]
  BY DEF Goto, ConnectionTypeOK
<1>4. Stored' = Stored
  BY DEF Stored
<1>5. BaitHasCommand' /\ BaitFollowsCommand'
  BY <1>3, <1>4 DEF BaitHasCommand, BaitFollowsCommand
<1>6. Open' \subseteq Open
  BY <1>3 DEF Open, Running
<1>7. Cardinality(Open') <= Cardinality(Open) /\ Cardinality(Open') \in Nat /\ Cardinality(Open) \in Nat
  BY <1>6, OpenCount
<1>8. Cardinality(Open') <= MaxChannels
  BY <1>7, LimitsAssumption DEF CapsHold
<1>9. CapsHold'
  BY <1>8 DEF CapsHold
<1>. QED  BY <1>2, <1>5, <1>9

-----------------------------------------------------------------------------
(* The steps of a channel *)

\* A channel that ends may record an outcome and close the connection.
LEMMA LeaveStep ==
    ASSUME ConnectionInv, NEW c \in Channels, Running(c), Leave(c),
           UNCHANGED <<rest, commands, inputBytes, bait, rejected>>,
           conn' \in {conn, "server"},
           outcome' \in Outcomes
    PROVE  ConnectionInv'
<1>1. ConnectionTypeOK
  BY DEF ConnectionInv
<1>2. /\ pc' \in [Channels -> Labels] /\ mode' \in [Channels -> {"none", "exec", "shell"}]
      /\ issued' \in Nat
  BY <1>1 DEF ConnectionTypeOK, Leave, Goto, Labels
<1>3. cmd' \in [Channels -> Command]
  BY <1>1 DEF ConnectionTypeOK, Leave, Command, NoCommand
<1>4. result' \in [Channels -> [bait : BOOLEAN, exit : BOOLEAN]]
  BY <1>1 DEF ConnectionTypeOK, Leave, NoResult
<1>5. ConnectionTypeOK'
  BY <1>1, <1>2, <1>3, <1>4 DEF ConnectionTypeOK, rest
<1>6. Goto(c, "done") /\ "done" \in Labels \ {"unopened", "bait"} /\ \A d \in Channels \ {c} : cmd'[d] = cmd[d]
  BY <1>1 DEF Leave, Labels, ConnectionTypeOK
<1>. QED  BY <1>5, <1>6, ChannelKeeps

\* Requests that start a subsystem or a shell, the shell's check of the limit,
\* and a run touch only the channel's own state.
LEMMA GoOnStep ==
    ASSUME ConnectionInv, NEW c \in Channels,
           StartSftp(c) \/ StartShell(c) \/ Prompt(c) \/ Run(c) \/ Hang(c)
    PROVE  ConnectionInv'
<1>1. ConnectionTypeOK /\ Running(c)
  BY DEF ConnectionInv, Running, StartSftp, StartShell, Prompt, Run, Hang
<1>2. PICK l \in {"finish", "prompt", "limit", "read", "append", "stuck"} : Goto(c, l)
  BY DEF StartSftp, StartShell, Prompt, Run, Hang
<1>3. /\ UNCHANGED <<conn, rest, cmd, issued, record>>
  BY DEF StartSftp, StartShell, Prompt, Run, Hang
<1>4. pc' \in [Channels -> Labels]
  BY <1>1, <1>2 DEF ConnectionTypeOK, Goto, Labels
<1>5. mode' \in [Channels -> {"none", "exec", "shell"}]
  BY <1>1 DEF ConnectionTypeOK, StartSftp, StartShell, Prompt, Run, Hang
<1>6. result' \in [Channels -> [bait : BOOLEAN, exit : BOOLEAN]]
  <2>1. CASE result' = result
    BY <2>1, <1>1 DEF ConnectionTypeOK
  <2>2. CASE \E b, e \in BOOLEAN : result' = [result EXCEPT ![c] = [bait |-> b, exit |-> e]]
    BY <2>2, <1>1 DEF ConnectionTypeOK
  <2>. QED  BY <2>1, <2>2 DEF StartSftp, StartShell, Prompt, Run, Hang
<1>7. ConnectionTypeOK'
  BY <1>1, <1>3, <1>4, <1>5, <1>6 DEF ConnectionTypeOK, rest, record
<1>8. l \in Labels \ {"unopened", "bait"} /\ UNCHANGED <<rest, commands, inputBytes, bait>>
  BY <1>2, <1>3 DEF Labels, record
<1>. QED  BY <1>1, <1>2, <1>3, <1>7, <1>8, ChannelKeeps

\* A command line is given the next event id.
LEMMA TakeUpStep ==
    ASSUME ConnectionInv, NEW c \in Channels, NEW n \in InputSizes, StartExec(c, n) \/ ReadLine(c, n)
    PROVE  ConnectionInv'
<1>1. ConnectionTypeOK /\ Running(c) /\ TakeUp(c, n) /\ UNCHANGED <<conn, rest, result, record>>
  BY DEF ConnectionInv, Running, StartExec, ReadLine
<1>2. pc' \in [Channels -> Labels]
  BY <1>1 DEF ConnectionTypeOK, Goto, TakeUp, Labels
<1>3. mode' \in [Channels -> {"none", "exec", "shell"}]
  BY <1>1 DEF ConnectionTypeOK, StartExec, ReadLine
<1>4. [id |-> issued + 1, n |-> n] \in Command /\ issued' \in Nat
  BY <1>1, LimitsAssumption DEF ConnectionTypeOK, Command, TakeUp
<1>5. cmd' \in [Channels -> Command] /\ \A d \in Channels \ {c} : cmd'[d] = cmd[d]
  BY <1>1, <1>4 DEF ConnectionTypeOK, TakeUp
<1>6. ConnectionTypeOK'
  BY <1>1, <1>2, <1>3, <1>4, <1>5 DEF ConnectionTypeOK, rest, record
<1>7. Goto(c, "run") /\ "run" \in Labels \ {"unopened", "bait"} /\ UNCHANGED <<rest, commands, inputBytes, bait>>
  BY <1>1 DEF TakeUp, Labels, record
<1>. QED  BY <1>1, <1>5, <1>6, <1>7, ChannelKeeps

\* A refused subsystem is counted.
LEMMA RefuseSubsystemStep ==
    ASSUME ConnectionInv, NEW c \in Channels, RefuseSubsystem(c)
    PROVE  ConnectionInv'
<1>. USE DEF ConnectionInv
<1>1. UNCHANGED <<conn, rest, local, commands, inputBytes, bait, outcome>> /\ AppendRejected /\ Running(c)
  BY DEF RefuseSubsystem, Running
<1>2. rejected' \in 0 .. MaxRejected
  BY <1>1, LimitsAssumption DEF AppendRejected, ConnectionTypeOK
<1>3. ConnectionTypeOK'
  BY <1>1, <1>2 DEF ConnectionTypeOK, rest, local
<1>4. BaitHasCommand' /\ CapsHold' /\ BaitFollowsCommand' /\ ChannelsFollowMain' /\ SavedFollowsMain'
  BY <1>1 DEF BaitHasCommand, CapsHold, BaitFollowsCommand, ChannelsFollowMain, SavedFollowsMain,
     Stored, Open, Unsaved, SavedOnce, Snapshot, rest, local
<1>. QED  BY <1>3, <1>4

\* An appended command keeps the ones before it.
LEMMA StoredGrows ==
    ASSUME ConnectionTypeOK, NEW x \in Command, commands' = Append(commands, x)
    PROVE  Stored' = Stored \cup {x.id} /\ Len(commands') = Len(commands) + 1
<1>1. /\ Len(commands') = Len(commands) + 1 /\ Len(commands) \in Nat
      /\ \A i \in 1 .. Len(commands) : commands'[i] = commands[i]
      /\ commands'[Len(commands) + 1] = x
  BY DEF ConnectionTypeOK
<1>. QED  BY <1>1 DEF Stored

\* The test and the append are one critical section, so the caps hold however
\* many channels passed the test before.
LEMMA AppendCommandStep ==
    ASSUME ConnectionInv, NEW c \in Channels, AppendCommand(c)
    PROVE  ConnectionInv'
<1>. USE DEF ConnectionInv
<1>1. Running(c) /\ UNCHANGED <<conn, rest, mode, cmd, result, issued, bait, rejected, outcome>>
  BY DEF AppendCommand, Running
<1>2. CASE ~HasRoom(c)
  <2>1. Goto(c, "over") /\ UNCHANGED <<rest, commands, inputBytes, bait>>
    BY <1>1, <1>2 DEF AppendCommand
  <2>2. ConnectionTypeOK'
    BY <1>1, <2>1 DEF ConnectionTypeOK, Goto, Labels, rest
  <2>3. "over" \in Labels \ {"unopened", "bait"}
    BY DEF Labels
  <2>. QED  BY <1>1, <2>1, <2>2, <2>3, ChannelKeeps
<1>3. CASE HasRoom(c)
  <2>1. /\ commands' = Append(commands, cmd[c]) /\ inputBytes' = inputBytes + cmd[c].n /\ Goto(c, "bait")
    BY <1>3 DEF AppendCommand
  <2>2. cmd[c] \in Command /\ cmd[c].n \in Nat
    BY DEF ConnectionTypeOK, Command
  <2>3. Stored' = Stored \cup {cmd[c].id} /\ Len(commands') = Len(commands) + 1
    BY <2>1, <2>2, StoredGrows
  <2>4. ConnectionTypeOK'
    <3>1. commands' \in Seq(Command) /\ inputBytes' \in Nat
      BY <2>1, <2>2 DEF ConnectionTypeOK
    <3>2. pc' \in [Channels -> Labels]
      BY <2>1 DEF ConnectionTypeOK, Goto, Labels
    <3>. QED  BY <1>1, <3>1, <3>2 DEF ConnectionTypeOK, rest
  <2>5. pc' = [pc EXCEPT ![c] = "bait"] /\ pc \in [Channels -> Labels]
    BY <2>1 DEF Goto, ConnectionTypeOK
  <2>6. BaitHasCommand' /\ BaitFollowsCommand'
    BY <1>1, <2>3, <2>5 DEF BaitHasCommand, BaitFollowsCommand
  <2>7. Open' = Open
    BY <1>1, <2>5 DEF Open, Running
  <2>8. CapsHold'
    <3>1. Len(commands) \in Nat /\ Len(commands) < MaxCommands /\ inputBytes' <= MaxInputBytes
      BY <1>3, <2>1 DEF HasRoom, ConnectionTypeOK
    <3>2. Len(commands') <= MaxCommands
      BY <3>1, <2>3, LimitsAssumption
    <3>. QED  BY <3>1, <3>2, <2>7 DEF CapsHold
  <2>9. /\ main' = main /\ saved' = saved /\ pushed' = pushed
        /\ main \in {"serving", "waiting"} /\ Unsaved
    BY <1>1, RunningIsUnsaved DEF rest
  <2>10. ChannelsFollowMain' /\ SavedFollowsMain'
    BY <2>9 DEF ChannelsFollowMain, SavedFollowsMain, Unsaved
  <2>. QED  BY <2>4, <2>6, <2>8, <2>10
<1>. QED  BY <1>2, <1>3

\* The bait event names the command the same goroutine has appended.
LEMMA AppendBaitEventsStep ==
    ASSUME ConnectionInv, NEW c \in Channels, AppendBaitEvents(c)
    PROVE  ConnectionInv'
<1>. USE DEF ConnectionInv
<1>1. /\ Running(c) /\ pc[c] = "bait"
      /\ UNCHANGED <<conn, rest, mode, cmd, result, issued, commands, inputBytes, rejected, outcome>>
  BY DEF AppendBaitEvents, Running
<1>2. PICK l \in {"prompt", "finish"} : Goto(c, l)
  BY DEF AppendBaitEvents
<1>3. cmd[c].id \in Stored /\ cmd[c].id \in Nat /\ Stored' = Stored
  BY <1>1 DEF BaitFollowsCommand, Stored, ConnectionTypeOK, Command
<1>4. bait' \subseteq bait \cup {cmd[c].id}
  BY DEF AppendBaitEvents
<1>5. pc' = [pc EXCEPT ![c] = l] /\ pc \in [Channels -> Labels]
  BY <1>2 DEF Goto, ConnectionTypeOK
<1>6. ConnectionTypeOK'
  <2>1. pc' \in [Channels -> Labels] /\ bait' \subseteq Nat
    BY <1>3, <1>4, <1>5 DEF Labels, ConnectionTypeOK
  <2>. QED  BY <2>1, <1>1 DEF ConnectionTypeOK, rest
<1>7. BaitHasCommand' /\ BaitFollowsCommand'
  BY <1>1, <1>3, <1>4, <1>5 DEF BaitHasCommand, BaitFollowsCommand
<1>8. Open' = Open
  BY <1>1, <1>5 DEF Open
<1>9. CapsHold'
  BY <1>1, <1>8 DEF CapsHold
<1>10. /\ main' = main /\ saved' = saved /\ pushed' = pushed
       /\ main \in {"serving", "waiting"} /\ Unsaved
  BY <1>1, RunningIsUnsaved DEF rest
<1>11. ChannelsFollowMain' /\ SavedFollowsMain'
  BY <1>10 DEF ChannelsFollowMain, SavedFollowsMain, Unsaved
<1>. QED  BY <1>6, <1>7, <1>9, <1>11

\* Any step of a channel's goroutine.
LEMMA ChannelStepKeeps ==
    ASSUME ConnectionInv, NEW c \in Channels, ChannelStep(c) \/ ClientStep(c) \/ EndOfInput(c)
    PROVE  ConnectionInv'
<1>1. CASE RequestsEnd(c) \/ ShellLimit(c) \/ ReadEOF(c) \/ ReadError(c) \/ RunPanics(c) \/ OverLimit(c) \/ Finish(c)
  <2>1. Running(c) /\ Leave(c)
    BY <1>1 DEF Running, RequestsEnd, ShellLimit, ReadEOF, ReadError, RunPanics, OverLimit, Finish
  <2>2. UNCHANGED <<rest, commands, inputBytes, bait, rejected>>
    BY <1>1 DEF record, RequestsEnd, ShellLimit, ReadEOF, ReadError, RunPanics, OverLimit, Finish
  <2>3. conn' \in {conn, "server"}
    BY <1>1 DEF RequestsEnd, ShellLimit, ReadEOF, ReadError, RunPanics, OverLimit, Finish
  <2>4. outcome \in Outcomes
    BY DEF ConnectionInv, ConnectionTypeOK
  <2>5. outcome' \in Outcomes
    BY <1>1, <2>4 DEF record, Outcomes, RecordOutcome, RequestsEnd, ShellLimit, ReadEOF, ReadError,
       RunPanics, OverLimit, Finish
  <2>. QED  BY <2>1, <2>2, <2>3, <2>5, LeaveStep
<1>2. CASE StartSftp(c) \/ StartShell(c) \/ Prompt(c) \/ Run(c) \/ Hang(c)
  BY <1>2, GoOnStep
<1>3. CASE \E n \in InputSizes : StartExec(c, n) \/ ReadLine(c, n)
  BY <1>3, TakeUpStep
<1>4. CASE RefuseSubsystem(c) \/ AppendCommand(c) \/ AppendBaitEvents(c)
  BY <1>4, RefuseSubsystemStep, AppendCommandStep, AppendBaitEventsStep
<1>. QED  BY <1>1, <1>2, <1>3, <1>4 DEF ChannelStep, ClientStep, EndOfInput

-----------------------------------------------------------------------------
(* The steps of the connection *)

\* The channel that is opened is the only one that was not running.
LEMMA OpenSessionStep ==
    ASSUME ConnectionInv, NEW c \in Channels, OpenSession(c)
    PROVE  ConnectionInv'
<1>. USE DEF ConnectionInv
<1>1. /\ main = "serving" /\ pc[c] = "unopened" /\ pc' = [pc EXCEPT ![c] = "requests"]
      /\ UNCHANGED <<conn, main, attempts, mode, cmd, result, issued, record, saved, pushed>>
      /\ Cardinality(Open) < MaxChannels /\ pc \in [Channels -> Labels]
  BY DEF OpenSession, Goto, ConnectionTypeOK
<1>2. ConnectionTypeOK'
  BY <1>1 DEF ConnectionTypeOK, Labels, record
<1>3. Stored' = Stored
  BY <1>1 DEF Stored, record
<1>4. BaitHasCommand' /\ BaitFollowsCommand'
  BY <1>1, <1>3 DEF BaitHasCommand, BaitFollowsCommand, record
<1>5. Open' = Open \cup {c}
  BY <1>1 DEF Open
<1>6. Cardinality(Open') <= Cardinality(Open) + 1 /\ Cardinality(Open') \in Nat
  <2>1. IsFiniteSet(Open) /\ Cardinality(Open) \in Nat
    BY OpenCount
  <2>2. IsFiniteSet(Open') /\ (Cardinality(Open') = Cardinality(Open) + 1 \/ Cardinality(Open') = Cardinality(Open))
    BY <1>5, <2>1, FS_AddElement
  <2>. QED  BY <2>1, <2>2
<1>7. CapsHold'
  <2>1. Cardinality(Open') <= MaxChannels
    BY <1>1, <1>6, OpenCount, LimitsAssumption
  <2>. QED  BY <2>1, <1>1 DEF CapsHold, record
<1>8. ChannelsFollowMain' /\ SavedFollowsMain'
  BY <1>1 DEF ChannelsFollowMain, SavedFollowsMain, Unsaved
<1>. QED  BY <1>2, <1>4, <1>7, <1>8

\* A step that leaves the channels and the commands alone keeps what is said of
\* them.
LEMMA MainKeeps ==
    ASSUME ConnectionInv, UNCHANGED <<local, commands, inputBytes, bait>>
    PROVE  BaitHasCommand' /\ CapsHold' /\ BaitFollowsCommand'
BY DEF ConnectionInv, BaitHasCommand, CapsHold, BaitFollowsCommand, Stored, Open, local

\* The handshake runs before any channel, and an outcome is recorded before the
\* record is saved.
LEMMA HandshakeStep ==
    ASSUME ConnectionInv, (\E ok \in BOOLEAN : Attempt(ok)) \/ Answer \/ HandshakeFails
    PROVE  ConnectionInv'
<1>. USE DEF ConnectionInv
<1>1. /\ main \in {"handshake", "answering"} /\ Unsaved
      /\ UNCHANGED <<local, commands, inputBytes, bait, rejected, saved, pushed>>
      /\ main' \in {"handshake", "answering", "serving", "finalize", "done"}
      /\ conn' \in {conn, "server"}
  BY DEF Attempt, Answer, HandshakeFails, record, SavedFollowsMain
<1>2. attempts' \in Seq(BOOLEAN)
  <2>1. CASE attempts' = attempts
    BY <2>1 DEF ConnectionTypeOK
  <2>2. CASE \E ok \in BOOLEAN : attempts' = Append(attempts, ok)
    BY <2>2 DEF ConnectionTypeOK
  <2>. QED  BY <2>1, <2>2 DEF Attempt, Answer, HandshakeFails
<1>3. outcome' \in Outcomes
  <2>1. outcome \in Outcomes
    BY DEF ConnectionTypeOK
  <2>. QED  BY <2>1 DEF Attempt, Answer, HandshakeFails, RecordOutcome, record, Outcomes
<1>4. ConnectionTypeOK'
  BY <1>1, <1>2, <1>3 DEF ConnectionTypeOK, local
<1>5. BaitHasCommand' /\ CapsHold' /\ BaitFollowsCommand'
  BY <1>1, MainKeeps
<1>6. (\A c \in Channels : pc'[c] = "unopened") /\ Open' = {}
  BY <1>1 DEF ChannelsFollowMain, Open, local
<1>7. ChannelsFollowMain' /\ SavedFollowsMain'
  BY <1>1, <1>6 DEF ChannelsFollowMain, SavedFollowsMain, Unsaved
<1>. QED  BY <1>4, <1>5, <1>7

\* While it serves, nothing has been given away; wg.Wait lets it go on when no
\* channel runs.
LEMMA ServeStep ==
    ASSUME ConnectionInv, OpenOtherChannel \/ StopAccepting \/ WaitForChannels
    PROVE  ConnectionInv'
<1>. USE DEF ConnectionInv
<1>1. /\ main \in {"serving", "waiting"} /\ Unsaved
      /\ UNCHANGED <<conn, attempts, local, commands, inputBytes, bait, outcome, saved, pushed>>
      /\ main' \in {"serving", "waiting"} \/ (main' = "finalize" /\ Open = {})
  BY DEF OpenOtherChannel, StopAccepting, WaitForChannels, record, SavedFollowsMain
<1>2. rejected' \in 0 .. MaxRejected
  BY LimitsAssumption DEF OpenOtherChannel, StopAccepting, WaitForChannels, record, AppendRejected, ConnectionTypeOK
<1>3. ConnectionTypeOK'
  BY <1>1, <1>2 DEF ConnectionTypeOK, local
<1>4. BaitHasCommand' /\ CapsHold' /\ BaitFollowsCommand'
  BY <1>1, MainKeeps
<1>5. Open' = Open
  BY <1>1 DEF Open, local
<1>6. ChannelsFollowMain' /\ SavedFollowsMain'
  BY <1>1, <1>5 DEF ChannelsFollowMain, SavedFollowsMain, Unsaved
<1>. QED  BY <1>3, <1>4, <1>6

\* finalize, SaveSession and PushSession run when no channel is left.
LEMMA FinalizeStep ==
    ASSUME ConnectionInv, Finalize \/ SaveSession \/ PushSession
    PROVE  ConnectionInv'
<1>. USE DEF ConnectionInv
<1>1. /\ main \in {"finalize", "save", "push"} /\ main' \in {"save", "push", "done"}
      /\ UNCHANGED <<conn, attempts, local, commands, inputBytes, bait, rejected>>
  BY DEF Finalize, SaveSession, PushSession, record
<1>2. outcome' \in Outcomes
  <2>1. outcome \in Outcomes
    BY DEF ConnectionTypeOK
  <2>. QED  BY <2>1 DEF Finalize, SaveSession, PushSession, RecordOutcome, record, Outcomes
<1>3. ConnectionTypeOK'
  BY <1>1, <1>2 DEF ConnectionTypeOK, local
<1>4. BaitHasCommand' /\ CapsHold' /\ BaitFollowsCommand'
  BY <1>1, MainKeeps
<1>5. Open' = {}
  BY <1>1 DEF Open, local, ChannelsFollowMain
<1>6. ChannelsFollowMain'
  BY <1>1, <1>5 DEF ChannelsFollowMain
<1>7. SavedFollowsMain'
  <2>1. CASE Finalize
    BY <2>1 DEF Finalize, SavedFollowsMain, Unsaved, RecordOutcome
  <2>2. CASE SaveSession
    <3>1. Unsaved /\ outcome # "active" /\ Snapshot' = Snapshot /\ outcome' = outcome /\ pushed' = pushed
      BY <2>2 DEF SaveSession, SavedFollowsMain, Snapshot, record
    <3>2. PICK ok \in BOOLEAN : saved' = Append(saved, [doc |-> Snapshot, ok |-> ok])
      BY <2>2 DEF SaveSession
    <3>3. saved' = <<[doc |-> Snapshot', ok |-> ok]>>
      BY <3>1, <3>2 DEF Unsaved
    <3>4. SavedOnce'
      BY <3>1, <3>3 DEF SavedOnce
    <3>. QED  BY <2>2, <3>1, <3>4 DEF SaveSession, SavedFollowsMain, Unsaved
  <2>3. CASE PushSession
    <3>1. /\ Snapshot' = Snapshot /\ outcome' = outcome /\ saved' = saved
          /\ SavedOnce /\ pushed = <<>> /\ pushed' = Append(pushed, Snapshot)
      BY <2>3 DEF PushSession, SavedFollowsMain, Snapshot, record
    <3>2. SavedOnce' /\ pushed' = <<Snapshot'>>
      BY <3>1 DEF SavedOnce
    <3>. QED  BY <2>3, <3>2 DEF PushSession, SavedFollowsMain
  <2>. QED  BY <2>1, <2>2, <2>3
<1>. QED  BY <1>3, <1>4, <1>6, <1>7

-----------------------------------------------------------------------------
(* The invariant *)

\* Every step of the connection, of its channels and of the client keeps it.
LEMMA ConnectionStep == ASSUME ConnectionInv, [ConnectionNext]_connectionVars PROVE ConnectionInv'
<1>1. CASE (\E ok \in BOOLEAN : Attempt(ok)) \/ MainStep \/ OpenOtherChannel
  BY <1>1, HandshakeStep, ServeStep, FinalizeStep DEF MainStep
<1>2. CASE \E c \in Channels : OpenSession(c) \/ ChannelStep(c) \/ ClientStep(c) \/ EndOfInput(c)
  BY <1>2, OpenSessionStep, ChannelStepKeeps
<1>3. CASE (\E how \in {"client", "idle"} : ConnectionEnds(how)) \/ UNCHANGED connectionVars
  <2>1. UNCHANGED <<main, attempts, local, record, saved, pushed>> /\ conn' \in {conn, "client", "idle"}
    BY <1>3 DEF ConnectionEnds, connectionVars
  <2>2. ConnectionTypeOK'
    BY <2>1 DEF ConnectionInv, ConnectionTypeOK, local, record
  <2>3. BaitHasCommand' /\ CapsHold' /\ BaitFollowsCommand'
    BY <2>1, MainKeeps DEF record
  <2>4. ChannelsFollowMain' /\ SavedFollowsMain'
    BY <2>1 DEF ConnectionInv, ChannelsFollowMain, SavedFollowsMain, Open, Unsaved, SavedOnce, Snapshot, local, record
  <2>. QED  BY <2>2, <2>3, <2>4 DEF ConnectionInv
<1>. QED  BY <1>1, <1>2, <1>3 DEF ConnectionNext, Done

\* It holds when a connection is accepted.
LEMMA ConnectionInitially == ConnectionInit => ConnectionInv
<1>. SUFFICES ASSUME ConnectionInit PROVE ConnectionInv
  OBVIOUS
<1>1. ConnectionTypeOK
  <2>1. <<>> \in Seq(BOOLEAN) /\ <<>> \in Seq(Command)
    OBVIOUS
  <2>2. NoCommand \in Command /\ NoResult \in [bait : BOOLEAN, exit : BOOLEAN] /\ 0 \in 0 .. MaxRejected
    BY LimitsAssumption DEF NoCommand, Command, NoResult
  <2>. QED  BY <2>1, <2>2 DEF ConnectionInit, ConnectionTypeOK, Labels, Outcomes
<1>2. Open = {} /\ Len(commands) = 0
  BY DEF ConnectionInit, Open
<1>3. CapsHold
  BY <1>2, FS_EmptySet, LimitsAssumption DEF ConnectionInit, CapsHold
<1>4. BaitHasCommand /\ BaitFollowsCommand /\ ChannelsFollowMain /\ SavedFollowsMain
  BY <1>2 DEF ConnectionInit, BaitHasCommand, BaitFollowsCommand, ChannelsFollowMain, SavedFollowsMain, Unsaved
<1>. QED  BY <1>1, <1>3, <1>4 DEF ConnectionInv

\* So it holds throughout.
LEMMA ConnectionInvariance == ConnectionSpec => []ConnectionInv
BY ConnectionInitially, ConnectionStep, PTL DEF ConnectionSpec

\* For any number of channels and any caps: the caps of a session hold over all
\* its channels, no bait event lacks its command, and what is saved and pushed is
\* given away once, with its outcome, and never changed afterwards.
THEOREM RecordIsSound == ConnectionSpec => []RecordSound
<1>1. ConnectionInv => SavedIsFinal
  <2>. SUFFICES ASSUME ConnectionInv PROVE SavedIsFinal
    OBVIOUS
  <2>1. CASE Unsaved
    BY <2>1 DEF Unsaved, SavedIsFinal
  <2>2. CASE SavedOnce /\ pushed \in {<<>>, <<Snapshot>>}
    <3>1. outcome # "active" /\ Len(saved) = 1 /\ saved[1].doc = Snapshot
      BY <2>2 DEF SavedOnce
    <3>2. Len(pushed) <= 1 /\ \A i \in 1 .. Len(pushed) : pushed[i] = Snapshot
      <4>1. CASE pushed = <<>>
        BY <4>1
      <4>2. CASE pushed = <<Snapshot>>
        BY <4>2
      <4>. QED  BY <2>2, <4>1, <4>2
    <3>. QED  BY <3>1, <3>2 DEF SavedIsFinal
  <2>. QED  BY <2>1, <2>2 DEF ConnectionInv, SavedFollowsMain, ConnectionTypeOK
<1>2. ConnectionInv => RecordSound
  BY <1>1 DEF ConnectionInv, RecordSound
<1>. QED  BY <1>2, ConnectionInvariance, PTL

-----------------------------------------------------------------------------
(* The guards of the completion engine *)

CallsOf(s) == {j \in 1 .. Len(calls) : calls[j].session = s}

\* The session's entry was touched at its last call, or later.
SeenAtCalls == \A j \in 1 .. Len(calls) : calls[j].at <= lastSeen[calls[j].session]

\* _recent_calls misses only calls that have left the window.
RecentCovers == \A j \in (1 .. Len(calls)) \ recent : calls[j].at + RateWindow <= now

Past(j) == calls[j].at + SessionTTL < now

\* A session has paid for all its calls but those that are further back than the
\* time to live; when it is not tracked, that is all of them.
BudgetCovers ==
    \A s \in Sessions :
        /\ s \in tracked => \E B \in SUBSET CallsOf(s) :
                               Cardinality(B) = spent[s] /\ \A j \in CallsOf(s) \ B : Past(j)
        /\ s \notin tracked => \A j \in CallsOf(s) : Past(j)

\* The breaker counts the failures since the last success, and from the
\* threshold on it is open for Cooldown after the last of them.
BreakerFollows ==
    /\ results \in Seq([failed : BOOLEAN, at : Nat])
    /\ failures <= Len(results)
    /\ failures < Len(results) => ~results[Len(results) - failures].failed
    /\ failures >= FailureThreshold => openUntil >= results[Len(results)].at + Cooldown

\* A call under way is for a session and a command.
CallsTyped == \A t \in Threads : call[t].on => call[t].session \in Sessions /\ call[t].command \in Commands

Budgets == SeenAtCalls /\ RecentCovers /\ BudgetCovers /\ RateBounded /\ SessionBudgetBounded

Inv == TypeOK /\ Budgets /\ BreakerFollows /\ CallsTyped

-----------------------------------------------------------------------------
(* Lemmas *)

\* The limits are numbers.
LEMMA Limits ==
    /\ MaxPerSession \in Nat /\ RateLimit \in Nat /\ RateWindow \in Nat /\ SessionTTL \in Nat
    /\ Cooldown \in Nat /\ FailureThreshold \in Nat \ {0}
BY EngineAssumption

\* A set of calls is finite, and one more call makes it at most one larger.
LEMMA OneMoreCall ==
    ASSUME NEW n \in Nat, NEW F \in SUBSET (1 .. n), NEW x, NEW S \in SUBSET (F \cup {x})
    PROVE  /\ IsFiniteSet(F) /\ Cardinality(F) \in Nat
           /\ Cardinality(S) \in Nat /\ Cardinality(S) <= Cardinality(F) + 1
           /\ S \subseteq F => Cardinality(S) <= Cardinality(F)
           /\ x \notin F => Cardinality(F \cup {x}) = Cardinality(F) + 1
<1>1. IsFiniteSet(F) /\ Cardinality(F) \in Nat
  <2>1. IsFiniteSet(1 .. n)
    BY FS_Interval
  <2>. QED  BY <2>1, FS_Subset, FS_CardinalityType
<1>2. /\ IsFiniteSet(F \cup {x}) /\ Cardinality(F \cup {x}) \in Nat
      /\ Cardinality(F \cup {x}) = IF x \in F THEN Cardinality(F) ELSE Cardinality(F) + 1
  BY <1>1, FS_AddElement, FS_CardinalityType
<1>3. IsFiniteSet(S) /\ Cardinality(S) <= Cardinality(F \cup {x}) /\ Cardinality(S) \in Nat
  BY <1>2, FS_Subset, FS_CardinalityType
<1>4. S \subseteq F => Cardinality(S) <= Cardinality(F)
  BY <1>1, FS_Subset
<1>. QED  BY <1>1, <1>2, <1>3, <1>4

\* A call is added at the end of the history.
LEMMA CallAdded ==
    ASSUME TypeOK, NEW s \in Sessions, calls' = Append(calls, [session |-> s, at |-> now])
    PROVE  /\ Len(calls) \in Nat /\ Len(calls') = Len(calls) + 1
           /\ calls' \in Seq([session : Sessions, at : 0 .. now])
           /\ calls'[Len(calls) + 1].session = s /\ calls'[Len(calls) + 1].at = now
           /\ \A j \in 1 .. Len(calls) : calls'[j] = calls[j]
BY DEF TypeOK

\* The calls of the history are typed.
LEMMA CallType ==
    ASSUME TypeOK
    PROVE  Len(calls) \in Nat /\ \A j \in 1 .. Len(calls) : calls[j].session \in Sessions /\ calls[j].at \in 0 .. now
<1>. DEFINE R == [session : Sessions, at : 0 .. now]
<1>1. calls \in Seq(R)
  BY DEF TypeOK
<1>. HIDE DEF R
<1>2. Len(calls) \in Nat /\ \A j \in 1 .. Len(calls) : calls[j] \in R
  BY <1>1
<1>. QED  BY <1>2 DEF R

\* What Enter does to the sessions' entries.
LEMMA EnterTypes ==
    ASSUME TypeOK, NEW s \in Sessions, Enter(s), now' = now
    PROVE  /\ tracked' = Fresh \cup {s} /\ Fresh \subseteq tracked /\ tracked' \subseteq Sessions
           /\ cache' \in [Sessions -> [Commands -> Outputs \cup {None}]]
           /\ lastSeen' \in [Sessions -> 0 .. now]
           /\ \A x \in Sessions : lastSeen'[x] = IF x = s THEN now ELSE lastSeen[x]
           /\ Spent \in [Sessions -> 0 .. MaxPerSession]
           /\ \A x \in Sessions : Spent[x] = IF x \in Fresh THEN spent[x] ELSE 0
           /\ \A x \in Sessions : lastSeen[x] <= now
<1>1. Fresh \subseteq tracked /\ tracked' = Fresh \cup {s} /\ tracked' \subseteq Sessions
  BY DEF TypeOK, Enter, Fresh
<1>2. NoCache \in [Commands -> Outputs \cup {None}]
  BY DEF NoCache
<1>3. cache' \in [Sessions -> [Commands -> Outputs \cup {None}]]
  BY <1>2 DEF TypeOK, Enter
<1>4. lastSeen' \in [Sessions -> 0 .. now] /\ \A x \in Sessions : lastSeen'[x] = IF x = s THEN now ELSE lastSeen[x]
  BY DEF TypeOK, Enter
<1>5. Spent \in [Sessions -> 0 .. MaxPerSession] /\ \A x \in Sessions : Spent[x] = IF x \in Fresh THEN spent[x] ELSE 0
  BY Limits DEF TypeOK, Spent
<1>. QED  BY <1>1, <1>3, <1>4, <1>5 DEF TypeOK

\* After the eviction: a session that is found again has paid for its calls of
\* the time to live, and one that is not has none of them.
LEMMA FoundOrPast ==
    ASSUME TypeOK, SeenAtCalls, BudgetCovers, NEW x \in Sessions
    PROVE  /\ x \in Fresh => \E B \in SUBSET CallsOf(x) :
                                Cardinality(B) = spent[x] /\ \A j \in CallsOf(x) \ B : Past(j)
           /\ x \notin Fresh => \A j \in CallsOf(x) : Past(j)
<1>1. CASE x \in Fresh
  BY <1>1 DEF BudgetCovers, Fresh
<1>2. CASE x \in tracked \ Fresh
  <2>1. lastSeen[x] + SessionTTL < now
    BY <1>2, Limits DEF Fresh, TypeOK
  <2>2. \A j \in CallsOf(x) : calls[j].at <= lastSeen[x] /\ calls[j].at \in Nat
    BY CallType DEF SeenAtCalls, CallsOf
  <2>3. \A j \in CallsOf(x) : Past(j)
    <3>1. lastSeen[x] \in Nat /\ now \in Nat
      BY DEF TypeOK
    <3>. QED  BY <2>1, <2>2, <3>1, Limits DEF Past
  <2>. QED  BY <1>2, <2>3
<1>3. CASE x \notin tracked
  BY <1>3 DEF BudgetCovers, Fresh
<1>. QED  BY <1>1, <1>2, <1>3

\* An empty set of calls pays for none.
LEMMA NoneSpent ==
    ASSUME NEW x, \A j \in CallsOf(x) : Past(j)
    PROVE  \E B \in SUBSET CallsOf(x) : Cardinality(B) = 0 /\ \A j \in CallsOf(x) \ B : Past(j)
<1>1. Cardinality({}) = 0 /\ {} \in SUBSET CallsOf(x)
  BY FS_EmptySet
<1>. QED  BY <1>1

-----------------------------------------------------------------------------
(* Budgets *)

\* A request that makes no call.
LEMMA VisitBudgets ==
    ASSUME Inv, NEW s \in Sessions, Enter(s), spent' = Spent, recent' \in {recent, Recent},
           calls' = calls, now' = now
    PROVE  Budgets' /\ spent' \in [Sessions -> 0 .. MaxPerSession]
           /\ recent' \subseteq 1 .. Len(calls) /\ Cardinality(recent') <= RateLimit
<1>. USE DEF Inv, Budgets
<1>1. /\ tracked' = Fresh \cup {s} /\ Spent \in [Sessions -> 0 .. MaxPerSession]
      /\ \A x \in Sessions : lastSeen'[x] = IF x = s THEN now ELSE lastSeen[x]
      /\ \A x \in Sessions : Spent[x] = IF x \in Fresh THEN spent[x] ELSE 0
      /\ \A x \in Sessions : lastSeen[x] <= now
  BY EnterTypes
<1>2. now \in Nat /\ Len(calls) \in Nat
      /\ \A j \in 1 .. Len(calls) : calls[j].session \in Sessions /\ calls[j].at \in 0 .. now
  BY CallType DEF TypeOK
<1>3. SeenAtCalls'
  BY <1>1, <1>2 DEF SeenAtCalls
<1>4. recent \subseteq 1 .. Len(calls) /\ recent' \subseteq recent /\ Cardinality(recent) <= RateLimit
  BY DEF TypeOK, Recent
<1>5. recent' \subseteq 1 .. Len(calls) /\ Cardinality(recent') <= RateLimit
  <2>1. recent' \in SUBSET (recent \cup {0})
    BY <1>4
  <2>2. Cardinality(recent) \in Nat /\ Cardinality(recent') \in Nat /\ Cardinality(recent') <= Cardinality(recent)
    BY <1>2, <1>4, <2>1, OneMoreCall
  <2>. QED  BY <1>4, <2>2, Limits
<1>6. RecentCovers'
  BY <1>2, <1>4, Limits DEF RecentCovers, Recent
<1>7. BudgetCovers'
  <2>1. SUFFICES ASSUME NEW x \in Sessions
                 PROVE  /\ x \in tracked' => \E B \in SUBSET CallsOf(x) :
                                Cardinality(B) = spent'[x] /\ \A j \in CallsOf(x) \ B : Past(j)
                        /\ x \notin tracked' => \A j \in CallsOf(x) : Past(j)
    BY DEF BudgetCovers, CallsOf, Past
  <2>2. CASE x \in Fresh
    BY <2>2, <1>1, FoundOrPast
  <2>3. CASE x \notin Fresh
    <3>1. spent'[x] = 0 /\ \A j \in CallsOf(x) : Past(j)
      BY <2>3, <1>1, FoundOrPast
    <3>. QED  BY <3>1, NoneSpent
  <2>. QED  BY <2>2, <2>3
<1>8. RateBounded' /\ SessionBudgetBounded'
  BY DEF RateBounded, SessionBudgetBounded, CallsWithin
<1>. QED  BY <1>1, <1>3, <1>5, <1>6, <1>7, <1>8

\* A call is paid for by its session and counted in the window before it is made.
LEMMA CallBudgets ==
    ASSUME Inv, NEW t \in Threads, NEW s \in Sessions, NEW c \in Commands, StartCall(t, s, c)
    PROVE  Budgets' /\ spent' \in [Sessions -> 0 .. MaxPerSession]
           /\ recent' \subseteq 1 .. Len(calls') /\ Cardinality(recent') <= RateLimit
<1>. USE DEF Inv, Budgets
<1>0. PICK n \in Nat : n = Len(calls) + 1
  BY CallType
<1>1. /\ Enter(s) /\ now' = now /\ spent' = [Spent EXCEPT ![s] = @ + 1] /\ Spent[s] < MaxPerSession
      /\ recent' = Recent \cup {n} /\ Cardinality(Recent) < RateLimit
      /\ calls' = Append(calls, [session |-> s, at |-> now])
  <2>1. ~(Spent[s] >= MaxPerSession)
    BY DEF StartCall, Refuses
  <2>2. Spent[s] \in Nat
    BY EnterTypes DEF StartCall
  <2>. QED  BY <1>0, <2>1, <2>2, Limits DEF StartCall
<1>2. /\ tracked' = Fresh \cup {s} /\ Spent \in [Sessions -> 0 .. MaxPerSession]
      /\ \A x \in Sessions : lastSeen'[x] = IF x = s THEN now ELSE lastSeen[x]
      /\ \A x \in Sessions : Spent[x] = IF x \in Fresh THEN spent[x] ELSE 0
      /\ \A x \in Sessions : lastSeen[x] <= now
  BY <1>1, EnterTypes
<1>3. now \in Nat /\ Len(calls) \in Nat
      /\ \A j \in 1 .. Len(calls) : calls[j].session \in Sessions /\ calls[j].at \in 0 .. now
  BY CallType DEF TypeOK
<1>4. /\ Len(calls') = n /\ calls'[n].session = s /\ calls'[n].at = now
      /\ \A j \in 1 .. Len(calls) : calls'[j] = calls[j]
  BY <1>0, <1>1, CallAdded
<1>5. n \in Nat /\ 1 .. n = (1 .. Len(calls)) \cup {n} /\ n \notin 1 .. Len(calls)
  BY <1>0, <1>3
<1>6. SeenAtCalls'
  <2>1. calls'[n].at <= lastSeen'[calls'[n].session]
    BY <1>2, <1>3, <1>4
  <2>2. \A j \in 1 .. Len(calls) : calls'[j].at <= lastSeen'[calls'[j].session]
    BY <1>2, <1>3, <1>4 DEF SeenAtCalls
  <2>. QED  BY <1>4, <1>5, <2>1, <2>2 DEF SeenAtCalls
<1>7. Recent \subseteq 1 .. Len(calls) /\ Cardinality(Recent) \in Nat
      /\ Cardinality(Recent \cup {n}) <= RateLimit
  <2>1. Recent \subseteq 1 .. Len(calls)
    BY DEF Recent, TypeOK
  <2>2. Cardinality(Recent) \in Nat /\ Cardinality(Recent \cup {n}) = Cardinality(Recent) + 1
    BY <1>3, <1>5, <2>1, OneMoreCall
  <2>. QED  BY <1>1, <2>1, <2>2, Limits
<1>8. \A j \in (1 .. Len(calls)) \ Recent : calls[j].at + RateWindow <= now
  BY <1>3, Limits DEF RecentCovers, Recent
<1>9. RecentCovers'
  BY <1>1, <1>4, <1>5, <1>8 DEF RecentCovers
<1>10. PICK B \in SUBSET CallsOf(s) : Cardinality(B) = Spent[s] /\ \A j \in CallsOf(s) \ B : Past(j)
  <2>1. CASE s \in Fresh
    BY <2>1, <1>2, FoundOrPast
  <2>2. CASE s \notin Fresh
    BY <2>2, <1>2, FoundOrPast, NoneSpent
  <2>. QED  BY <2>1, <2>2
<1>11. B \subseteq 1 .. Len(calls) /\ Cardinality(B \cup {n}) = Spent[s] + 1
  BY <1>3, <1>5, <1>10, OneMoreCall DEF CallsOf
<1>12. /\ CallsOf(s)' = CallsOf(s) \cup {n}
       /\ \A x \in Sessions \ {s} : CallsOf(x)' = CallsOf(x)
       /\ \A j \in 1 .. Len(calls) : Past(j)' <=> Past(j)
  BY <1>1, <1>4, <1>5 DEF CallsOf, Past
<1>13. BudgetCovers'
  <2>1. SUFFICES ASSUME NEW x \in Sessions
                 PROVE  /\ x \in tracked' => \E C \in SUBSET CallsOf(x)' :
                                Cardinality(C) = spent'[x] /\ \A j \in CallsOf(x)' \ C : Past(j)'
                        /\ x \notin tracked' => \A j \in CallsOf(x)' : Past(j)'
    BY DEF BudgetCovers
  <2>2. CASE x = s
    <3>1. B \cup {n} \in SUBSET CallsOf(s)' /\ Cardinality(B \cup {n}) = spent'[s] /\ s \in tracked'
      BY <1>1, <1>2, <1>10, <1>11, <1>12
    <3>2. \A j \in CallsOf(s)' \ (B \cup {n}) : Past(j)'
      BY <1>10, <1>12 DEF CallsOf
    <3>. QED  BY <2>2, <3>1, <3>2
  <2>3. CASE x # s /\ x \in Fresh
    <3>1. spent'[x] = spent[x] /\ CallsOf(x)' = CallsOf(x) /\ x \in tracked'
      BY <2>3, <1>1, <1>2, <1>12
    <3>2. PICK C \in SUBSET CallsOf(x) : Cardinality(C) = spent[x] /\ \A j \in CallsOf(x) \ C : Past(j)
      BY <2>3, FoundOrPast
    <3>3. \A j \in CallsOf(x) \ C : Past(j)'
      BY <3>2, <1>12 DEF CallsOf
    <3>. QED  BY <3>1, <3>2, <3>3
  <2>4. CASE x # s /\ x \notin Fresh
    <3>1. x \notin tracked' /\ CallsOf(x)' = CallsOf(x) /\ \A j \in CallsOf(x) : Past(j)
      BY <2>4, <1>2, <1>12, FoundOrPast
    <3>. QED  BY <3>1, <1>12 DEF CallsOf
  <2>. QED  BY <2>2, <2>3, <2>4
<1>14. RateBounded'
  <2>1. ASSUME NEW i \in 1 .. Len(calls)
        PROVE  Cardinality(CallsWithin(i, RateWindow, Sessions)') <= RateLimit
    <3>1. CallsWithin(i, RateWindow, Sessions)' = CallsWithin(i, RateWindow, Sessions)
      BY <1>3, <1>4 DEF CallsWithin
    <3>. QED  BY <3>1 DEF RateBounded
  <2>2. Cardinality(CallsWithin(n, RateWindow, Sessions)') <= RateLimit
    <3>1. CallsWithin(n, RateWindow, Sessions)' \subseteq Recent \cup {n}
      <4>1. SUFFICES ASSUME NEW j \in 1 .. Len(calls), calls[j].at + RateWindow > now
                     PROVE  j \in Recent
        BY <1>4, <1>5 DEF CallsWithin
      <4>. QED  BY <4>1, <1>3, <1>8, Limits
    <3>2. IsFiniteSet(Recent \cup {n})
      BY <1>3, <1>7, OneMoreCall, FS_AddElement
    <3>3. /\ Cardinality(CallsWithin(n, RateWindow, Sessions)') <= Cardinality(Recent \cup {n})
          /\ Cardinality(CallsWithin(n, RateWindow, Sessions)') \in Nat /\ Cardinality(Recent \cup {n}) \in Nat
      BY <3>1, <3>2, FS_Subset, FS_CardinalityType
    <3>. QED  BY <3>3, <1>7, Limits
  <2>3. ASSUME NEW i \in 1 .. n PROVE Cardinality(CallsWithin(i, RateWindow, Sessions)') <= RateLimit
    BY <1>5, <2>1, <2>2
  <2>. QED  BY <1>4, <2>3 DEF RateBounded, CallsWithin
<1>15. SessionBudgetBounded'
  <2>1. ASSUME NEW i \in 1 .. Len(calls)
        PROVE  Cardinality(CallsWithin(i, SessionTTL + 1, {calls[i].session})') <= MaxPerSession
    <3>1. CallsWithin(i, SessionTTL + 1, {calls[i].session})' = CallsWithin(i, SessionTTL + 1, {calls[i].session})
      BY <1>3, <1>4 DEF CallsWithin
    <3>. QED  BY <3>1 DEF SessionBudgetBounded
  <2>2. Cardinality(CallsWithin(n, SessionTTL + 1, {s})') <= MaxPerSession
    <3>1. CallsWithin(n, SessionTTL + 1, {s})' \subseteq B \cup {n}
      <4>1. SUFFICES ASSUME NEW j \in 1 .. Len(calls), calls[j].session = s, calls[j].at + (SessionTTL + 1) > now
                     PROVE  j \in B
        BY <1>4, <1>5 DEF CallsWithin
      <4>2. ~Past(j)
        BY <4>1, <1>3, Limits DEF Past
      <4>. QED  BY <4>1, <4>2, <1>10 DEF CallsOf
    <3>2. IsFiniteSet(B \cup {n})
      BY <1>3, <1>11, OneMoreCall, FS_AddElement
    <3>3. /\ Cardinality(CallsWithin(n, SessionTTL + 1, {s})') <= Cardinality(B \cup {n})
          /\ Cardinality(CallsWithin(n, SessionTTL + 1, {s})') \in Nat
      BY <3>1, <3>2, FS_Subset, FS_CardinalityType
    <3>. QED  BY <3>3, <1>1, <1>2, <1>11, Limits
  <2>3. ASSUME NEW i \in 1 .. n
        PROVE  Cardinality(CallsWithin(i, SessionTTL + 1, {calls[i].session})') <= MaxPerSession
    <3>1. CASE i = n
      BY <1>4, <2>2, <3>1
    <3>2. CASE i # n
      BY <1>5, <2>1, <3>2
    <3>. QED  BY <3>1, <3>2
  <2>. QED  BY <1>4, <2>3 DEF SessionBudgetBounded, CallsWithin
<1>16. spent' \in [Sessions -> 0 .. MaxPerSession]
  BY <1>1, <1>2, Limits
<1>17. recent' \subseteq 1 .. Len(calls') /\ Cardinality(recent') <= RateLimit
  BY <1>1, <1>4, <1>5, <1>7
<1>. QED  BY <1>6, <1>9, <1>13, <1>14, <1>15, <1>16, <1>17

-----------------------------------------------------------------------------
(* The steps *)

\* A request changes neither the breaker nor what has come back.
LEMMA RequestStep ==
    ASSUME Inv, NEW s \in Sessions, NEW c \in Commands, Request(s, c)
    PROVE  Inv'
<1>1. CASE Hit(s, c) \/ RefusedEarly(s, c) \/ RefusedByRate(s, c)
  <2>1. /\ Enter(s) /\ spent' = Spent /\ recent' \in {recent, Recent}
        /\ UNCHANGED <<now, active, failures, openUntil, call, calls, results>>
    BY <1>1 DEF Hit, RefusedEarly, RefusedByRate, breaker, history
  <2>2. /\ Budgets' /\ spent' \in [Sessions -> 0 .. MaxPerSession]
        /\ recent' \subseteq 1 .. Len(calls) /\ Cardinality(recent') <= RateLimit
    BY <2>1, VisitBudgets
  <2>3. /\ tracked' \subseteq Sessions /\ cache' \in [Sessions -> [Commands -> Outputs \cup {None}]]
        /\ lastSeen' \in [Sessions -> 0 .. now]
    BY <2>1, EnterTypes DEF Inv
  <2>4. TypeOK'
    BY <2>1, <2>2, <2>3 DEF Inv, TypeOK
  <2>5. BreakerFollows' /\ CallsTyped'
    BY <2>1 DEF Inv, BreakerFollows, CallsTyped
  <2>. QED  BY <2>2, <2>4, <2>5 DEF Inv
<1>2. CASE \E t \in Threads : Call(t, s, c)
  <2>1. PICK t \in Threads : StartCall(t, s, c)
    BY <1>2 DEF Call
  <2>2. /\ Enter(s) /\ UNCHANGED <<now, active, failures, openUntil, results>>
        /\ call' = [call EXCEPT ![t] = [on |-> TRUE, session |-> s, command |-> c]]
        /\ calls' = Append(calls, [session |-> s, at |-> now])
    BY <2>1 DEF StartCall, breaker
  <2>3. /\ Budgets' /\ spent' \in [Sessions -> 0 .. MaxPerSession]
        /\ recent' \subseteq 1 .. Len(calls') /\ Cardinality(recent') <= RateLimit
    BY <2>1, CallBudgets
  <2>4. /\ tracked' \subseteq Sessions /\ cache' \in [Sessions -> [Commands -> Outputs \cup {None}]]
        /\ lastSeen' \in [Sessions -> 0 .. now]
    BY <2>2, EnterTypes DEF Inv
  <2>5. calls' \in Seq([session : Sessions, at : 0 .. now])
    BY <2>2, CallAdded DEF Inv
  <2>6. call' \in [Threads -> [on : BOOLEAN, session : Sessions \cup {None}, command : Commands \cup {None}]]
    BY <2>2 DEF Inv, TypeOK
  <2>7. TypeOK'
    BY <2>2, <2>3, <2>4, <2>5, <2>6 DEF Inv, TypeOK
  <2>8. CallsTyped'
    BY <2>2 DEF Inv, TypeOK, CallsTyped
  <2>9. BreakerFollows'
    BY <2>2 DEF Inv, BreakerFollows
  <2>. QED  BY <2>3, <2>7, <2>8, <2>9 DEF Inv
<1>. QED  BY <1>1, <1>2 DEF Request

\* Nothing but requests and time changes the budgets.
LEMMA BudgetsStay ==
    ASSUME Inv, UNCHANGED <<now, tracked, spent, lastSeen, recent, calls>>
    PROVE  Budgets'
<1>1. (SeenAtCalls /\ RecentCovers)'
  BY DEF Inv, Budgets, SeenAtCalls, RecentCovers
<1>2. BudgetCovers'
  BY DEF Inv, Budgets, BudgetCovers, CallsOf, Past
<1>3. (RateBounded /\ SessionBudgetBounded)'
  BY DEF Inv, Budgets, RateBounded, SessionBudgetBounded, CallsWithin
<1>. QED  BY <1>1, <1>2, <1>3 DEF Budgets

\* What has come back is added at the end.
LEMMA ResultAdded ==
    ASSUME Inv, NEW t, NEW f \in BOOLEAN, Comes(t, f)
    PROVE  /\ Len(results) \in Nat /\ Len(results') = Len(results) + 1
           /\ results' \in Seq([failed : BOOLEAN, at : Nat])
           /\ results'[Len(results) + 1] = [failed |-> f, at |-> now]
           /\ \A j \in 1 .. Len(results) : results'[j] = results[j]
<1>1. results \in Seq([failed : BOOLEAN, at : Nat]) /\ now \in Nat
  BY DEF Inv, BreakerFollows, TypeOK
<1>2. [failed |-> f, at |-> now] \in [failed : BOOLEAN, at : Nat]
  BY <1>1
<1>. DEFINE r == [failed |-> f, at |-> now]
            R == [failed : BOOLEAN, at : Nat]
<1>3. results \in Seq(R) /\ r \in R /\ results' = Append(results, r)
  BY <1>1, <1>2 DEF Comes
<1>. HIDE DEF r, R
<1>4. /\ Len(results) \in Nat /\ Len(results') = Len(results) + 1 /\ results' \in Seq(R)
      /\ results'[Len(results) + 1] = r /\ \A j \in 1 .. Len(results) : results'[j] = results[j]
  BY <1>3
<1>. QED  BY <1>4 DEF r, R

\* A call comes back: the breaker counts it, whoever the provider is by now.
LEMMA AnsweredStep ==
    ASSUME Inv, NEW t \in Threads, Answered(t)
    PROVE  Inv'
<1>1. /\ Hangup(t) /\ UNCHANGED <<now, active, tracked, spent, lastSeen, recent, calls>>
      /\ failures' \in {0, failures + 1} /\ openUntil' \in {openUntil, now + Cooldown}
  BY DEF Answered, CallFails, CallBlank, CallReturns, state
<1>2. call' = [call EXCEPT ![t] = NoCall] /\ call[t].on
  BY <1>1 DEF Hangup
<1>3. cache' \in [Sessions -> [Commands -> Outputs \cup {None}]]
  <2>1. CASE cache' = cache
    BY <2>1 DEF Inv, TypeOK
  <2>2. CASE \E o \in Outputs : cache' = [cache EXCEPT ![call[t].session][call[t].command] = o]
    <3>1. call[t].session \in Sessions /\ call[t].command \in Commands
      BY <1>2 DEF Inv, CallsTyped
    <3>. QED  BY <2>2, <3>1 DEF Inv, TypeOK
  <2>. QED  BY <2>1, <2>2 DEF Answered, CallFails, CallBlank, CallReturns, state
<1>4. call' \in [Threads -> [on : BOOLEAN, session : Sessions \cup {None}, command : Commands \cup {None}]]
  <2>1. NoCall \in [on : BOOLEAN, session : Sessions \cup {None}, command : Commands \cup {None}]
    BY DEF NoCall
  <2>. QED  BY <1>2, <2>1 DEF Inv, TypeOK
<1>5. failures' \in Nat /\ openUntil' \in Nat
  BY <1>1, Limits DEF Inv, TypeOK
<1>6. TypeOK'
  BY <1>1, <1>3, <1>4, <1>5 DEF Inv, TypeOK
<1>7. CallsTyped'
  BY <1>2 DEF Inv, TypeOK, CallsTyped, NoCall
<1>8. failures \in Nat /\ openUntil \in Nat /\ now \in Nat /\ failures <= Len(results)
      /\ (failures < Len(results) => ~results[Len(results) - failures].failed)
  BY DEF Inv, TypeOK, BreakerFollows
<1>9. BreakerFollows'
  <2>1. CASE CallFails(t)
    <3>1. /\ Len(results) \in Nat /\ Len(results') = Len(results) + 1
          /\ results' \in Seq([failed : BOOLEAN, at : Nat])
          /\ results'[Len(results) + 1] = [failed |-> TRUE, at |-> now]
          /\ \A j \in 1 .. Len(results) : results'[j] = results[j]
      BY <2>1, ResultAdded DEF CallFails
    <3>2. failures' = failures + 1 /\ (failures' >= FailureThreshold => openUntil' = now + Cooldown)
      BY <2>1 DEF CallFails
    <3>3. failures' <= Len(results') /\ Len(results') - failures' = Len(results) - failures
      BY <3>1, <3>2, <1>8
    <3>4. failures' < Len(results') => ~results'[Len(results') - failures'].failed
      <4>1. SUFFICES ASSUME failures' < Len(results') PROVE ~results'[Len(results) - failures].failed
        BY <3>3
      <4>2. failures < Len(results) /\ Len(results) - failures \in 1 .. Len(results)
        BY <4>1, <3>1, <3>2, <1>8
      <4>. QED  BY <4>2, <3>1, <1>8
    <3>5. results'[Len(results')].at = now
      BY <3>1
    <3>6. failures' >= FailureThreshold => openUntil' >= results'[Len(results')].at + Cooldown
      BY <3>2, <3>5, <1>8, Limits
    <3>. QED  BY <3>1, <3>3, <3>4, <3>6 DEF BreakerFollows
  <2>2. CASE CallBlank(t) \/ \E o \in Outputs : CallReturns(t, o)
    <3>1. Comes(t, FALSE) /\ failures' = 0
      BY <2>2 DEF CallBlank, CallReturns
    <3>2. /\ Len(results) \in Nat /\ Len(results') = Len(results) + 1
          /\ results' \in Seq([failed : BOOLEAN, at : Nat])
          /\ results'[Len(results) + 1] = [failed |-> FALSE, at |-> now]
      BY <3>1, ResultAdded
    <3>3. ~results'[Len(results')].failed /\ Len(results') - failures' = Len(results')
      BY <3>1, <3>2
    <3>. QED  BY <3>1, <3>2, <3>3, Limits DEF BreakerFollows
  <2>. QED  BY <2>1, <2>2 DEF Answered
<1>. QED  BY <1>1, <1>6, <1>7, <1>9, BudgetsStay DEF Inv

\* Time passes: what is past stays past.
LEMMA TickStep ==
    ASSUME Inv, Tick
    PROVE  Inv'
<1>1. /\ now' = now + 1 /\ now \in Nat
      /\ UNCHANGED <<active, tracked, cache, spent, lastSeen, recent, failures, openUntil, call, calls, results>>
  BY DEF Inv, TypeOK, Tick, state, breaker, history
<1>2. Len(calls) \in Nat /\ \A j \in 1 .. Len(calls) : calls[j].session \in Sessions /\ calls[j].at \in 0 .. now
  BY CallType DEF Inv
<1>3. 0 .. now \subseteq 0 .. now'
  BY <1>1
<1>4. lastSeen' \in [Sessions -> 0 .. now']
  BY <1>1, <1>3 DEF Inv, TypeOK
<1>5. calls' \in Seq([session : Sessions, at : 0 .. now'])
  <2>. DEFINE R == [session : Sessions, at : 0 .. now]
              S == [session : Sessions, at : 0 .. now']
  <2>1. R \subseteq S
    BY <1>3
  <2>2. calls \in Seq(R)
    BY DEF Inv, TypeOK
  <2>. HIDE DEF R, S
  <2>3. calls \in Seq(S)
    BY <2>1, <2>2
  <2>. QED  BY <1>1, <2>3 DEF S
<1>6. TypeOK'
  BY <1>1, <1>4, <1>5 DEF Inv, TypeOK
<1>7. BreakerFollows' /\ CallsTyped'
  BY <1>1 DEF Inv, BreakerFollows, CallsTyped
<1>8. SeenAtCalls' /\ RecentCovers'
  BY <1>1, <1>2, Limits DEF Inv, Budgets, SeenAtCalls, RecentCovers
<1>9. BudgetCovers'
  <2>1. \A j \in 1 .. Len(calls) : Past(j) => Past(j)'
    BY <1>1, <1>2, Limits DEF Past
  <2>2. \A s \in Sessions : CallsOf(s)' = CallsOf(s) /\ CallsOf(s) \subseteq 1 .. Len(calls)
    BY <1>1 DEF CallsOf
  <2>. QED  BY <1>1, <2>1, <2>2 DEF Inv, Budgets, BudgetCovers
<1>10. RateBounded' /\ SessionBudgetBounded'
  BY <1>1 DEF Inv, Budgets, RateBounded, SessionBudgetBounded, CallsWithin
<1>. QED  BY <1>6, <1>7, <1>8, <1>9, <1>10 DEF Inv, Budgets

\* A new provider starts with a closed breaker and no failures.
LEMMA SetActiveStep ==
    ASSUME Inv, NEW p \in Providers, SetActive(p)
    PROVE  Inv'
<1>1. /\ active' = p /\ failures' = 0 /\ openUntil' = 0 /\ results' = <<>>
      /\ UNCHANGED <<now, tracked, cache, spent, lastSeen, recent, call, calls>>
  BY DEF SetActive, state
<1>2. TypeOK'
  BY <1>1 DEF Inv, TypeOK
<1>3. BreakerFollows'
  BY <1>1, Limits DEF BreakerFollows
<1>4. CallsTyped'
  BY <1>1 DEF Inv, CallsTyped
<1>. QED  BY <1>1, <1>2, <1>3, <1>4, BudgetsStay DEF Inv

\* Every step keeps the invariant.
LEMMA Step == ASSUME Inv, [Next]_vars PROVE Inv'
<1>1. CASE Next
  BY <1>1, RequestStep, AnsweredStep, SetActiveStep, TickStep DEF Next
<1>2. CASE UNCHANGED vars
  <2>1. TypeOK' /\ BreakerFollows' /\ CallsTyped'
    BY <1>2 DEF Inv, TypeOK, BreakerFollows, CallsTyped, vars, state, breaker, history
  <2>. QED  BY <1>2, <2>1, BudgetsStay DEF Inv, vars, state, breaker, history
<1>. QED  BY <1>1, <1>2

\* It holds when the engine starts.
LEMMA InitStep == Init => Inv
<1>. SUFFICES ASSUME Init PROVE Inv
  OBVIOUS
<1>1. NoCache \in [Commands -> Outputs \cup {None}] /\ <<>> \in Seq([session : Sessions, at : 0 .. 0])
  BY DEF NoCache
<1>2. NoCall \in [on : BOOLEAN, session : Sessions \cup {None}, command : Commands \cup {None}] /\ ~NoCall.on
  BY DEF NoCall
<1>3. TypeOK
  BY <1>1, <1>2, FS_EmptySet, Limits DEF Init, TypeOK
<1>4. Len(calls) = 0 /\ \A s : CallsOf(s) = {}
  BY DEF Init, CallsOf
<1>5. Budgets
  BY <1>4 DEF Init, Budgets, SeenAtCalls, RecentCovers, BudgetCovers, RateBounded, SessionBudgetBounded
<1>6. BreakerFollows /\ CallsTyped
  BY <1>2, Limits DEF Init, BreakerFollows, CallsTyped
<1>. QED  BY <1>3, <1>5, <1>6 DEF Inv

\* So it holds throughout.
LEMMA Invariance == Spec => []Inv
BY InitStep, Step, PTL DEF Spec

-----------------------------------------------------------------------------
(* Theorems *)

\* For any limits and however many threads call at once: no window holds more
\* provider calls than the rate allows, and no session more than its budget in
\* its time to live, evictions included.
THEOREM BudgetsAlwaysHold == Spec => []BudgetsHold
<1>1. Inv => BudgetsHold
  BY DEF Inv, Budgets, BudgetsHold
<1>. QED  BY <1>1, Invariance, PTL

\* A request changes the cache only by evicting, and asks only for what is not
\* cached; an answer is cached for the command it was asked for.
THEOREM AnswersSettle == Spec => AnswerSettles
<1>. DEFINE A == \A s \in Sessions, c \in Commands :
                    Settled(s, c) =>
                        \/ s \in tracked' /\ cache'[s][c] = cache[s][c] /\ ~InFlight(s, c)'
                        \/ lastSeen[s] + SessionTTL < now
<1>1. ASSUME Inv, Next PROVE A
  <2>. SUFFICES ASSUME NEW s \in Sessions, NEW c \in Commands, Settled(s, c),
                       ~(lastSeen[s] + SessionTTL < now)
                PROVE  s \in tracked' /\ cache'[s][c] = cache[s][c] /\ ~InFlight(s, c)'
    OBVIOUS
  <2>1. s \in Fresh /\ Cached(s, c) /\ ~InFlight(s, c)
    <3>1. lastSeen[s] \in Nat /\ now \in Nat
      BY <1>1 DEF Inv, TypeOK
    <3>. QED  BY <3>1, Limits DEF Settled, Fresh, Cached
  <2>2. CASE \E x \in Sessions, d \in Commands : Request(x, d)
    <3>1. PICK x \in Sessions, d \in Commands : Request(x, d)
      BY <2>2
    <3>2. Enter(x)
      BY <3>1 DEF Request, Hit, RefusedEarly, RefusedByRate, Call, StartCall
    <3>3. s \in tracked' /\ cache'[s][c] = cache[s][c]
      BY <3>2, <2>1 DEF Enter
    <3>4. \/ call' = call
          \/ /\ \E t \in Threads : call' = [call EXCEPT ![t] = [on |-> TRUE, session |-> x, command |-> d]]
             /\ ~Cached(x, d)
      BY <3>1 DEF Request, Hit, RefusedEarly, RefusedByRate, Call, StartCall
    <3>5. ~InFlight(s, c)'
      <4>1. CASE call' = call
        BY <4>1, <2>1 DEF InFlight
      <4>2. ASSUME NEW t \in Threads, call' = [call EXCEPT ![t] = [on |-> TRUE, session |-> x, command |-> d]],
                   ~Cached(x, d)
            PROVE  ~InFlight(s, c)'
        <5>1. x # s \/ d # c
          BY <4>2, <2>1
        <5>2. call'[t].session = x /\ call'[t].command = d /\ \A u \in Threads \ {t} : call'[u] = call[u]
          BY <1>1, <4>2 DEF Inv, TypeOK
        <5>. QED  BY <5>1, <5>2, <2>1 DEF InFlight
      <4>. QED  BY <3>4, <4>1, <4>2
    <3>. QED  BY <3>3, <3>5
  <2>3. CASE \E t \in Threads : Answered(t)
    <3>1. PICK t \in Threads : Answered(t)
      BY <2>3
    <3>2. tracked' = tracked /\ call[t].on /\ call' = [call EXCEPT ![t] = NoCall]
      BY <3>1 DEF Answered, CallFails, CallBlank, CallReturns, Hangup, state
    <3>3. ~InFlight(s, c)'
      BY <1>1, <3>2, <2>1 DEF InFlight, NoCall, Inv, TypeOK
    <3>4. cache' = cache \/ \E o \in Outputs : cache' = [cache EXCEPT ![call[t].session][call[t].command] = o]
      BY <3>1 DEF Answered, CallFails, CallBlank, CallReturns, state
    <3>5. call[t].session # s \/ call[t].command # c
      BY <3>2, <2>1 DEF InFlight
    <3>6. cache'[s][c] = cache[s][c]
      <4>1. cache \in [Sessions -> [Commands -> Outputs \cup {None}]] /\ call[t].session \in Sessions
        BY <1>1, <3>2 DEF Inv, TypeOK, CallsTyped
      <4>2. CASE call[t].session # s
        BY <4>1, <4>2, <3>4
      <4>3. CASE call[t].session = s /\ call[t].command # c
        BY <4>1, <4>3, <3>4
      <4>. QED  BY <3>5, <4>2, <4>3
    <3>. QED  BY <3>2, <3>3, <3>6, <2>1 DEF Settled
  <2>4. CASE (\E p \in Providers : SetActive(p)) \/ Tick
    BY <2>4, <2>1 DEF SetActive, Tick, InFlight, Settled, state
  <2>. QED  BY <1>1, <2>2, <2>3, <2>4 DEF Next
<1>2. ASSUME Inv, [Next]_vars PROVE [A]_vars
  BY <1>1, <1>2
<1>. QED  BY <1>2, Invariance, PTL DEF Spec, AnswerSettles

\* A provider that has just failed as often as the threshold says is left alone
\* for Cooldown, whatever the threshold and the calls under way.
THEOREM SickProvidersRest == Spec => SickProviderRests
<1>1. ASSUME Inv, Next, calls' # calls PROVE ~Sick
  <2>1. PICK s \in Sessions : ~Refuses(s)
    BY <1>1 DEF Next, Request, Hit, RefusedEarly, RefusedByRate, Call, StartCall, Answered, CallFails,
       CallBlank, CallReturns, SetActive, Tick, history
  <2>2. ~(now < openUntil)
    BY <2>1 DEF Refuses
  <2>3. /\ now \in Nat /\ openUntil \in Nat /\ failures \in Nat /\ failures <= Len(results)
        /\ results \in Seq([failed : BOOLEAN, at : Nat])
    BY <1>1 DEF Inv, TypeOK, BreakerFollows
  <2>4. Len(results) \in Nat
    BY <2>3
  <2>5. ASSUME Sick PROVE FALSE
    <3>1. failures >= FailureThreshold
      <4>1. SUFFICES ASSUME failures < FailureThreshold PROVE FALSE
        BY <2>3, Limits
      <4>2. failures < Len(results) /\ Len(results) - failures \in Len(results) - FailureThreshold + 1 .. Len(results)
        BY <4>1, <2>3, <2>4, <2>5, Limits DEF Sick
      <4>. QED  BY <4>2, <1>1, <2>5 DEF Sick, Inv, BreakerFollows
    <3>2. openUntil >= results[Len(results)].at + Cooldown /\ results[Len(results)].at + Cooldown > now
      BY <3>1, <1>1, <2>5 DEF Sick, Inv, BreakerFollows
    <3>3. results[Len(results)].at \in Nat
      <4>1. Len(results) \in 1 .. Len(results)
        BY <3>1, <2>3, <2>4, Limits
      <4>. DEFINE R == [failed : BOOLEAN, at : Nat]
      <4>2. results \in Seq(R)
        BY <2>3
      <4>. HIDE DEF R
      <4>3. results[Len(results)] \in R
        BY <4>1, <4>2
      <4>. QED  BY <4>3 DEF R
    <3>. QED  BY <2>2, <2>3, <3>2, <3>3, Limits
  <2>. QED  BY <2>5
<1>2. ASSUME Inv, [Next]_vars PROVE [calls' # calls => ~Sick]_vars
  BY <1>1, <1>2
<1>. QED  BY <1>2, Invariance, PTL DEF Spec, SickProviderRests

=============================================================================
