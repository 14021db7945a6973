---------------------------- MODULE SshConnection ----------------------------
(***************************************************************************)
(* One SSH connection of the sensor (internal/server/server.go): the       *)
(* handshake with its password callbacks, the goroutine that accepts       *)
(* channels, one goroutine per session channel running exec, shell or sftp *)
(* requests, and the shared session record behind sessionGuard's mutex,    *)
(* which is saved and pushed once, when every channel has finished.        *)
(*                                                                         *)
(* Every critical section of the mutex is one step, and so is every read   *)
(* or run that happens outside it.  A command is [id, n]: its event id and *)
(* the length of its base64 input.                                         *)
(***************************************************************************)
EXTENDS Naturals, Sequences, FiniteSets

CONSTANTS
    Channels,      \* session channels the client asks for
    MaxChannels,   \* maxChannelsPerConnection
    MaxCommands,   \* maxCommandsPerSession
    MaxInputBytes, \* maxSessionInputBytes
    MaxRejected,   \* maxRejectedRequests
    MaxAuthTries,  \* ServerConfig.MaxAuthTries
    InputSizes     \* lengths a command's input may have

ASSUME LimitsAssumption ==
    /\ MaxChannels \in Nat \ {0}
    /\ MaxCommands \in Nat \ {0}
    /\ MaxInputBytes \in Nat
    /\ MaxRejected \in Nat
    /\ MaxAuthTries \in Nat \ {0}
    /\ InputSizes \subseteq Nat
    /\ IsFiniteSet(Channels)

VARIABLES
    conn,       \* "up", or who ended it: "client", "idle" (deadline), "server"
    main,       \* where handleConnection is
    attempts,   \* AuthAttempts: whether each was accepted
    pc,         \* where each channel's goroutine is
    mode,       \* what each channel runs: "exec", "shell" or "none"
    cmd,        \* the command each channel is working on
    result,     \* what running it gave: bait touched, exit requested
    issued,     \* event ids drawn so far
    commands, inputBytes, bait, rejected, outcome,  \* the session record
    saved,      \* records given to SaveSession, with whether it succeeded
    pushed      \* records given to PushSession

record == <<commands, inputBytes, bait, rejected, outcome>>
local  == <<pc, mode, cmd, result, issued>>
connectionVars == <<conn, main, attempts, local, record, saved, pushed>>

Outcomes == {"active", "auth_failed", "clean_disconnect", "timeout", "connection_reset",
             "command_limit_reached"}

Command   == [id : Nat, n : Nat]
NoCommand == [id |-> 0, n |-> 0]
NoResult  == [bait |-> FALSE, exit |-> FALSE]

\* What is persisted of the session: a copy of the record.
Snapshot == [commands |-> commands, bait |-> bait, outcome |-> outcome]

ConnectionInit ==
    /\ conn = "up" /\ main = "handshake" /\ attempts = <<>>
    /\ pc = [c \in Channels |-> "unopened"]
    /\ mode = [c \in Channels |-> "none"]
    /\ cmd = [c \in Channels |-> NoCommand]
    /\ result = [c \in Channels |-> NoResult]
    /\ issued = 0
    /\ commands = <<>> /\ inputBytes = 0 /\ bait = {} /\ rejected = 0 /\ outcome = "active"
    /\ saved = <<>> /\ pushed = <<>>

-----------------------------------------------------------------------------
(* sessionGuard *)

\* recordOutcome: the first one wins.
RecordOutcome(o) == outcome' = IF outcome = "active" THEN o ELSE outcome

\* appendCommand's test.
HasRoom(c) ==
    /\ Len(commands) < MaxCommands
    /\ inputBytes + cmd[c].n <= MaxInputBytes

\* appendRejected: refusals past the cap are dropped.
AppendRejected == rejected' = IF rejected < MaxRejected THEN rejected + 1 ELSE rejected

Goto(c, l) == pc' = [pc EXCEPT ![c] = l]

\* The goroutine returns and its locals die with it.
Leave(c) ==
    /\ Goto(c, "done")
    /\ mode' = [mode EXCEPT ![c] = "none"]
    /\ cmd' = [cmd EXCEPT ![c] = NoCommand]
    /\ result' = [result EXCEPT ![c] = NoResult]
    /\ UNCHANGED issued

-----------------------------------------------------------------------------
(* Handshake, on the connection's own goroutine *)

\* A password or key is tried: recorded at once, answered after the delay.
\* Keys are always refused; six failures end the handshake.
Attempt(ok) ==
    /\ main = "handshake" /\ conn = "up"
    /\ Cardinality({i \in 1 .. Len(attempts) : ~attempts[i]}) < MaxAuthTries
    /\ attempts' = Append(attempts, ok)
    /\ main' = "answering"
    /\ UNCHANGED <<conn, local, record, saved, pushed>>

Accepted == attempts # <<>> /\ attempts[Len(attempts)]

\* The delay is over and the answer reaches the client.
Answer ==
    /\ main = "answering" /\ conn = "up"
    /\ main' = IF Accepted THEN "serving" ELSE "handshake"
    /\ UNCHANGED <<conn, attempts, local, record, saved, pushed>>

\* Mutant: a failed handshake is dropped whatever was tried in it.
HandshakeFailsUnsaved ==
    /\ main \in {"handshake", "answering"}
    /\ conn' = IF conn = "up" THEN "server" ELSE conn
    /\ main' = "done"
    /\ UNCHANGED <<attempts, local, record, saved, pushed>>

\* NewServerConn fails: the handshake deadline, a lost client, too many tries.
\* Without a recorded attempt nothing is kept of the connection.
HandshakeFails ==
    /\ main \in {"handshake", "answering"}
    /\ conn' = IF conn = "up" THEN "server" ELSE conn
    /\ IF attempts = <<>>
       THEN main' = "done" /\ UNCHANGED outcome
       ELSE main' = "finalize" /\ RecordOutcome("auth_failed")
    /\ UNCHANGED <<attempts, local, commands, inputBytes, bait, rejected, saved, pushed>>

-----------------------------------------------------------------------------
(* handleChannels *)

Open == {c \in Channels : pc[c] \notin {"unopened", "done"}}

\* A session channel past the limit is refused and the client may ask again.
OpenSession(c) ==
    /\ main = "serving" /\ conn = "up"
    /\ pc[c] = "unopened"
    /\ Cardinality(Open) < MaxChannels
    /\ Goto(c, "requests")
    /\ UNCHANGED <<conn, main, attempts, mode, cmd, result, issued, record, saved, pushed>>

OpenOtherChannel ==
    /\ main = "serving" /\ conn = "up"
    /\ AppendRejected
    /\ UNCHANGED <<conn, main, attempts, local, commands, inputBytes, bait, outcome, saved, pushed>>

\* The mux has stopped: no more channels, the range loop ends.
StopAccepting ==
    /\ main = "serving" /\ conn # "up"
    /\ main' = "waiting"
    /\ UNCHANGED <<conn, attempts, local, record, saved, pushed>>

\* Mutant: the session is saved while channels still run.
WaitForNobody ==
    /\ main = "waiting"
    /\ main' = "finalize"
    /\ UNCHANGED <<conn, attempts, local, record, saved, pushed>>

\* wg.Wait.
WaitForChannels ==
    /\ main = "waiting"
    /\ Open = {}
    /\ main' = "finalize"
    /\ UNCHANGED <<conn, attempts, local, record, saved, pushed>>

\* finalize: fallback outcome, save (an error is only logged), push.
Finalize ==
    /\ main = "finalize"
    /\ RecordOutcome("connection_reset")
    /\ main' = "save"
    /\ UNCHANGED <<conn, attempts, local, commands, inputBytes, bait, rejected, saved, pushed>>

SaveSession ==
    /\ main = "save"
    /\ \E ok \in BOOLEAN : saved' = Append(saved, [doc |-> Snapshot, ok |-> ok])
    /\ main' = "push"
    /\ UNCHANGED <<conn, attempts, local, record, pushed>>

PushSession ==
    /\ main = "push"
    /\ pushed' = Append(pushed, Snapshot)
    /\ main' = "done"
    /\ UNCHANGED <<conn, attempts, local, record, saved>>

\* The client hangs up, or the read deadline passes with nothing received.
ConnectionEnds(how) ==
    /\ conn = "up" /\ main # "done"
    /\ conn' = how
    /\ UNCHANGED <<main, attempts, local, record, saved, pushed>>

-----------------------------------------------------------------------------
(* handleSessionRequests, on the goroutine of channel c *)

rest == <<main, attempts, saved, pushed>>

\* The client closes the channel, or the connection is gone: the request loop
\* ends without an outcome.
RequestsEnd(c) ==
    /\ pc[c] = "requests"
    /\ Leave(c)
    /\ UNCHANGED <<conn, rest, record>>

RefuseSubsystem(c) ==
    /\ pc[c] = "requests" /\ conn = "up"
    /\ AppendRejected
    /\ UNCHANGED <<conn, rest, local, commands, inputBytes, bait, outcome>>

\* runSFTP serves until the client closes its side; then the channel is done.
StartSftp(c) ==
    /\ pc[c] = "requests" /\ conn = "up"
    /\ Goto(c, "finish")
    /\ UNCHANGED <<conn, rest, mode, cmd, result, issued, record>>

StartShell(c) ==
    /\ pc[c] = "requests" /\ conn = "up"
    /\ Goto(c, "prompt")
    /\ mode' = [mode EXCEPT ![c] = "shell"]
    /\ UNCHANGED <<conn, rest, cmd, result, issued, record>>

\* A command line is taken up: an exec request, or a line the shell has read.
TakeUp(c, n) ==
    /\ cmd' = [cmd EXCEPT ![c] = [id |-> issued + 1, n |-> n]]
    /\ issued' = issued + 1
    /\ Goto(c, "run")

StartExec(c, n) ==
    /\ pc[c] = "requests" /\ conn = "up"
    /\ mode' = [mode EXCEPT ![c] = "exec"]
    /\ TakeUp(c, n)
    /\ UNCHANGED <<conn, rest, result, record>>

\* The shell's own check, a critical section of its own.
Prompt(c) ==
    /\ pc[c] = "prompt"
    /\ Goto(c, IF Len(commands) >= MaxCommands THEN "limit" ELSE "read")
    /\ UNCHANGED <<conn, rest, mode, cmd, result, issued, record>>

ShellLimit(c) ==
    /\ pc[c] = "limit"
    /\ RecordOutcome("command_limit_reached")
    /\ Leave(c)
    /\ UNCHANGED <<conn, rest, commands, inputBytes, bait, rejected>>

\* Lines the client sent before the connection ended are still read.
ReadLine(c, n) ==
    /\ pc[c] = "read"
    /\ TakeUp(c, n)
    /\ UNCHANGED <<conn, rest, mode, result, record>>

\* channel.Read gives io.EOF once the client closes its side, and also once the
\* mux has closed every channel, whatever ended the connection.
ReadEOF(c) ==
    /\ pc[c] = "read"
    /\ RecordOutcome("clean_disconnect")
    /\ Leave(c)
    /\ UNCHANGED <<conn, rest, commands, inputBytes, bait, rejected>>

\* The one other error channel.Read can give: a window adjustment that cannot be
\* written, because the write deadline has passed or the peer has reset.
ReadError(c) ==
    /\ pc[c] = "read"
    /\ \/ conn = "idle" /\ RecordOutcome("timeout")
       \/ conn = "client" /\ RecordOutcome("connection_reset")
    /\ Leave(c)
    /\ UNCHANGED <<conn, rest, commands, inputBytes, bait, rejected>>

\* Some channel's command never returns from the interpreter.
Stuck == \E c \in Channels : pc[c] = "stuck"

\* applyDeception and the interpreter run without sessionGuard's lock.  The
\* interpreter holds the mutex of the Machine its channels share; a completion
\* needs neither, touches no bait and asks for no exit.
Run(c) ==
    /\ pc[c] = "run"
    /\ \E b, e \in BOOLEAN :
          /\ Stuck => ~b /\ ~e
          /\ result' = [result EXCEPT ![c] = [bait |-> b, exit |-> e]]
    /\ Goto(c, "append")
    /\ UNCHANGED <<conn, rest, mode, cmd, issued, record>>

\* The command never returns and keeps the Machine's mutex: mkdirBuiltin walks up
\* from a missing path until it finds a node, and once rm -r / has removed the
\* root there is none.
Hang(c) ==
    /\ pc[c] = "run"
    /\ ~Stuck
    /\ Goto(c, "stuck")
    /\ UNCHANGED <<conn, rest, mode, cmd, result, issued, record>>

\* A panic in the interpreter is recovered; the channel ends with no outcome.
RunPanics(c) ==
    /\ pc[c] = "run"
    /\ ~Stuck
    /\ Leave(c)
    /\ UNCHANGED <<conn, rest, record>>

AppendCommand(c) ==
    /\ pc[c] = "append"
    /\ IF HasRoom(c)
       THEN /\ commands' = Append(commands, cmd[c])
            /\ inputBytes' = inputBytes + cmd[c].n
            /\ Goto(c, "bait")
       ELSE /\ Goto(c, "over")
            /\ UNCHANGED <<commands, inputBytes>>
    /\ UNCHANGED <<conn, rest, mode, cmd, result, issued, bait, rejected, outcome>>

AppendBaitEvents(c) ==
    /\ pc[c] = "bait"
    /\ bait' = IF result[c].bait THEN bait \cup {cmd[c].id} ELSE bait
    /\ Goto(c, IF mode[c] = "shell" /\ ~result[c].exit THEN "prompt" ELSE "finish")
    /\ UNCHANGED <<conn, rest, mode, cmd, result, issued, commands, inputBytes, rejected, outcome>>

\* Mutant: only the channel ends.
OverLimitKeepsConnection(c) ==
    /\ pc[c] = "over"
    /\ RecordOutcome("command_limit_reached")
    /\ Leave(c)
    /\ UNCHANGED <<conn, rest, commands, inputBytes, bait, rejected>>

\* A refused command ends the whole connection: conn.Close.
OverLimit(c) ==
    /\ pc[c] = "over"
    /\ RecordOutcome("command_limit_reached")
    /\ conn' = IF conn = "up" THEN "server" ELSE conn
    /\ Leave(c)
    /\ UNCHANGED <<rest, commands, inputBytes, bait, rejected>>

\* exec, sftp and logout end with a clean disconnect.
Finish(c) ==
    /\ pc[c] = "finish"
    /\ RecordOutcome("clean_disconnect")
    /\ Leave(c)
    /\ UNCHANGED <<conn, rest, commands, inputBytes, bait, rejected>>

\* The steps a channel's goroutine takes on its own.
ChannelStep(c) ==
    \/ Prompt(c) \/ ShellLimit(c) \/ ReadError(c) \/ Run(c) \/ Hang(c) \/ RunPanics(c)
    \/ AppendCommand(c) \/ AppendBaitEvents(c) \/ OverLimit(c) \/ Finish(c)

\* The steps that wait for the client.
ClientStep(c) ==
    \/ RefuseSubsystem(c) \/ StartSftp(c) \/ StartShell(c)
    \/ \E n \in InputSizes : StartExec(c, n) \/ ReadLine(c, n)

\* The steps that end such a wait.
EndOfInput(c) == RequestsEnd(c) \/ ReadEOF(c)

MainStep ==
    \/ Answer \/ HandshakeFails \/ StopAccepting \/ WaitForChannels
    \/ Finalize \/ SaveSession \/ PushSession

\* Nothing is left to do, or handleConnection waits for a stuck channel.
Done == (main = "done" \/ Stuck) /\ UNCHANGED connectionVars

ConnectionNext ==
    \/ \E ok \in BOOLEAN : Attempt(ok)
    \/ MainStep
    \/ \E how \in {"client", "idle"} : ConnectionEnds(how)
    \/ OpenOtherChannel
    \/ \E c \in Channels : OpenSession(c) \/ ChannelStep(c) \/ ClientStep(c) \/ EndOfInput(c)
    \/ Done

ConnectionSpec == ConnectionInit /\ [][ConnectionNext]_connectionVars

\* Goroutines run (a command that does not return is a step of its own, Hang), and
\* a closed connection ends every read and every request
\* loop.  Nothing is assumed of the client, who may hold the connection open.
Fairness ==
    /\ WF_connectionVars(MainStep)
    /\ \A c \in Channels : WF_connectionVars(ChannelStep(c)) /\ WF_connectionVars(conn # "up" /\ EndOfInput(c))

FairSpec == ConnectionSpec /\ Fairness

-----------------------------------------------------------------------------
(* Properties *)

Labels == {"unopened", "requests", "prompt", "limit", "read", "run", "stuck", "append", "bait", "over",
           "finish", "done"}

\* Type invariant.
ConnectionTypeOK ==
    /\ conn \in {"up", "client", "idle", "server"}
    /\ main \in {"handshake", "answering", "serving", "waiting", "finalize", "save", "push", "done"}
    /\ attempts \in Seq(BOOLEAN)
    /\ pc \in [Channels -> Labels]
    /\ mode \in [Channels -> {"none", "exec", "shell"}]
    /\ cmd \in [Channels -> Command]
    /\ result \in [Channels -> [bait : BOOLEAN, exit : BOOLEAN]]
    /\ issued \in Nat
    /\ commands \in Seq(Command) /\ inputBytes \in Nat /\ bait \subseteq Nat
    /\ rejected \in 0 .. MaxRejected
    /\ outcome \in Outcomes

Stored == {commands[i].id : i \in 1 .. Len(commands)}

\* Every bait event names a command that is in the record: SaveSession inserts
\* both in one transaction and a foreign key would make it lose the session.
BaitHasCommand == bait \subseteq Stored

\* The caps hold over all channels of the connection together, however their
\* checks and appends interleave.
CapsHold ==
    /\ Len(commands) <= MaxCommands
    /\ inputBytes <= MaxInputBytes
    /\ Cardinality(Open) <= MaxChannels

\* What was saved and what was pushed is the session as it finally was: no
\* channel adds to the record after SaveSession has read it, which happens at
\* most once, and never with outcome active.
SavedIsFinal ==
    /\ Len(saved) <= 1 /\ Len(pushed) <= 1
    /\ \A i \in 1 .. Len(saved) : saved[i].doc = Snapshot /\ outcome # "active"
    /\ \A i \in 1 .. Len(pushed) : pushed[i] = Snapshot

\* However a connection ends, and whatever its channels are doing then, its
\* session is saved and pushed if a credential was ever tried on it; the one
\* exception is a session one of whose commands never returns, for which wg.Wait
\* waits for ever.
SessionIsSaved ==
    conn # "up" ~> \/ main = "done" /\ (attempts # <<>> => Len(saved) = 1 /\ Len(pushed) = 1)
                   \/ Stuck

\* A command refused by a cap ends the whole session, even if the client does all
\* it can to hold the connection and its other channels open, unless a command
\* of one of them never returns.
RefusalEndsSession == (\E c \in Channels : pc[c] = "over") ~> main = "done" \/ Stuck

\* The session record, whatever its channels do to it at once: the caps hold over
\* all of them, no bait event refers to a command that is not stored, and what
\* is saved is final and saved once.
RecordSound == ConnectionTypeOK /\ BaitHasCommand /\ CapsHold /\ SavedIsFinal

=============================================================================
