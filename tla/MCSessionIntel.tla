--------------------------- MODULE MCSessionIntel ---------------------------
(***************************************************************************)
(* Model checking instance of TrainingViews and Enrichment: a behaviour is *)
(* either one pass of a trainer's data pipeline or one life of the         *)
(* enrichment worker beside a training run.                                *)
(***************************************************************************)
EXTENDS TrainingViews, Enrichment

vars == <<tvars, evars>>

Init == (ViewsInit /\ EnrichIdle) \/ (ViewsIdle /\ EnrichInit)
Next == (ViewsNext /\ UNCHANGED evars) \/ (EnrichNext /\ UNCHANGED tvars)
Spec == Init /\ [][Next]_vars

-----------------------------------------------------------------------------
Words == {"A=1", "sudo", "env", "-u", "root", "ls", "/bin/ls", "cat", "key", "|", "<eos>", "10.0.0.1", ""}
MCBaseName == [w \in Words |-> IF w = "/bin/ls" THEN <<"ls">> ELSE IF w = "" THEN <<>> ELSE <<w>>]
MCMasked == [w \in Words |-> IF w = "10.0.0.1" THEN "<ip>" ELSE w]
MCBaitOf == [w \in Words |-> IF w = "key" THEN {"ssh_key"} ELSE {}]

Line(sid, kind, ts, raw, dur) == [sid |-> sid, kind |-> kind, ts |-> ts, raw |-> raw, dur |-> dur]
MCEvents ==
    {Line("s", "command", 1, <<"cat", "key">>, None), Line("s", "command", 4, <<"sudo", "env", "/bin/ls", "key">>, None),
     Line("s", "closed", 4, <<>>, 4), Line("t", "connect", 3, <<>>, None),
     Line("t", "command", 1, <<"A=1", "sudo", "-u", "root", "ls">>, None),
     Line("", "command", 1, <<"ls">>, None), Line("t", "broken", None, <<>>, None)}

\* Two units to the millisecond; a span of exactly one falls short of it.
MCMillis(d) == IF d = 2 THEN 0 ELSE d \div 2

Cmd(raw, off) == [raw |-> raw, off |-> off]
Attempt(u, c) == [user |-> u, cred |-> c]
Ses(cmds, banner, auth) == [cmds |-> cmds, dur |-> None, banner |-> banner, auth |-> auth]
MCCorpora ==
    {<<Ses(<<Cmd(<<"ls">>, 0), Cmd(<<"cat", "key">>, 1), Cmd(<<"env", "root">>, 3), Cmd(<<"|", "ls">>, 4)>>, "b",
           <<Attempt("u", "p")>>),
       Ses(<<Cmd(<<"<eos>">>, 0), Cmd(<<"">>, 2)>>, "c", <<Attempt("u", "p"), Attempt("u", "q")>>)>>,
     <<Ses(<<Cmd(<<"10.0.0.1", "ls">>, 0)>>, "b", <<>>), Ses(<<>>, "", <<>>),
       Ses([i \in 1 .. 4 |-> Cmd(<<"ls">>, i)], "b", [i \in 1 .. 4 |-> Attempt("u", "p")])>>}
MCConfigs ==
    [contrastive |-> {[mode |-> "command", meta |-> TRUE]},
     reid |-> {[mode |-> "command", meta |-> TRUE], [mode |-> "full", meta |-> TRUE]}]

MCTokenizers ==
    ("one" :> Fit([mode |-> "command", meta |-> FALSE], <<Ses(<<Cmd(<<"ls">>, 0)>>, "", <<>>)>>)) @@
    ("two" :> Fit([mode |-> "command", meta |-> TRUE], <<Ses(<<Cmd(<<"ls">>, 0), Cmd(<<"cat">>, 2)>>, "", <<>>)>>))

\* The second training run made its embeddings wider.
MCEmbeddingDim == [one |-> 1, two |-> 2]

DocCmd(ts, b64, parsed, cwd) == [ts |-> ts, b64 |-> b64, parsed |-> parsed, cwd |-> cwd]
Document(cmds, bait, attempts, pace, tool) ==
    [cmds |-> cmds, bait |-> bait, attempts |-> attempts, pace |-> pace, tool |-> tool, start |-> 1, dur |-> None]
MCDocs ==
    <<Document(<<>>, <<>>, 1, "unknown", "other"),
      Document(<<DocCmd(3, <<"cat", "key">>, <<"cat">>, "/root"), DocCmd(2, <<>>, <<"ls">>, "/tmp"),
                 DocCmd(0, <<"ls">>, <<"ls">>, "/")>>, <<1, 2>>, 0, "human", "other"),
      Document(<<DocCmd(1, <<"">>, <<>>, "/"), DocCmd(1, <<"cat">>, <<>>, "/tmp")>>, <<1>>, 3, "automated", "dropper")>>

=============================================================================
