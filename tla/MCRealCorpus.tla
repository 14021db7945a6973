---------------------------- MODULE MCRealCorpus ----------------------------
(***************************************************************************)
(* Model checking instance of RealCorpus and Labelling: a behaviour is one *)
(* or the other, they share nothing but the table of sessions.             *)
(***************************************************************************)
EXTENDS RealCorpus, Labelling

CONSTANTS s1, s2, s3, s4, s5, s6, a, b

VARIABLE job      \* what is done with the sessions

CorporaInit == Init /\ LabelInit /\ job \in {"corpus", "review"}
CorporaNext ==
    /\ \/ job = "corpus" /\ Next /\ UNCHANGED lvars
       \/ job = "review" /\ LabelNext /\ UNCHANGED vars
    /\ UNCHANGED job
CorporaSpec == CorporaInit /\ [][CorporaNext]_<<vars, lvars, job>>

-----------------------------------------------------------------------------
Password(p) == [method |-> "password", pair |-> p]

\* Two sessions from a, two from b that try the same pairs, one from b that
\* tries another pair, and a telnet session from b.
MCIp == s1 :> a @@ s2 :> a @@ s3 :> b @@ s4 :> b @@ s5 :> b @@ s6 :> b
MCProtocol == [s \in Sess |-> IF s = s6 THEN "telnet" ELSE "ssh"]
MCAttempts == s1 :> {Password(1)} @@ s2 :> {Password(2)} @@ s3 :> {Password(2)}
              @@ s4 :> {Password(1), [method |-> "publickey", pair |-> 3]}
              @@ s5 :> {Password(3)} @@ s6 :> {Password(1)}

\* Two sessions of one class and one of the other.
MCAttackerClass == <<"automated_scanner", "apt", "automated_scanner">>

=============================================================================
