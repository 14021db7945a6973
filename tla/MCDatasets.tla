----------------------------- MODULE MCDatasets -----------------------------
(* An instance of Datasets for TLC. *)
EXTENDS Datasets, TLC

CONSTANTS s1, s2, s3

\* Two ssh sessions of one week that start together, and a telnet session.
MCId == s1 :> 1 @@ s2 :> 2 @@ s3 :> 3
MCStart == s1 :> 0 @@ s2 :> 0 @@ s3 :> 1
MCProtocol == s1 :> "ssh" @@ s2 :> "ssh" @@ s3 :> "telnet"
MCPageLimit == [sessions |-> 1, commands |-> 2]
MCHits == s1 :> 3 @@ s2 :> 0 @@ s3 :> 1
MCIp == s1 :> 4 @@ s2 :> 3 @@ s3 :> 9
MCAsnFile == <<[from |-> 4, to |-> 6, asn |-> "AS2"], Malformed, [from |-> 1, to |-> 2, asn |-> "AS1"]>>

=============================================================================
