--------------------------- MODULE MCSshConnection ---------------------------
(* Instances of SshConnection for TLC. *)
EXTENDS SshConnection, TLC

CONSTANTS c1, c2

=============================================================================
