---------------------------- MODULE MCIssueWork ----------------------------
(* An instance of IssueWork: its users are model values. *)
EXTENDS IssueWork

CONSTANTS u1, u2
=============================================================================
