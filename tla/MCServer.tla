------------------------------ MODULE MCServer ------------------------------
(***************************************************************************)
(* Small instances of Server for TLC.                                      *)
(***************************************************************************)
EXTENDS Server

CONSTANTS s1, s2, s3

ThreeSessions == {s1, s2, s3}

=============================================================================
