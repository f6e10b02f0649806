------------------------------ MODULE MCSession -----------------------------
(***************************************************************************)
(* Small instances of Session for TLC.                                     *)
(***************************************************************************)
EXTENDS SessionProperties

Received(type, empty, headerOk, bodyOk) ==
  [type |-> type, empty |-> empty, headerOk |-> headerOk, bodyOk |-> bodyOk]

Question == Received("Data", FALSE, TRUE, TRUE)
EmptyQuestion == Received("Data", TRUE, TRUE, TRUE)

(* One frame for each path through the read handlers.                      *)
AllFrames == {
  Question,
  EmptyQuestion,
  Received("Data", FALSE, TRUE, FALSE),
  Received("Ping", TRUE, TRUE, TRUE),
  Received("Pong", TRUE, TRUE, TRUE),
  Received("Other", TRUE, TRUE, TRUE),
  Received("Data", TRUE, FALSE, TRUE)}

(* Payloads alone, in the shortest form.                                   *)
Questions == {EmptyQuestion}

=============================================================================
