------------------------------ MODULE MCService ------------------------------
(* Instances of Service for TLC. *)
EXTENDS Service

(* One request of every command, and of those that a second run of the     *)
(* service makes interesting one more, with the token of that run.  Each   *)
(* may arrive any number of times.                                         *)
Made(n, cmd, run) == [id |-> n, cmd |-> cmd, token |-> run]

FirstRun ==
  {Made(1, "configure", 1), Made(2, "start", 1), Made(3, "mark", 1), Made(4, "simulate", 1),
   Made(5, "pause", 1), Made(6, "resume", 1), Made(7, "fault", 1), Made(8, "stop", 1),
   Made(9, "recover", 1)}

SecondRun ==
  {Made(10, "read", 2), Made(11, "configure", 2), Made(12, "start", 2),
   Made(13, "recover all", 2)}

AllRequests == FirstRun \cup SecondRun

==============================================================================
