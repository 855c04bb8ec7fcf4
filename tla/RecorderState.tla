---------------------------- MODULE RecorderState ----------------------------
(***************************************************************************)
(* The transition table of crates/icepod-core/src/state.rs.  The service   *)
(* and every session manifest carry one of these states, and every change  *)
(* of state in the program goes through `transition` except the one made   *)
(* by recover_session, which assigns Completed directly.                   *)
(***************************************************************************)

States == {"Idle", "Configured", "Armed", "Recording", "Paused", "Stopping",
           "Finalizing", "Completed", "Faulted", "Recovering"}

Transitions ==
  [Idle       |-> {"Configured"},
   Configured |-> {"Armed", "Idle"},
   Armed      |-> {"Recording", "Configured"},
   Recording  |-> {"Paused", "Stopping", "Faulted"},
   Paused     |-> {"Recording", "Stopping", "Faulted"},
   Stopping   |-> {"Finalizing", "Faulted"},
   Finalizing |-> {"Completed", "Faulted"},
   Faulted    |-> {"Recovering"},
   Recovering |-> {"Completed", "Faulted"},
   Completed  |-> {"Configured", "Recovering"}]

(* transition(self, to) succeeds. *)
CanTransition(from, to) == to \in Transitions[from]

==============================================================================
