-------------------------------- MODULE MCDesk --------------------------------
(* Instances of Desk for TLC. *)
EXTENDS Desk

(* The GUI by itself; the GUI next to a single command; a soak run next to *)
(* single commands.                                                        *)
Cases ==
  {[gui |-> 4, operator |-> 0, soak |-> 0], [gui |-> 2, operator |-> 1, soak |-> 0],
   [gui |-> 0, operator |-> 2, soak |-> 1]}

================================================================================
