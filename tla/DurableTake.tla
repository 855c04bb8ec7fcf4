------------------------------ MODULE DurableTake ------------------------------
(***************************************************************************)
(* What a recording session promises the people in front of the            *)
(* microphones (docs/crash-recovery.md): the take has a durable frontier   *)
(* that only grows, and when the take is delivered, as final files or as   *)
(* recovered ones, what is delivered is the whole of it, once and for all. *)
(* A crash is not an action here: it must not be observable.               *)
(***************************************************************************)
EXTENDS Naturals

CONSTANT NotDelivered   \* not a number of frames

VARIABLES
  frontier,   \* frames safe on disk
  delivered   \* frames of the published take, or NotDelivered

Init == frontier = 0 /\ delivered = NotDelivered

(* A writer batch becomes durable. *)
Commit ==
  /\ delivered = NotDelivered
  /\ frontier' \in Nat /\ frontier' > frontier
  /\ UNCHANGED delivered

(* session.json becomes Complete or Recovered. *)
Deliver ==
  /\ delivered = NotDelivered
  /\ delivered' = frontier
  /\ UNCHANGED frontier

Next == Commit \/ Deliver

Spec == Init /\ [][Next]_<<frontier, delivered>>

================================================================================
