---------------------------- MODULE StartPromise ----------------------------
(***************************************************************************)
(* What starting an entry promises whoever asks (launch/server.rs): one    *)
(* process at a time while it starts, a process handed over when it is     *)
(* ready, and none left behind when it failed.  Slots takes a start as     *)
(* these steps.                                                            *)
(***************************************************************************)
VARIABLES status, alive

pvars == <<status, alive>>

PInit == status = "idle" /\ alive = FALSE

Begin == status = "idle" /\ status' = "starting" /\ UNCHANGED alive

Spawned == status = "starting" /\ ~alive /\ alive' = TRUE /\ UNCHANGED status

(* A process may die at any moment, also one that was handed over. *)
Died == alive /\ alive' = FALSE /\ UNCHANGED status

Ready == status = "starting" /\ status' = "ready" /\ UNCHANGED alive

Failed == status = "starting" /\ status' = "failed" /\ alive' = FALSE

PNext == Begin \/ Spawned \/ Died \/ Ready \/ Failed

PSpec == PInit /\ [][PNext]_pvars
=============================================================================
