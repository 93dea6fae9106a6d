-------------------------- MODULE HandoffContract ---------------------------
(***************************************************************************)
(* What main.c promises about handing the machine to kernel.efi: a kernel  *)
(* runs only after it was loaded and checked and after boot services were  *)
(* left, boot services are left at most once, and a handoff that has begun *)
(* may be given up at any time.                                            *)
(***************************************************************************)

VARIABLES
  phase,    \* how far the handoff is
  services  \* are boot services still available

contractVars == <<phase, services>>

Phases == {"idle", "loading", "checked", "left", "running", "failed"}

Init == phase = "idle" /\ services = TRUE

Begin == phase = "idle" /\ phase' = "loading" /\ UNCHANGED services

Check == phase = "loading" /\ phase' = "checked" /\ UNCHANGED services

LeaveFirmware ==
  /\ phase = "checked"
  /\ services
  /\ phase' = "left"
  /\ services' = FALSE

Run == phase = "left" /\ phase' = "running" /\ UNCHANGED services

GiveUp ==
  /\ phase \notin {"idle", "failed"}
  /\ phase' = "failed"
  /\ UNCHANGED services

Next == Begin \/ Check \/ LeaveFirmware \/ Run \/ GiveUp

Spec == Init /\ [][Next]_contractVars
=============================================================================
