------------------------------ MODULE LoadSpec ------------------------------
(***************************************************************************)
(* What direct firmware loading promises (doc/src/index.adoc, "Direct      *)
(* Firmware Loading"), seen from the 8051: it runs, it is put into reset,  *)
(* and it leaves reset only on a complete image.  How the image gets into  *)
(* CODE RAM is not visible here.                                           *)
(***************************************************************************)
CONSTANTS
  Loadable,   \* the images that fit the chip
  OwnCode     \* what the 8051 may boot by itself: its ROM, its own CODE RAM

VARIABLES
  cpu,      \* "running" or "reset"
  booted    \* the code the 8051 was last started on

vars == <<cpu, booted>>

Init == cpu = "running" /\ booted \in OwnCode

Stop == cpu = "running" /\ cpu' = "reset" /\ UNCHANGED booted

Start(c) == cpu = "reset" /\ cpu' = "running" /\ booted' = c

Reboot(o) == cpu = "running" /\ UNCHANGED cpu /\ booted' = o

Next ==
  \/ Stop
  \/ \E c \in Loadable : Start(c)
  \/ \E o \in OwnCode : Reboot(o)

Spec == Init /\ [][Next]_vars
=============================================================================
