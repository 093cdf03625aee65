---------------------------- MODULE Installation ----------------------------
(***************************************************************************)
(* What a host tool and a bootloader together promise to whoever runs the  *)
(* tool: one image is asked for at a time, the device may lose what it has *)
(* and gain an image on the way, and the tool reports success only when    *)
(* the device has the image asked for.  From then on nothing changes on    *)
(* the device until the tool is run again.                                 *)
(***************************************************************************)
CONSTANTS Images, Nothing

VARIABLES
  wanted,      \* the image asked for last
  installed,   \* the image the device would start, or Nothing
  verdict      \* "none", "running", "ok" or "failed"

vars == <<wanted, installed, verdict>>

Init == wanted = Nothing /\ installed = Nothing /\ verdict = "none"

Ask(image) ==
  /\ verdict # "running"
  /\ wanted' = image /\ verdict' = "running"
  /\ UNCHANGED installed

Wipe ==
  /\ verdict # "ok"
  /\ installed' = Nothing
  /\ UNCHANGED <<wanted, verdict>>

Install(image) ==
  /\ verdict # "ok"
  /\ installed' = image
  /\ UNCHANGED <<wanted, verdict>>

Succeed ==
  /\ verdict = "running" /\ installed = wanted
  /\ verdict' = "ok"
  /\ UNCHANGED <<wanted, installed>>

GiveUp ==
  /\ verdict = "running"
  /\ verdict' = "failed"
  /\ UNCHANGED <<wanted, installed>>

Next ==
  \/ \E image \in Images : Ask(image) \/ Install(image)
  \/ Wipe \/ Succeed \/ GiveUp

Spec == Init /\ [][Next]_vars

==============================================================================
