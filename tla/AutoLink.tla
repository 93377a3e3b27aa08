------------------------------- MODULE AutoLink -------------------------------
(***************************************************************************)
(* What uvlib's TCP client promises the application that uses it: a link   *)
(* that is "off", "down" (it is being set up), or "up", and "dead" when    *)
(* the process has ended.  While auto is set a link that is lost is set up *)
(* again.                                                                  *)
(***************************************************************************)
VARIABLES link, auto

linkAuto == <<link, auto>>

LinkInit == link = "off" /\ auto = FALSE

(* The application switches reconnecting on or off. *)
SetAuto == auto' = ~auto /\ UNCHANGED link

(* The application starts a link that is off. *)
TurnOn == link = "off" /\ link' = "down" /\ UNCHANGED auto

(* on_connect(cli, 1): only a link that was down comes up. *)
GoUp == link = "down" /\ link' = "up" /\ UNCHANGED auto

(* on_connect(cli, 0) of a link that will be set up again *)
GoDown == link = "up" /\ auto /\ link' = "down" /\ UNCHANGED auto

(* on_close: never while auto is set *)
TurnOff == link \in {"down", "up"} /\ ~auto /\ link' = "off" /\ UNCHANGED auto

Die == link # "dead" /\ link' = "dead" /\ UNCHANGED auto

LinkNext == SetAuto \/ TurnOn \/ GoUp \/ GoDown \/ TurnOff \/ Die

Spec == LinkInit /\ [][LinkNext]_linkAuto

=============================================================================
