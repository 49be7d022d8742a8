------------------------------ MODULE MCSerio -------------------------------
(***************************************************************************)
(* The serial driver under three loads, chosen by the initial state: a     *)
(* program that sends through a full ring, with a byte coming in           *)
(* ("sending"), and a host that sends more than the chip and the ring      *)
(* hold, with a byte going out ("receiving") or with another device's      *)
(* interrupt ("disturbed").                                                *)
(*                                                                         *)
(* The bounds of a load limit what the program asks for, what the host     *)
(* sends and the other device, all of which nobody has to do: a call once  *)
(* made, the handler and the chip are as in Serio.                         *)
(***************************************************************************)
EXTENDS Serio

VARIABLE load

mvars == <<vars, load>>

MCInit ==
  /\ Init /\ load \in {"sending", "receiving", "disturbed"}
  /\ load # "sending" => control = 19200

MCNext ==
  /\ Next /\ UNCHANGED load
  /\ load = "sending" => nrx' <= 1
  /\ load = "receiving" => nother' = 0
  /\ load # "sending" =>
       /\ pc = "idle" /\ pc' = "w_loop" => ntx + regY' <= (IF load = "receiving" THEN 1 ELSE 0)
       /\ pc = "idle" /\ pc' = "r_loop" => regY' <= 2
       /\ control' = 19200

MCSpec == MCInit /\ [][MCNext]_mvars /\ Fairness
=============================================================================
