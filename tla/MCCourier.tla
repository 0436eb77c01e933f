----------------------------- MODULE MCCourier ------------------------------
(***************************************************************************)
(* Bounds for CourierLoop: a fleet of two, so that the oldest differs from *)
(* the newest, and two shift ids, so that an orphan of an earlier start or *)
(* generator keeps an id from the fleet, which then lacks a courier.       *)
(***************************************************************************)
EXTENDS CourierLoop

\* A shift's signals are few at a time: the generator sends one, and the
\* next only after 15 seconds or another signal of the same tick.
=============================================================================
