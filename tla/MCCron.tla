------------------------------- MODULE MCCron -------------------------------
(* Model values and small periods for Cron. *)
EXTENDS Cron

Texts == {<<0, 0, 0, 0>>, <<0, 0, 0, 2>>, <<0, 0, 1, 0>>}
=============================================================================
