-------------------------- MODULE MCNotifications ---------------------------
(***************************************************************************)
(* Small instances of Notifications for TLC.                               *)
(***************************************************************************)
EXTENDS Notifications

CONSTANTS u1, u2, t1, t2

\* u1 has two devices and lends one of them to u2.
MCDevice == {<<u1, t1>>, <<u1, t2>>, <<u2, t1>>}
=============================================================================
