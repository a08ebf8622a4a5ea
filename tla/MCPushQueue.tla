---------------------------- MODULE MCPushQueue ----------------------------
(* One browser push to one device, drained by one sweep. *)
EXTENDS PushQueue

CONSTANTS s1, push, phone

OnePush == {push}
NoPush == {}
OneDevice == {phone}
OneSweep == {s1}
=============================================================================
