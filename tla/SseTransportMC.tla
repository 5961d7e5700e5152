---------------------------- MODULE SseTransportMC ----------------------------
(* A small instance of SseTransport: the handshake and two more requests. *)
EXTENDS SseTransport
===============================================================================
