---------------------------- MODULE MCGateway ----------------------------
(* A request with up to two redirects, chunks of one or two units and an *)
(* extraction of up to two SquashFS images.                              *)
EXTENDS Gateway
=============================================================================
