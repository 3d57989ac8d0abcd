----------------------------- MODULE MCSessions -----------------------------
(* One connection of either server with small limits. *)
EXTENDS AuthTlsSession

MCResponseSizes == {1, 2, 4}
=============================================================================
