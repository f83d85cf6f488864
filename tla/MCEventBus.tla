----------------------------- MODULE MCEventBus -----------------------------
(***************************************************************************)
(* Two clients, a ring of two slots, and five publications: a client can   *)
(* be overrun, go on, and be overrun again.                                *)
(***************************************************************************)
EXTENDS EventBusHistory

CONSTANTS s1, s2

MCSubscribers == {s1, s2}
=============================================================================
