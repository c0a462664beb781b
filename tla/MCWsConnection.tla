--------------------------- MODULE MCWsConnection ---------------------------
(***************************************************************************)
(* Small instances of WsConnection for TLC: the threads and the payloads   *)
(* are model values.                                                       *)
(***************************************************************************)
EXTENDS WsConnection, TLC

(* A handler that sends or closes wherever it is called, and one that does *)
(* so everywhere but in on_disconnect called from send_cb.                 *)
Anywhere == Handler
NotUnderLock == Handler \ {"disc_write"}

Symmetry == Permutations(App) \cup Permutations(Payload)

=============================================================================
