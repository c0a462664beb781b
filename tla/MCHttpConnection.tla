-------------------------- MODULE MCHttpConnection --------------------------
(***************************************************************************)
(* A small instance of HttpConnection for TLC.                             *)
(***************************************************************************)
EXTENDS HttpConnection

CONSTANTS a1, a2

(* The worker makes every call, with care; handlers may throw. *)
OnWorker == [calls |-> {Worker} \X Op, careful |-> TRUE, throws |-> TRUE, limit |-> 6]

(* The worker reads the body, other threads send. *)
Senders == [calls |-> ({Worker} \X ReadOp) \cup (App \X {"send"}),
            careful |-> TRUE, throws |-> FALSE, limit |-> 6]

(* Handlers, callbacks and a thread they start make calls without care. *)
Free == [calls |-> ({Worker} \X {"read", "stream", "end"}) \cup ({a1} \X {"full", "send"}),
         careful |-> FALSE, throws |-> TRUE, limit |-> 3]

AllPrograms == {OnWorker, Senders, Free}

=============================================================================
