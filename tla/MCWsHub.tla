------------------------------ MODULE MCWsHub ------------------------------
(***************************************************************************)
(* Small instances of WsHub: two connections on two workers, two groups,   *)
(* and the operations each place may call.                                 *)
(***************************************************************************)
EXTENDS WsHub, TLC

CONSTANTS c1, c2, w1, w2

TwoWorkers == (c1 :> w1) @@ (c2 :> w2)

(* A connection is moved by its own handlers only; the application and a   *)
(* handler broadcast, the application closes everything.                   *)
OwnMoves ==
    {<<"on_connect", "move">>, <<"on_message", "move">>,
     <<"app", "broadcast">>, <<"on_message", "broadcast">>,
     <<"app", "close_all">>}

(* The connections are alike, each with its worker. *)
Swap == [x \in {c1, c2, w1, w2} |->
            CASE x = c1 -> c2 [] x = c2 -> c1 [] x = w1 -> w2 [] x = w2 -> w1]
Symmetry == {Swap}

(* Groups are closed, and nobody broadcasts. *)
Closing ==
    {<<"on_connect", "move">>, <<"app", "close_group">>}

(* A broadcast from the application, while connections are closed. *)
BroadcastAndClose ==
    {<<"app", "broadcast">>, <<"on_message", "close_group">>}

=============================================================================
