---------------------------- MODULE RoutingTable ----------------------------
(***************************************************************************)
(* What the router promises to those who configure it and to requests:     *)
(* each call takes effect at one moment and on all that was there before,  *)
(* once; a request takes the table as it is at one moment, and keeps it.   *)
(***************************************************************************)
CONSTANTS
    Request,        \* the requests
    Update,         \* the calls that configure the router, each made once
    Initial,        \* the table it starts with
    Changed(_, _)   \* the table that a call makes of a table

VARIABLES
    table,      \* the table
    made,       \* the calls that have taken effect
    taken       \* what each request has: nothing yet, or one table

vars == <<table, made, taken>>

Init ==
    /\ table = Initial
    /\ made = {}
    /\ taken = [r \in Request |-> <<>>]

Configure(u) ==
    /\ u \notin made
    /\ table' = Changed(table, u)
    /\ made' = made \cup {u}
    /\ UNCHANGED taken

Take(r) ==
    /\ taken[r] = <<>>
    /\ taken' = [taken EXCEPT ![r] = <<table>>]
    /\ UNCHANGED <<table, made>>

Next == (\E u \in Update : Configure(u)) \/ (\E r \in Request : Take(r))

Spec == Init /\ [][Next]_vars

=============================================================================
