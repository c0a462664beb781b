------------------------------ MODULE WsOutbox ------------------------------
(***************************************************************************)
(* What a WebSocket connection promises about the messages given to it:    *)
(* they are handed to the transport in the order they were accepted, one   *)
(* at a time, and an accepted message never waits behind nothing, unless   *)
(* the connection has been shut.                                           *)
(***************************************************************************)
EXTENDS Naturals, Sequences

CONSTANT Msg

VARIABLES
    accepted,   \* every message accepted, in order
    sent,       \* every message handed to the transport, in order
    acked,      \* how many of them the transport has reported back
    shut        \* the connection no longer promises progress

vars == <<accepted, sent, acked, shut>>

(***************************************************************************)
(* At most one message is with the transport; while messages are pending   *)
(* there is exactly one, unless the connection is shut.                    *)
(***************************************************************************)
Flow(a, s, k, over) ==
    /\ Len(s) \in k .. (k + 1)
    /\ Len(s) <= Len(a)
    /\ (k < Len(a) /\ ~over) => Len(s) = k + 1

(***************************************************************************)
(* The messages the transport may have been given after a step: those it   *)
(* had, perhaps with the next accepted one.                                *)
(***************************************************************************)
MayHandOver(s, a) ==
    {s} \cup IF Len(s) < Len(a) THEN {Append(s, a[Len(s) + 1])} ELSE {}

Init ==
    /\ accepted = <<>>
    /\ sent = <<>>
    /\ acked = 0
    /\ shut = FALSE

Accept(m) ==
    /\ accepted' = Append(accepted, m)
    /\ sent' \in MayHandOver(sent, accepted')
    /\ Flow(accepted', sent', acked, shut)
    /\ UNCHANGED <<acked, shut>>

Acknowledge ==
    /\ acked < Len(sent)
    /\ acked' = acked + 1
    /\ sent' \in MayHandOver(sent, accepted)
    /\ Flow(accepted, sent', acked', shut)
    /\ UNCHANGED <<accepted, shut>>

Shut ==
    /\ shut' = TRUE
    /\ UNCHANGED <<accepted, sent, acked>>

Next == (\E m \in Msg : Accept(m)) \/ Acknowledge \/ Shut

Spec == Init /\ [][Next]_vars

=============================================================================
