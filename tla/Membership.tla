----------------------------- MODULE Membership -----------------------------
(***************************************************************************)
(* What the hub promises of groups: a connection that has come is in one   *)
(* group, or on its way from one to the next, or has been left without     *)
(* one; each of these changes is made at one moment; and when it has gone  *)
(* no group has it, for ever.                                              *)
(***************************************************************************)
CONSTANTS
    Con,        \* the connections
    Group,      \* the groups
    Default     \* the group a connection comes into

VARIABLES
    members,    \* per group, the connections it has
    phase       \* per connection: "new", "open", "moving" or "gone"

vars == <<members, phase>>

Init ==
    /\ members = [g \in Group |-> {}]
    /\ phase = [c \in Con |-> "new"]

Enter(c, g) ==
    /\ members' = [members EXCEPT ![g] = @ \cup {c}]
    /\ phase' = [phase EXCEPT ![c] = "open"]

(* No group has c any more. *)
Leave(c, for) ==
    /\ phase[c] = "open"
    /\ members' = [g \in Group |-> members[g] \ {c}]
    /\ phase' = [phase EXCEPT ![c] = for]

Connect(c) == phase[c] = "new" /\ Enter(c, Default)
MoveOut(c) == Leave(c, "moving")
MoveIn(c, g) == phase[c] = "moving" /\ Enter(c, g)
Disconnect(c) == Leave(c, "gone")

(* Everybody is sent away from a group. *)
Empty(g) == members' = [members EXCEPT ![g] = {}] /\ UNCHANGED phase

Next ==
    \/ \E c \in Con : Connect(c) \/ MoveOut(c) \/ Disconnect(c)
    \/ \E c \in Con, g \in Group : MoveIn(c, g)
    \/ \E g \in Group : Empty(g)

Spec == Init /\ [][Next]_vars

=============================================================================
