---------------------------- MODULE FriendGraph ----------------------------
(***************************************************************************)
(* What the social module promises of friendships, request handling left   *)
(* out: a directed relation between users that is asked for once, is then  *)
(* answered by its addressee as often as the addressee likes, and is never *)
(* forgotten nor made pending again.  FriendRequests implements it.        *)
(***************************************************************************)
CONSTANT Users

VARIABLE rel  \* rel[<<a, b>>]: how far the request of a to b has come

Answers == {"accepted", "rejected"}

GraphTypeOK == rel \in [Users \X Users -> {"none", "pending"} \union Answers]

Init == rel = [p \in Users \X Users |-> "none"]

Ask(a, b) ==
    /\ a # b
    /\ rel[<<a, b>>] = "none"
    /\ rel' = [rel EXCEPT ![<<a, b>>] = "pending"]

Answer(a, b, status) ==
    /\ rel[<<a, b>>] # "none"
    /\ rel' = [rel EXCEPT ![<<a, b>>] = status]

Next == \E a, b \in Users : Ask(a, b) \/ \E status \in Answers : Answer(a, b, status)

Spec == Init /\ [][Next]_rel
=============================================================================
