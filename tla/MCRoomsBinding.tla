---------------------------- MODULE MCRoomsBinding ----------------------------
(* One card in the review room and two requests one after the other. *)
EXTENDS TeamDesk

OnePolicy == {[allowed |-> Actions, rules |-> <<>>]}
ReviewPosts == [r \in DOMAIN Kinds |-> IF r = "review" THEN 1 ELSE 0]
FewRequests == [r \in DOMAIN Kinds |-> 2]
=============================================================================
