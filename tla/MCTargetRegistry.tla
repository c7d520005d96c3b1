--------------------------- MODULE MCTargetRegistry ---------------------------
(* Two users, one of whom has a Keycloak UUID, and one domain and one URL. *)
EXTENDS TargetRegistry

CONSTANTS alice, bob, aliceUUID

MCDerive == [s \in {aliceUUID} |-> alice]

\* An admin sorts by created_at descending, a customer as the customer likes.
MCQuestions ==
  {q \in SearchParameters :
     IF q.by = "admin"
     THEN q.sort = "created_at" /\ ~q.ascending /\ q.user_id \in {NULL, bob} /\ q.status = NULL
     ELSE q.by = alice /\ q.user_id = alice /\ q.source = NULL /\ q.status \in {NULL, "verified"}
          /\ (q.sort = "created_at" => q.status = "verified" /\ ~q.ascending)}
===============================================================================
