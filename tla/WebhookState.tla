---------------------------- MODULE WebhookState ----------------------------
(* The rows of outgoing webhooks and the history of their posts, and what    *)
(* must hold between the two; WebhookDelivery has the steps.                 *)
EXTENDS Integers, FiniteSets

CONSTANTS
  DeliveryIds, \* ids of delivery rows
  MaxPosts     \* maxAttempts of the endpoints, at least one

VARIABLES
  delivery,  \* the rows of webhook_delivery
  posts,     \* posts of each row so far, counted up to MaxPosts
  refused    \* rows that an endpoint refused for good

\* A row is dead only when the endpoint refused it or when it was posted as often
\* as its budget says: rounds that overlap write counts that are out of date, but
\* never a count above the posts.
DeadWasTried ==
  \A d \in DeliveryIds : delivery[d].status = "dead" =>
    d \in refused \/ posts[d] = MaxPosts
=============================================================================
