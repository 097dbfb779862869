--------------------------- MODULE MCWebhookDelivery ---------------------------
EXTENDS WebhookDelivery

CONSTANTS d1, d2, d3

\* Deliveries differ in nothing but their names.
Names == Permutations(Deliveries)
===============================================================================
