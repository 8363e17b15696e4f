------------------------- MODULE MCWebhookDelivery -------------------------
EXTENDS WebhookDelivery

CONSTANTS e1, e2

\* The first endpoint subscribes to every message, the second to the first two.
MCSubscribed == {<<e1, 1>>, <<e1, 2>>, <<e1, 3>>, <<e2, 1>>, <<e2, 2>>}
=============================================================================
