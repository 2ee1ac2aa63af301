-------------------------- MODULE MCWebhookDelivery --------------------------
EXTENDS WebhookDelivery
CONSTANTS m1, m2, w1, w2, u1, s1
MCMessages == {m1, m2}
MCWriters == {w1, w2}
MCUrls == {u1}
MCSecrets == {s1}
MCRefused == {None}
=============================================================================
