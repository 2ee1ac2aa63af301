----------------------------- MODULE WebhookState -----------------------------
(***************************************************************************)
(* The webhook configuration of one instance, where it is stored, cached   *)
(* and used, and what its readers may rely on.  WebhookDelivery has the    *)
(* steps that change it.                                                   *)
(***************************************************************************)
EXTENDS Naturals

CONSTANTS
  Messages,    \* incoming messages
  Writers,     \* requests that set the configuration
  None

VARIABLES
  exists,     \* is the instance's row there?
  row,        \* its webhook_url and webhook_secret, and which write they are
  cached,     \* is there an entry webhookCache[instanceID]?
  entry,      \* the entry: a reading of the row; fresh before ExpiresAt
  msg,        \* the handler, then the delivery, of each message
  req,        \* the request of each writer
  deleting,   \* the request that deletes the instance: has it deleted the row?
  answered    \* history: the newest write a request was answered with

webhook == <<exists, row, cached, entry, msg, req, deleting, answered>>

-----------------------------------------------------------------------------
(* Properties.                                                             *)

\* A message handled after a request was answered goes to the URL, and is
\* signed with the secret, of that request or a later one; unless it took them
\* from a cache entry whose fill had read the row before the cache was
\* invalidated (GetWebhookConfig, InvalidateWebhookCache).
UsesAnswered ==
  \A m \in Messages :
    msg[m].pc = "post" => msg[m].config.ver >= msg[m].floor \/ msg[m].late

\* The receiver's secret changes only when a request names a new one, or when
\* another request has written the row since this one read it
\* (resolveWebhookSecret reuses the stored secret).
SecretKept ==
  [][ \A w \in Writers :
        /\ req[w].pc = "update" /\ req'[w].pc # "update"
        /\ row.secret # None /\ row'.secret # row.secret
        => req[w].secret # None \/ req[w].seen.ver # row.ver ]_webhook
=============================================================================
