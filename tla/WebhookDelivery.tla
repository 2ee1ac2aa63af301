---------------------------- MODULE WebhookDelivery ----------------------------
(***************************************************************************)
(* Webhooks of one instance (internal/service/webhook.go): an incoming     *)
(* message takes the instance's URL and secret from a cache that a miss    *)
(* fills from the database, and is posted by a goroutine of its own, with  *)
(* retries.  Requests (internal/handler/webhook.go) change the row and     *)
(* then invalidate the cache; so does the deletion of the instance.        *)
(*                                                                         *)
(* A fill is a read of the cache, a read of the row and a write of the     *)
(* cache, under different locks: an update and its invalidation may both   *)
(* fall between them.  Instances share nothing but the cache's mutex, so   *)
(* one of them is enough.                                                  *)
(***************************************************************************)
EXTENDS WebhookState, FiniteSets

CONSTANTS
  Handlers,    \* how many messages whatsmeow hands over at the same time
  Urls,        \* URLs that pass validation
  Refused,     \* URLs that do not; None is the missing one
  Secrets,     \* secrets a request may ask for
  Attempts     \* len(webhookRetryBackoffs) + 1

ASSUME WebhookAssumption ==
  /\ Attempts \in Nat \ {0} /\ Handlers \in Nat \ {0}
  /\ None \notin Urls \union Secrets \union Writers
  /\ None \in Refused /\ Refused \intersect Urls = {}
  /\ Secrets \intersect Writers = {}

Version == Nat
\* A random secret is named after the request that generates it.
Secret == Secrets \union Writers \union {None}
Url    == Urls \union Refused
Config == [url : Url, secret : Secret, ver : Version]
NoConfig == [url |-> None, secret |-> None, ver |-> 0]
NoEntry  == [config |-> NoConfig, fresh |-> FALSE, late |-> FALSE]
Settled  == [pc |-> "done", config |-> NoConfig, floor |-> 0, late |-> FALSE, failed |-> 0]
Answered == [pc |-> "done", url |-> None, secret |-> None, seen |-> NoConfig]

Init ==
  /\ exists = TRUE
  /\ row = NoConfig
  /\ cached = FALSE
  /\ entry = NoEntry
  /\ msg = [m \in Messages |-> [Settled EXCEPT !.pc = "new"]]
  /\ req = [w \in Writers |-> [Answered EXCEPT !.pc = "idle"]]
  /\ deleting = FALSE
  /\ answered = 0

-----------------------------------------------------------------------------
(* GetWebhookConfig, called by the handler of an incoming message.         *)

Handling == {m \in Messages : msg[m].pc = "store"}

\* What the handler does with a configuration: nothing without a URL.
Send(m, config, floor, late) ==
  IF config.url = None THEN Settled
  ELSE [msg[m] EXCEPT !.pc = "post", !.config = config, !.floor = floor, !.late = late]

\* An entry that has not expired is used.
Hit(m) ==
  /\ msg[m].pc = "new" /\ cached /\ entry.fresh
  /\ Cardinality(Handling) < Handlers
  /\ msg' = [msg EXCEPT ![m] = Send(m, entry.config, answered, entry.late)]
  /\ UNCHANGED <<exists, row, cached, entry, req, deleting, answered>>

\* Otherwise the row is read: nothing depends on the time in between.  The
\* query may fail, as it does when the row is gone.
Load(m) ==
  /\ msg[m].pc = "new" /\ ~(cached /\ entry.fresh)
  /\ Cardinality(Handling) < Handlers
  /\ \/ /\ exists
        /\ msg' = [msg EXCEPT ![m].pc = "store", ![m].config = row, ![m].floor = answered]
     \/ msg' = [msg EXCEPT ![m] = Settled]
  /\ UNCHANGED <<exists, row, cached, entry, req, deleting, answered>>

Store(m) ==
  /\ msg[m].pc = "store"
  /\ cached' = TRUE
  /\ entry' = [config |-> msg[m].config, fresh |-> TRUE, late |-> msg[m].late]
  /\ msg' = [msg EXCEPT ![m] = Send(m, @.config, @.floor, @.late)]
  /\ UNCHANGED <<exists, row, req, deleting, answered>>

\* Five minutes pass.
Expire ==
  /\ cached /\ entry.fresh
  /\ entry' = [entry EXCEPT !.fresh = FALSE]
  /\ UNCHANGED <<exists, row, cached, msg, req, deleting, answered>>

\* Deviation: the sweeper takes the entries that are still valid.
sweepValid ==
  /\ cached /\ entry.fresh
  /\ cached' = FALSE /\ entry' = NoEntry
  /\ UNCHANGED <<exists, row, msg, req, deleting, answered>>

sweepExpiredWebhookCache ==
  /\ cached /\ ~entry.fresh
  /\ cached' = FALSE /\ entry' = NoEntry
  /\ UNCHANGED <<exists, row, msg, req, deleting, answered>>

-----------------------------------------------------------------------------
(* deliverWebhook.                                                         *)

\* An answer below 500, or a URL no request can be made of.
Accepted(m) ==
  /\ msg[m].pc = "post"
  /\ msg' = [msg EXCEPT ![m] = Settled]
  /\ UNCHANGED <<exists, row, cached, entry, req, deleting, answered>>

Fails(m) ==
  /\ msg[m].pc = "post"
  /\ UNCHANGED <<exists, row, cached, entry, req, deleting, answered>>

\* No answer, an answer of 500 and above, or an address the dialer refuses; the
\* last attempt is given up.
Failed(m) ==
  /\ Fails(m)
  /\ msg' = [msg EXCEPT ![m] = IF msg[m].failed + 1 = Attempts
                               THEN [Settled EXCEPT !.pc = "gaveUp"]
                               ELSE [msg[m] EXCEPT !.failed = msg[m].failed + 1]]

-----------------------------------------------------------------------------
(* SetWebhookConfig.                                                       *)

\* bindWebhookConfigRequest: a body without a URL, or with one that is refused,
\* is answered with an error.  ErrorResponse returns nil, so the request goes
\* on all the same.  It reads the instance, for its secret.
Ask(w, url, secret) ==
  /\ req[w].pc = "idle"
  /\ req' = [req EXCEPT ![w] =
               IF exists THEN [pc |-> "update", url |-> url, secret |-> secret, seen |-> row]
               ELSE Answered]
  /\ UNCHANGED <<exists, row, cached, entry, msg, deleting, answered>>

\* Deviation: a request that names no secret gets a new one.
resolveNewSecret(w) == IF req[w].secret # None THEN req[w].secret ELSE w

resolveWebhookSecret(w) ==
  IF req[w].secret # None THEN req[w].secret
  ELSE IF req[w].seen.secret # None THEN req[w].seen.secret
  ELSE w

Update(w) ==
  /\ req[w].pc = "update"
  /\ IF exists
     THEN /\ row' = [url |-> req[w].url, secret |-> resolveWebhookSecret(w),
                     ver |-> row.ver + 1]
          /\ req' = [req EXCEPT ![w].pc = "invalidate", ![w].seen = row']
     ELSE /\ req' = [req EXCEPT ![w] = Answered]
          /\ UNCHANGED row
  /\ UNCHANGED <<exists, cached, entry, msg, deleting, answered>>

\* InvalidateWebhookCache overtakes the fills that have read the row.
Invalidate ==
  /\ cached' = FALSE /\ entry' = NoEntry
  /\ msg' = [m \in Messages |->
       IF msg[m].pc = "store" THEN [msg[m] EXCEPT !.late = TRUE] ELSE msg[m]]

\* Deviation: the cache is left to expire.
AnswerOnly(w) ==
  /\ req[w].pc = "invalidate"
  /\ answered' = IF req[w].seen.ver > answered THEN req[w].seen.ver ELSE answered
  /\ req' = [req EXCEPT ![w] = Answered]
  /\ UNCHANGED <<exists, row, cached, entry, msg, deleting>>

InvalidateAndAnswer(w) ==
  /\ req[w].pc = "invalidate"
  /\ Invalidate
  /\ answered' = IF req[w].seen.ver > answered THEN req[w].seen.ver ELSE answered
  /\ req' = [req EXCEPT ![w] = Answered]
  /\ UNCHANGED <<exists, row, deleting>>

-----------------------------------------------------------------------------
(* DeleteInstance.                                                         *)

DeleteRow ==
  /\ exists
  /\ exists' = FALSE
  /\ deleting' = TRUE
  /\ UNCHANGED <<row, cached, entry, msg, req, answered>>

InvalidateDeleted ==
  /\ deleting
  /\ deleting' = FALSE
  /\ Invalidate
  /\ UNCHANGED <<exists, row, req, answered>>

-----------------------------------------------------------------------------

MessageStep(m) == Hit(m) \/ Load(m) \/ Store(m) \/ Accepted(m) \/ Failed(m)

WriterStep(w) ==
  \/ Update(w) \/ InvalidateAndAnswer(w)
  \/ \E url \in Url, secret \in Secrets \union {None} : Ask(w, url, secret)

Next ==
  \/ \E m \in Messages : MessageStep(m)
  \/ \E w \in Writers : WriterStep(w)
  \/ Expire \/ sweepExpiredWebhookCache
  \/ DeleteRow \/ InvalidateDeleted

Spec == Init /\ [][Next]_webhook

\* Handlers and deliveries go on, requests that began are answered, time passes
\* and the sweeper's ticker ticks.
Fairness ==
  /\ \A m \in Messages : WF_webhook(MessageStep(m))
  /\ \A w \in Writers : WF_webhook(Update(w) \/ InvalidateAndAnswer(w))
  /\ WF_webhook(Expire) /\ WF_webhook(sweepExpiredWebhookCache)
  /\ WF_webhook(InvalidateDeleted)

FairSpec == Spec /\ Fairness

-----------------------------------------------------------------------------
(* Properties.                                                             *)

\* Types.
TypeOK ==
  /\ exists \in BOOLEAN /\ cached \in BOOLEAN /\ deleting \in BOOLEAN
  /\ row \in Config
  /\ entry \in [config : Config, fresh : BOOLEAN, late : BOOLEAN]
  /\ msg \in [Messages -> [pc : {"new", "store", "post", "gaveUp", "done"},
                           config : Config, floor : Version, late : BOOLEAN,
                           failed : 0..Attempts - 1]]
  /\ req \in [Writers -> [pc : {"idle", "update", "invalidate", "done"},
                          url : Url, secret : Secret, seen : Config]]
  /\ answered \in Version

\* No entry outlives its instance for ever, not even one that a fill stored
\* after the deletion had invalidated the cache.
DeletedIsForgotten == ~exists ~> []~cached

=============================================================================
