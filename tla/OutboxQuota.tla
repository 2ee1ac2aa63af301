----------------------------- MODULE OutboxQuota -----------------------------
(***************************************************************************)
(* What enqueue requests have stored in the outbox, and the daily limit    *)
(* they all keep to.  OutboxEnqueue has the transactions that fill it.     *)
(***************************************************************************)
EXTENDS Naturals, FiniteSets

CONSTANTS
  Client,     \* users of the API
  ClientOf,   \* the user a request authenticates
  MaxDaily,   \* OUTBOX_MAX_DAILY_PER_USER
  LastDay     \* bound: days that pass

VARIABLES
  day,       \* the day the transaction of each request began
  rows       \* the committed rows: the k-th row of request r is <<r, k>>

Day == 0..LastDay

RowsOf(c) == {x \in rows : ClientOf[x[1]] = c}

-----------------------------------------------------------------------------
(* Properties.                                                             *)

\* No client ever has more rows of one day in the outbox than the limit,
\* whatever runs concurrently and wherever midnight falls.
DailyLimit ==
  \A c \in Client, d \in Day : Cardinality({x \in RowsOf(c) : day[x[1]] = d}) <= MaxDaily
=============================================================================
