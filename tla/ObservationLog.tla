--------------------------- MODULE ObservationLog ---------------------------
(***************************************************************************)
(* What Core's observation store promises, without saying how: a set of    *)
(* durable batches that only grows, acknowledgements given for durable     *)
(* batches only, and a view of the observations that holds one report of   *)
(* each: the longest of an interval, and of a point observation one of the *)
(* reports made of it.  Where the reports of an observation agree, the     *)
(* view is a function of the durable set, so of neither the order nor the  *)
(* number of deliveries; where they differ (two of the browser script in   *)
(* one millisecond), which one the view holds may change at any delivery.  *)
(* Crashes, restarts, failed writes and retries are invisible here.        *)
(***************************************************************************)
EXTENDS Observations

VARIABLES
  durable,  \* the batches whose observations are on disk
  view,     \* the retained observations on disk
  acked     \* the batches Core answered 202 for

logVars == <<durable, view, acked>>

LogInit == durable = {} /\ view = {} /\ acked = {}

(* Batches become durable, several at once when earlier ones were refused.  *)
Persist ==
  /\ \E S \in SUBSET Batches : durable' = durable \cup S
  /\ view' \in SUBSET Newest(durable')
  /\ IsViewOf(view', durable')
  /\ UNCHANGED acked

Acknowledge ==
  /\ \E b \in durable : acked' = acked \cup {b}
  /\ UNCHANGED <<durable, view>>

LogNext == Persist \/ Acknowledge

LogSpec == LogInit /\ [][LogNext]_logVars
=============================================================================
