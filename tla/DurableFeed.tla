------------------------------ MODULE DurableFeed ------------------------------
(***************************************************************************)
(* What the canonical event sink promises to a run, without its queue, its *)
(* drain thread or its byte budget: the events it accepts become durable   *)
(* in the order of acceptance, and the run is told "ok" only when every    *)
(* accepted event is durable.  After the answer nothing is accepted.       *)
(***************************************************************************)
EXTENDS Naturals, Sequences

CONSTANT Events

VARIABLES
    feed,        \* accepted events, in order of acceptance
    log,         \* durable events
    outcome      \* "open", then the answer of close: "ok" or "err"

feedVars == <<feed, log, outcome>>

FeedInit ==
    /\ feed = <<>>
    /\ log = <<>>
    /\ outcome = "open"

Accept(e) ==
    /\ outcome = "open"
    /\ feed' = Append(feed, e)
    /\ UNCHANGED <<log, outcome>>

\* The durable log grows along the feed: no gap, no reordering, no duplicate.
Persist ==
    /\ outcome = "open"
    /\ \E n \in Len(log) .. Len(feed) : log' = SubSeq(feed, 1, n)
    /\ UNCHANGED <<feed, outcome>>

Answer(result) ==
    /\ outcome = "open"
    /\ result = "ok" => log = feed
    /\ outcome' = result
    /\ UNCHANGED <<feed, log>>

FeedNext ==
    \/ \E e \in Events : Accept(e)
    \/ Persist
    \/ \E result \in {"ok", "err"} : Answer(result)

FeedSpec == FeedInit /\ [][FeedNext]_feedVars
===============================================================================
