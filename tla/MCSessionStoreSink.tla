-------------------------- MODULE MCSessionStoreSink --------------------------
(* Small instances of SessionStoreSink: the costs of the events. *)
EXTENDS SessionStoreSink

CONSTANTS a, b, c, big

\* Two events of cost 1 and one of cost 2 share a budget of 3 with each other;
\* big never fits.
SmallCosts == [e \in Events |-> CASE e = c -> 2 [] e = big -> 4 [] OTHER -> 1]
===============================================================================
