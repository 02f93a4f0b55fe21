------------------------------ MODULE MCProxy ------------------------------
(* The objects of the runs: two that fit and one that exceeds the limit, or   *)
(* one that fits and one that a slot cannot hold together with its key.       *)
EXTENDS Proxy, TLC

CONSTANTS u1, u2, u3

HugeKind == u1 :> "text" @@ u2 :> "text" @@ u3 :> "huge"
LargeKind == u1 :> "text" @@ u2 :> "large"

(* A page that quotes the request for the one that is never cached, and one that
   quotes its own; in the small run none. *)
SomeQuotes == u1 :> {u3} @@ u2 :> {u2} @@ u3 :> {}
NoQuotes == u1 :> {} @@ u2 :> {}

=============================================================================
