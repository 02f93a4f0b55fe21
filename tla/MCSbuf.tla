------------------------------- MODULE MCSbuf -------------------------------
(* The proxy's buffer with its one producer, main, and three of the workers, a*)
(* capacity of two that five insertions go round more than twice.             *)
EXTENDS Sbuf, TLC

=============================================================================
