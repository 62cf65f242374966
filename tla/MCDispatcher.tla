---------------------------- MODULE MCDispatcher ----------------------------
(***************************************************************************)
(* Dispatcher for TLC: a push of two chunks over a pool of two peers.      *)
(***************************************************************************)
EXTENDS Dispatcher

CONSTANTS c1, c2, e1, e2

\* One peer at a time, with a peer beyond the limit; one at a time, where the
\* second replaces the first; both peers at once, for both chunks; and both for
\* a chunk at a time, while a session ends.
Calls ==
  {[max_retries |-> 1, buffer |-> 2, parallel |-> 1, ends |-> {e1}],
   [max_retries |-> 2, buffer |-> 2, parallel |-> 1, ends |-> {}],
   [max_retries |-> 2, buffer |-> 2, parallel |-> 2, ends |-> {}],
   [max_retries |-> 2, buffer |-> 1, parallel |-> 2, ends |-> {e1}]}
=============================================================================
