----------------------------- MODULE MCReactor -----------------------------
(* An instance of Reactor for TLC.                                         *)
EXTENDS Reactor

CONSTANTS t1, t2, x1, x2

\* x1 is connected or bound, then read, accepted from and written; x2 is only
\* what an accept may return.
OneSocket ==
  { <<<<x1, "Write">>, "connect">>,
    <<<<x1, "Read">>, "do_io">>,
    <<<<x1, "Read">>, "poll_io">>,
    <<<<x1, "Write">>, "poll_io">> }
=============================================================================
