------------------------------ MODULE MCIoLoop ------------------------------
(* An instance of IoLoop for TLC.                                          *)
EXTENDS IoLoop

CONSTANTS t1, x1

\* The main future and a task accept on one listener.
Accept == {<<<<x1, "Read">>, "do_io">>}
=============================================================================
