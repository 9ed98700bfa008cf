----------------------------- MODULE MCShutdown -----------------------------
(***************************************************************************)
(* Model checking of Shutdown: the server, one client that reads the board *)
(* and may itself be interrupted, two signals, and two of the writes of    *)
(* clear_lobby, so that a client can read between them.                    *)
(***************************************************************************)
EXTENDS Shutdown

CONSTANTS c1, srv, value, sigint, sigterm

OneClient  == {c1}
TwoSignals == {sigint, sigterm}
OneValue   == {value}
=============================================================================
