----------------------------- MODULE MCConsole -----------------------------
(* An instance of Console for TLC. *)
EXTENDS Console

CONSTANT c1

\* One command: its two messages and the connected message are enough to fill
\* the channel under the log streamer.
OneCommand == {c1}
=============================================================================
