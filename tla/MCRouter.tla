------------------------------- MODULE MCRouter -------------------------------
(* Two session ids for a table of one, two loops that sleep for a tick, and*)
(* a channel in which callers may leave one command.                        *)
EXTENDS Router
=============================================================================
