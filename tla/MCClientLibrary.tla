----------------------------- MODULE MCClientLibrary -----------------------------
(* TLC instance of ClientLibrary: the lines of MCTcpSession and one more.       *)
EXTENDS MCTcpSession, ClientLibrary

\* What the library's methods write: those lines, and one with bytes as a JSON array,
\* which is no Command.
MCCalls == DOMAIN MCJson \cup {<<boot, boot>>}
================================================================================
