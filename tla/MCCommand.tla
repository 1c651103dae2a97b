----------------------------- MODULE MCCommand -----------------------------
(***************************************************************************)
(* Command on small instances: two overlapping commands and two fallback   *)
(* routes.                                                                 *)
(***************************************************************************)
EXTENDS Command

CONSTANTS first, second

\* A lock homed outside North America: its own token, then North America's, on
\* the North America host.
TwoFallbacks == << "own token", "na token" >>
=============================================================================
