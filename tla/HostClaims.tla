----------------------------- MODULE HostClaims -----------------------------
(***************************************************************************)
(* What flash.py prints at the end of an update session, that a behaviour  *)
(* of HostTransfer contradicts: the run that checks it is expected to find *)
(* the contradiction.                                                      *)
(***************************************************************************)
EXTENDS HostTransfer

\* flash.py:303-304 prints "global CRC verified" and "image marked TESTING".  exchange()
\* takes whatever answer comes first for the answer to its request, so an answer that
\* was late for an earlier one can stand for the answer to END.
SuccessMeansInstalled == host = "done" /\ toBoard = <<>> => installed
=============================================================================
