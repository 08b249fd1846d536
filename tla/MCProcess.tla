----------------------------- MODULE MCProcess -----------------------------
(* Three commands with pipes of one write, so that a pipe is soon full, and  *)
(* outputs of two.                                                           *)
EXTENDS Process
=============================================================================
