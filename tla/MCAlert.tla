------------------------------- MODULE MCAlert -------------------------------
EXTENDS Alert

MCDefault == [enabled |-> FALSE, errors |-> TRUE, latency |-> FALSE, silence |-> 1]

(* Everything on, and everything off again.                                *)
MCRuleSets ==
  { MCDefault, [enabled |-> TRUE, errors |-> TRUE, latency |-> TRUE, silence |-> 2] }
=============================================================================
