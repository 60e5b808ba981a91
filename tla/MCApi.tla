-------------------------------- MODULE MCApi --------------------------------
(***************************************************************************)
(* Two views of the API, one per behaviour.  "hub": the process serves     *)
(* throughout; one client watches the match that is played, the other one  *)
(* every match, or a match nobody plays.  "process": the whole life of the *)
(* process, with the first client only.  The topic is the end of a match.  *)
(***************************************************************************)
EXTENDS ApiLifecycle, TLC

CONSTANTS c1, c2

VARIABLE part

mcVars == <<part, processVars>>

MCAudiences ==
  {c1 :> Match @@ c2 :> other : other \in {AllMatches, "elsewhere"}}

MCTopic ==
  <<[type |-> "tick", seq |-> 1], [type |-> "kill", seq |-> 2],
    [type |-> "round_end", seq |-> 3], [type |-> "match_end", seq |-> 4]>>

MCInit ==
  \/ part = "process" /\ ApiInit /\ watch[c2] = AllMatches
  \/ /\ part = "hub" /\ HubInit
     /\ phase = "serving" /\ store = "open" /\ manager = TRUE /\ engine = TRUE
     /\ probe = [route |-> "answered", ok |-> TRUE]

MCNext ==
  \/ part = "process" /\ ApiNext /\ serving'[c2] = "none" /\ UNCHANGED part
  \/ part = "hub" /\ HubNext /\ UNCHANGED <<part, apiVars>>

MCSpec ==
  /\ MCInit /\ [][MCNext]_mcVars
  /\ ApiFairness
=============================================================================
