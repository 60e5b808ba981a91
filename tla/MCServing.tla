------------------------------ MODULE MCServing ------------------------------
(***************************************************************************)
(* Serving, from the transport to the browser, one part per behaviour.     *)
(* "kafka": two generators of a group over three messages.  "worker": the  *)
(* inference worker on a stream of two matches, one of which is played     *)
(* twice.  "page": a browser's page, of which two sockets may exist at     *)
(* once, on two matches of one round.                                      *)
(***************************************************************************)
EXTENDS KafkaBroker, InferenceWorker, Dashboard

CONSTANTS m1, m2

VARIABLES part \* which of the three the behaviour is about

Freeze(m) == [match |-> m, kind |-> "tick", scoreable |-> FALSE]
Live(m) == [match |-> m, kind |-> "tick", scoreable |-> TRUE]
Kill(m) == [match |-> m, kind |-> "other", scoreable |-> FALSE]
Over(m) == [match |-> m, kind |-> "match_end", scoreable |-> FALSE]

MCMatches == {m1, m2}

MCStream == <<Freeze(m1), Live(m1), Live(m2), Live(m1), Kill(m1), Over(m1), Live(m1)>>

MCWirings == [broker : BOOLEAN, store : BOOLEAN]

Frame(type, seq, live) == [type |-> type, seq |-> seq, round |-> 1, live |-> live]

MCScript ==
  <<Frame("tick", 1, FALSE), Frame("tick", 2, TRUE), Frame("round_end", 3, FALSE),
    Frame("match_end", 4, FALSE)>>

servingVars == <<part, vars, workerVars, dashVars>>

\* What is not looked at stays in its initial state.
MCInit ==
  /\ part \in {"kafka", "worker", "page"}
  /\ Init
  /\ WorkerInit /\ (part # "worker" => wiring = [broker |-> FALSE, store |-> FALSE])
  /\ DashInit /\ (part # "page" => ~late)

PageOnly == part = "page" /\ UNCHANGED <<part, vars, workerVars>>

MCNext ==
  \/ part = "kafka" /\ Next /\ UNCHANGED <<part, workerVars, dashVars>>
  \/ part = "worker" /\ WorkerNext /\ UNCHANGED <<part, vars, dashVars>>
  \/ DashNext /\ PageOnly

\* The fairness of the broker and that of DashSpec.
MCSpec ==
  /\ MCInit /\ [][MCNext]_servingVars
  /\ Fairness
  /\ WF_servingVars(Retry /\ PageOnly)
  /\ \A s \in Slots :
       /\ WF_servingVars(Opened(s) /\ PageOnly)
       /\ WF_servingVars(Closed(s) /\ PageOnly)
       /\ WF_servingVars(ClosedLate(s) /\ PageOnly)
=============================================================================
