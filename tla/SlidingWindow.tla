--------------------------- MODULE SlidingWindow ---------------------------
(***************************************************************************)
(* stream/window.py as operators: a time-bounded buffer, and the pair of   *)
(* buffers kept over the events of one match.  A timestamp is a number of  *)
(* clock units; an event is a record with a `type` and the fields the      *)
(* window reads.                                                           *)
(***************************************************************************)
EXTENDS Integers, Sequences, FiniteSets

\* _evict_before: pop from the left until an item is inside the window.
EvictBefore(items, cutoff) ==
  LET kept == {i \in 1..Len(items) : items[i].time >= cutoff}
  IN IF kept = {} THEN <<>>
     ELSE SubSeq(items, CHOOSE i \in kept : \A j \in kept : i <= j, Len(items))

\* SlidingWindow.append
AppendEvicting(items, item, span) ==
  EvictBefore(Append(items, item), item.time - span)

\* SlidingWindow.span
SpanOf(items) ==
  IF Len(items) < 2 THEN 0 ELSE items[Len(items)].time - items[1].time

NoRound == 0

EmptyWindow == [ticks |-> <<>>, kills |-> <<>>, current |-> NoRound]

\* TelemetryWindow.observe
Observe(w, e, span) ==
  CASE e.type = "round_start" -> [EmptyWindow EXCEPT !.current = e.round]
    [] e.type = "tick" ->
         [w EXCEPT !.ticks = AppendEvicting(@, e, span), !.current = e.round]
    [] e.type = "kill" ->
         [w EXCEPT !.kills = AppendEvicting(@, e, span)]
    [] OTHER -> w

\* TelemetryWindow.metrics, without headshots and the rates derived from it.
Metrics(w) ==
  LET kills_ct == Cardinality({i \in 1..Len(w.kills) : w.kills[i].victim = "T"})
      spans == {SpanOf(w.ticks), SpanOf(w.kills)}
  IN [kills_ct |-> kills_ct,
      kills_t |-> Len(w.kills) - kills_ct,
      kill_delta |-> 2 * kills_ct - Len(w.kills),
      ticks |-> Len(w.ticks),
      span |-> CHOOSE s \in spans : \A t \in spans : t <= s]
=============================================================================
