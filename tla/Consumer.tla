------------------------------ MODULE Consumer ------------------------------
(***************************************************************************)
(* What a reader of the event log has to do, and nothing of how: handle    *)
(* the events of every stream along the links of the stream, and remember  *)
(* in the same step how far it got.  Where it begins in a stream is left   *)
(* open.  Projection implements it with current_sequences as the position  *)
(* and the committed statements as the output.                             *)
(***************************************************************************)
EXTENDS EventLog, Sequences

VARIABLES
    position,  \* per stream the sequence of the last event handled, 0 for none
    output     \* what was handled, in order

\* The indices at which list has handled an event of the stream.
OfStream(list, i, t) == {k \in DOMAIN list : list[k].stmt.inst = i /\ list[k].stmt.atype = t}

\* l comes next after k among these indices.
Neighbours(S, k, l) == k \in S /\ l \in S /\ k < l /\ \A m \in S : m <= k \/ m >= l

\* From one handled event of the stream to the next list goes along the links; the first of
\* them follows the position from, and to is the position after the last.
Follows(list, i, t, from, to) ==
    LET S == OfStream(list, i, t)
    IN  /\ \A k, l \in S : Neighbours(S, k, l) => list[l].stmt.prevType = list[k].stmt.seq
        /\ \A k \in S : (\A m \in S : k <= m) /\ from # 0 => list[k].stmt.prevType = from
        /\ \A k \in S : (\A m \in S : m <= k) => to = list[k].stmt.seq
        /\ S = {} => to = from

Init ==
    /\ position = [i \in Instances |-> [t \in AggTypes |-> 0]]
    /\ output = <<>>

\* Some events are handled: what is appended to the output, stream by stream.
Handle ==
    LET new == SubSeq(output', Len(output) + 1, Len(output'))
    IN  /\ new # <<>>
        /\ output' = output \o new
        /\ \A k \in DOMAIN new : new[k].stmt \in events
        /\ \A i \in Instances, t \in AggTypes :
              Follows(new, i, t, position[i][t], position'[i][t])

Spec == Init /\ [][Handle]_<<position, output>>
=============================================================================
