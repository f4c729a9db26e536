------------------------------ MODULE BcastAbs ------------------------------
(***************************************************************************)
(* What a broadcaster promises: every member has a private, unbounded FIFO *)
(* of the messages published since it joined.  There is no shared queue,   *)
(* no cursor and no trimming: Bcast is shown to implement this.            *)
(***************************************************************************)
EXTENDS Integers, Sequences

CONSTANT Readers

VARIABLES published,   \* number of messages published so far
          open,        \* FALSE once the broadcaster has started to shut down
          members,     \* the readers that are joined
          pending,     \* pending[r]: published since r joined, not yet delivered
          delivered    \* delivered[r]: what r has read

abstractVars == <<published, open, members, pending, delivered>>

Init ==
  /\ published = 0
  /\ open = TRUE
  /\ members = {}
  /\ pending = [r \in Readers |-> <<>>]
  /\ delivered = [r \in Readers |-> <<>>]

Join(r) ==
  /\ open
  /\ r \notin members
  /\ members' = members \cup {r}
  /\ pending' = [pending EXCEPT ![r] = <<>>]
  /\ UNCHANGED <<published, open, delivered>>

Leave(r) ==
  /\ r \in members
  /\ members' = members \ {r}
  /\ pending' = [pending EXCEPT ![r] = <<>>]
  /\ UNCHANGED <<published, open, delivered>>

Publish ==
  /\ published' = published + 1
  /\ pending' = [r \in Readers |-> IF r \in members
                                   THEN Append(pending[r], published')
                                   ELSE pending[r]]
  /\ UNCHANGED <<open, members, delivered>>

Deliver(r) ==
  /\ pending[r] # <<>>
  /\ delivered' = [delivered EXCEPT ![r] = Append(@, Head(pending[r]))]
  /\ pending' = [pending EXCEPT ![r] = Tail(@)]
  /\ UNCHANGED <<published, open, members>>

\* Shutting down discards what is not yet delivered.
Shut ==
  /\ open
  /\ open' = FALSE
  /\ members' = {}
  /\ pending' = [r \in Readers |-> <<>>]
  /\ UNCHANGED <<published, delivered>>

Next == \/ \E r \in Readers : Join(r) \/ Leave(r) \/ Deliver(r)
        \/ Publish
        \/ Shut

Spec == Init /\ [][Next]_abstractVars
=============================================================================
