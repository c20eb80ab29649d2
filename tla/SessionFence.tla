---------------------------- MODULE SessionFence ----------------------------
(***************************************************************************)
(* What the session scope coordinator promises its callers, for one exact  *)
(* session scope: a durable fence is raised only once every admitted       *)
(* action has left, nothing is admitted while the fence stands, and only a *)
(* completed teardown is finalised, which removes the fence.               *)
(***************************************************************************)
CONSTANT Proc       \* goroutines acting for the session

VARIABLES fence,    \* the state of the durable fence record, or "none"
          admitted  \* the goroutines that hold a reservation

vars == <<fence, admitted>>

FenceState == {"none", "draining", "incomplete", "complete"}

TypeOK == fence \in FenceState /\ admitted \in SUBSET Proc

Init == fence = "none" /\ admitted = {}

Admit(p) ==
  /\ fence = "none" /\ p \notin admitted
  /\ admitted' = admitted \cup {p}
  /\ UNCHANGED fence

Leave(p) ==
  /\ p \in admitted
  /\ admitted' = admitted \ {p}
  /\ UNCHANGED fence

\* Raise the fence, or take an unfinished teardown up again.
Raise ==
  /\ admitted = {} /\ fence # "complete"
  /\ fence' = "draining"
  /\ UNCHANGED admitted

MarkIncomplete ==
  /\ fence \in {"draining", "incomplete"}
  /\ fence' = "incomplete"
  /\ UNCHANGED admitted

MarkComplete ==
  /\ fence = "draining"
  /\ fence' = "complete"
  /\ UNCHANGED admitted

Finalize ==
  /\ fence = "complete" /\ admitted = {}
  /\ fence' = "none"
  /\ UNCHANGED admitted

\* A restart forgets every reservation and keeps the fence.
Restart ==
  /\ admitted' = {}
  /\ UNCHANGED fence

Next == \/ \E p \in Proc : Admit(p) \/ Leave(p)
        \/ Raise \/ MarkIncomplete \/ MarkComplete \/ Finalize \/ Restart

Spec == Init /\ [][Next]_vars
=============================================================================
