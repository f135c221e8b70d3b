--------------------------- MODULE FocusLifecycle ---------------------------
(***************************************************************************)
(* What the focus session feature promises, without requests, instants or  *)
(* a scheduler: a user has at most one session open; an open session may   *)
(* be paused and resumed; it ends once, completed or discarded; what a     *)
(* completion records is recorded by the step that completes it, at most   *)
(* once, and nothing else ever records.                                    *)
(***************************************************************************)
EXTENDS Naturals

CONSTANTS Users, Sids, Nil

VARIABLES
  owner,     \* the user of each session, Nil before it starts
  phase,     \* where each session is in its life
  recorded   \* rows of history each session left

vars == <<owner, phase, recorded>>

Open == {"running", "paused"}

Init ==
  /\ owner = [s \in Sids |-> Nil]
  /\ phase = [s \in Sids |-> "absent"]
  /\ recorded = [s \in Sids |-> 0]

\* The sessions of S, all in a phase of From, move to phase to.
Move(S, From, to) ==
  /\ \A s \in S : phase[s] \in From
  /\ phase' = [s \in Sids |-> IF s \in S THEN to ELSE phase[s]]

Start(s, u) ==
  /\ \A x \in Sids : owner[x] = u => phase[x] \notin Open
  /\ Move({s}, {"absent"}, "running")
  /\ owner' = [owner EXCEPT ![s] = u]
  /\ UNCHANGED recorded

Pause(S) == Move(S, {"running"}, "paused") /\ UNCHANGED <<owner, recorded>>

Resume(s) == Move({s}, {"paused"}, "running") /\ UNCHANGED <<owner, recorded>>

Complete(s) ==
  /\ Move({s}, Open, "completed")
  /\ \E n \in {0, 1} : recorded' = [recorded EXCEPT ![s] = n]
  /\ UNCHANGED owner

Discard(S) == Move(S, Open, "discarded") /\ UNCHANGED <<owner, recorded>>

\* The task of the sessions of S is deleted, and what they recorded with it.
Forget(S) ==
  /\ recorded' = [s \in Sids |-> IF s \in S THEN 0 ELSE recorded[s]]
  /\ UNCHANGED <<owner, phase>>

Next ==
  \/ \E s \in Sids : \/ \E u \in Users : Start(s, u)
                     \/ Resume(s)
                     \/ Complete(s)
  \/ \E S \in SUBSET Sids : Pause(S) \/ Discard(S) \/ Forget(S)

Spec == Init /\ [][Next]_vars
=============================================================================
