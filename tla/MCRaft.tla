------------------------------- MODULE MCRaft -------------------------------
(***************************************************************************)
(* Raft for TLC.                                                           *)
(***************************************************************************)
EXTENDS Raft, TLC

\* Runs from Init: the nodes are interchangeable.
Symmetry == Permutations(Node)

-----------------------------------------------------------------------------
(* Runs about client requests start in a steady state that Init reaches:   *)
(* First leads term 1, its empty command is committed and applied on all   *)
(* nodes, and nothing is in flight.                                        *)

CONSTANT First

ASSUME FirstAssumption == First \in Node

InitLed ==
    /\ term = [n \in Node |-> 1]
    /\ vote = [n \in Node |-> First]
    /\ log = [n \in Node |-> <<[term |-> 1, command |-> Noop]>>]
    /\ commit = [n \in Node |-> 1]
    /\ applied = [n \in Node |-> 1]
    /\ role = [n \in Node |->
          IF n # First THEN Follower(First, {})
          ELSE Leader([p \in Peers(n) |-> [match |-> 1, next |-> 2, readSeq |-> 0]],
                      {}, {}, 0)]
    /\ msgs = {}
    /\ client = [i \in Request |-> [status |-> "idle", seen |-> {}, value |-> {}]]
    /\ panics = {}
    /\ restarts = 0

SpecLed == InitLed /\ [][Next]_vars

\* The followers are interchangeable, and so are the writes.
SymmetryLed == Permutations(Peers(First)) \cup Permutations(Write)
=============================================================================
