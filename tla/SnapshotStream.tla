--------------------------- MODULE SnapshotStream ---------------------------
(***************************************************************************)
(* What Subscribe means to a client: a stream of whole snapshots.  The     *)
(* server samples metrics one at a time into its snapshot, sends the       *)
(* snapshot, and the client's view is the last one it received.            *)
(***************************************************************************)
EXTENDS Integers, Sequences

CONSTANTS Metrics, Values, Empty, Unreadable, Window

VARIABLES kernel, snap, net, view

Init ==
    /\ kernel \in [Metrics -> Values \cup {Unreadable}]
    /\ snap = [m \in Metrics |-> Empty]
    /\ net = <<>>
    /\ view = [m \in Metrics |-> Empty]

Change(m) ==
    /\ \E v \in Values \cup {Unreadable} : kernel' = [kernel EXCEPT ![m] = v]
    /\ UNCHANGED <<snap, net, view>>

Sample(m) ==
    /\ kernel[m] # Unreadable
    /\ snap' = [snap EXCEPT ![m] = kernel[m]]
    /\ UNCHANGED <<kernel, net, view>>

Push ==
    /\ Len(net) < Window
    /\ net' = Append(net, snap)
    /\ UNCHANGED <<kernel, snap, view>>

Pull ==
    /\ net # <<>>
    /\ view' = Head(net)
    /\ net' = Tail(net)
    /\ UNCHANGED <<kernel, snap>>

Next == Push \/ Pull \/ \E m \in Metrics : Change(m) \/ Sample(m)

Spec == Init /\ [][Next]_<<kernel, snap, net, view>>
=============================================================================
