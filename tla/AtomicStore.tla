---------------------------- MODULE AtomicStore -----------------------------
(***************************************************************************)
(* What the metric store promises to its users, whatever the locking: a    *)
(* batch becomes visible in one step, and a get returns what the store     *)
(* held at one instant between the call and the return.                    *)
(***************************************************************************)
CONSTANTS Names, Readers, Slots

VARIABLES
    values,   \* values[n]: the value of n, or the mark of an absent one
    call      \* call[r]: the get of reader r and how far it has come

Idle         == [st |-> "idle"]
Asked(n)     == [st |-> "asked", name |-> n]
Answered(v)  == [st |-> "answered", got |-> v]
Calls        == {Idle} \cup {Asked(n) : n \in Names} \cup {Answered(v) : v \in Slots}

Init ==
    /\ values \in [Names -> Slots]
    /\ call = [r \in Readers |-> Idle]

\* A batch is a function from a non-empty set of names to values.
Publish ==
    /\ \E D \in (SUBSET Names) \ {{}} : \E b \in [D -> Slots] :
          values' = [n \in Names |-> IF n \in D THEN b[n] ELSE values[n]]
    /\ UNCHANGED call

Ask(r) ==
    /\ call[r].st = "idle"
    /\ \E n \in Names : call' = [call EXCEPT ![r] = Asked(n)]
    /\ UNCHANGED values

Look(r) ==
    /\ call[r].st = "asked"
    /\ call' = [call EXCEPT ![r] = Answered(values[call[r].name])]
    /\ UNCHANGED values

Return(r) ==
    /\ call[r].st = "answered"
    /\ call' = [call EXCEPT ![r] = Idle]
    /\ UNCHANGED values

Next == Publish \/ \E r \in Readers : Ask(r) \/ Look(r) \/ Return(r)

\* What may happen, and what must: a get that was called is answered and returns.
SafeSpec == Init /\ [][Next]_<<values, call>>

Spec ==
    /\ SafeSpec
    /\ \A r \in Readers : WF_<<values, call>>(Look(r)) /\ WF_<<values, call>>(Return(r))
=============================================================================
