----------------------------- MODULE KernelRead -----------------------------
(***************************************************************************)
(* What a sysctl read promises, whether it goes through the MIB cache or   *)
(* by name: the value the kernel held for that name at one instant between *)
(* the call and the return, whole; or an error: the name does not exist at *)
(* that instant, the value does not have the width asked for, or the read  *)
(* could not be completed.                                                 *)
(***************************************************************************)
EXTENDS Integers, Sequences

CONSTANTS Names, Procs, Widths, AnyWidth, Lens, MaxVersion

VARIABLES
    values,   \* values[n]: the lengths n's value has had, one per version;
              \* <<>> while n is not registered
    call      \* call[p]: the read in progress at p

Idle           == [st |-> "idle"]
Asked(n, w)    == [st |-> "asked", name |-> n, want |-> w]
Replied(r)     == [st |-> "replied", res |-> r]
Value(v, l)    == [kind |-> "value", version |-> v, len |-> l]
Error(e)       == [kind |-> "error", errno |-> e]

Init == values \in [Names -> {<<>>} \cup {<<l>> : l \in Lens}] /\ call = [p \in Procs |-> Idle]

\* The kernel registers a name, or gives a registered one a new value.
Change(n) ==
    /\ Len(values[n]) < MaxVersion
    /\ \E l \in Lens : values' = [values EXCEPT ![n] = Append(@, l)]
    /\ UNCHANGED call

Ask(p) ==
    /\ call[p].st = "idle"
    /\ \E n \in Names, w \in Widths \cup {AnyWidth} : call' = [call EXCEPT ![p] = Asked(n, w)]
    /\ UNCHANGED values

\* The instant of the read.
Outcome(n, w) ==
    LET v == Len(values[n])
    IN  IF v = 0 THEN Error("ENOENT")
        ELSE IF w # AnyWidth /\ values[n][v] # w THEN Error("width")
        ELSE Value(v, values[n][v])

Look(p) ==
    /\ call[p].st = "asked"
    /\ call' = [call EXCEPT ![p] = Replied(Outcome(call[p].name, call[p].want))]
    /\ UNCHANGED values

Fail(p) ==
    /\ call[p].st = "asked"
    /\ call' = [call EXCEPT ![p] = Replied(Error("ENOMEM"))]
    /\ UNCHANGED values

Return(p) ==
    /\ call[p].st = "replied"
    /\ call' = [call EXCEPT ![p] = Idle]
    /\ UNCHANGED values

Next == \/ \E n \in Names : Change(n)
        \/ \E p \in Procs : Ask(p) \/ Look(p) \/ Fail(p) \/ Return(p)

Spec == Init /\ [][Next]_<<values, call>>
=============================================================================
