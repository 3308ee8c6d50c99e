----------------------------- MODULE Subscribe ------------------------------
(***************************************************************************)
(* One Subscribe stream, from the handler of internal/server/server.go to  *)
(* the client that applies its deltas.  The kernel changes values between  *)
(* any two reads of a round; a read may fail.  Messages travel in order    *)
(* through a window of bounded size (gRPC flow control); Send waits while  *)
(* it is full.  The client may cancel, or the connection fail, at any      *)
(* moment, and what is in flight is lost.                                  *)
(*                                                                         *)
(* prev[name] of a name without an entry is nil, and bytes.Equal does not  *)
(* tell nil from the empty value: both are Empty here.                     *)
(***************************************************************************)
EXTENDS Integers, Sequences, Functions

CONSTANTS
    Metrics,      \* known names that are not computed
    Computed,     \* known names of type computed
    Unknown,      \* names that are not known
    Values,       \* raw values; one of them is
    Empty,        \*   the value of length zero
    Unreadable,   \* state of a metric whose read fails
    Requests,     \* the name lists clients ask for
    IntervalNs,   \* the intervals clients ask for
    Ttls,         \* the TTLs of the registry's recommended access patterns
    Window        \* messages in flight

Names == Metrics \cup Computed \cup Unknown

ASSUME SubscribeAssumption ==
    /\ Empty \in Values /\ Unreadable \notin Values
    /\ Requests \subseteq Seq(Names)
    /\ Ttls \subseteq Int /\ IntervalNs \subseteq Int
    /\ Window \in Nat \ {0}

\* minSubscribeInterval, in milliseconds: the least positive TTL under 100ms.
Floor == 100
Least(S) == CHOOSE d \in S : \A e \in S : d <= e

\* Mutant: a TTL that is not positive counts.
minSubscribeIntervalOfAny == Least({Floor} \cup {t \in Ttls : t < Floor})

minSubscribeInterval == Least({Floor} \cup {t \in Ttls : 0 < t /\ t < Floor})

VARIABLES
    kernel,      \* kernel[m]: what a read of m returns now
    pc,          \* the handler: "call", "validate", "round", "send", "select", "ended",
                 \*   or "panicked", and the server with it
    reqNames, reqInterval,   \* the request
    interval,    \* the ticker's interval, 0 before there is one
    validNames, errors, first, prev,   \* locals of the handler
    i, deltas,   \* the loop in progress, over names; the deltas of one round
    seen,        \* history: names the first round has read
    tickC,       \* ticker.C
    status,      \* gRPC status of the stream
    ctx,         \* "live" or "cancelled"
    net,         \* responses in flight, each with the server's prev as history
    view         \* the client's copy, deltas applied

handlerVars == <<interval, validNames, errors, first, prev, i, deltas, seen, status>>
vars == <<kernel, pc, reqNames, reqInterval, handlerVars, tickC, ctx, net, view>>

Init ==
    /\ kernel \in [Metrics -> Values \cup {Unreadable}]
    /\ pc = "call"
    /\ reqNames \in Requests /\ reqInterval \in IntervalNs
    /\ interval = 0
    /\ validNames = <<>> /\ errors = {} /\ first = TRUE
    /\ prev = [m \in Metrics |-> Empty]
    /\ i = 1 /\ deltas = <<>> /\ seen = {}
    /\ tickC = 0 /\ status = "none" /\ ctx = "live"
    /\ net = <<>>
    /\ view = [m \in Metrics |-> Empty]

-----------------------------------------------------------------------------
(* The handler. *)

Wanted == IF reqInterval <= 0 THEN minSubscribeInterval ELSE reqInterval

\* fmt.Errorf carries no gRPC code, so grpc-go reports code Unknown.
Reject ==
    /\ pc = "call" /\ Wanted < minSubscribeInterval
    /\ pc' = "ended" /\ status' = "Unknown"
    /\ UNCHANGED <<kernel, reqNames, reqInterval, interval, validNames, errors, first,
                   prev, i, deltas, seen, tickC, ctx, net, view>>

Accept ==
    /\ pc = "call" /\ Wanted >= minSubscribeInterval
    /\ pc' = "validate"
    /\ UNCHANGED <<kernel, reqNames, reqInterval, handlerVars, tickC, ctx, net, view>>

\* Mutant: names are not validated.
ValidateNothing ==
    /\ pc = "validate" /\ i <= Len(reqNames)
    /\ validNames' = Append(validNames, reqNames[i])
    /\ i' = i + 1
    /\ UNCHANGED <<kernel, pc, reqNames, reqInterval, interval, errors, first, prev, deltas,
                   seen, tickC, status, ctx, net, view>>

\* One turn of the loop over req.Names: unknown and computed names are set aside
\* with an error.
Validate ==
    /\ pc = "validate" /\ i <= Len(reqNames)
    /\ IF reqNames[i] \in Metrics
         THEN validNames' = Append(validNames, reqNames[i]) /\ UNCHANGED errors
         ELSE errors' = errors \cup {reqNames[i]} /\ UNCHANGED validNames
    /\ i' = i + 1
    /\ UNCHANGED <<kernel, pc, reqNames, reqInterval, interval, first, prev, deltas, seen,
                   tickC, status, ctx, net, view>>

\* time.NewTicker panics on an interval that is not positive.
NewTicker ==
    /\ pc = "validate" /\ i > Len(reqNames)
    /\ interval' = Wanted
    /\ i' = 1
    /\ pc' = IF Wanted > 0 THEN "round" ELSE "panicked"
    /\ UNCHANGED <<kernel, reqNames, reqInterval, validNames, errors, first, prev, deltas,
                   seen, tickC, status, ctx, net, view>>

Name == validNames[i]

\* Mutant: a failed read is passed over.
ReadFailsSilently ==
    /\ pc = "round" /\ i <= Len(validNames) /\ kernel[Name] = Unreadable
    /\ i' = i + 1
    /\ UNCHANGED <<kernel, pc, reqNames, reqInterval, interval, validNames, errors, first,
                   prev, deltas, seen, tickC, status, ctx, net, view>>

\* One turn of the loop over validNames.
ReadFails ==
    /\ pc = "round" /\ i <= Len(validNames) /\ kernel[Name] = Unreadable
    /\ errors' = IF first THEN errors \cup {Name} ELSE errors
    /\ i' = i + 1
    /\ UNCHANGED <<kernel, pc, reqNames, reqInterval, interval, validNames, first, prev,
                   deltas, seen, tickC, status, ctx, net, view>>

\* Mutant: prev is not brought up to date.
ReadDeltaKeepsPrev ==
    /\ pc = "round" /\ i <= Len(validNames) /\ kernel[Name] # Unreadable
    /\ deltas' = IF kernel[Name] # prev[Name]
                   THEN Append(deltas, [name |-> Name, value |-> kernel[Name]])
                   ELSE deltas
    /\ seen' = IF first THEN seen \cup {Name} ELSE seen
    /\ i' = i + 1
    /\ UNCHANGED <<kernel, pc, reqNames, reqInterval, interval, validNames, errors, first,
                   prev, tickC, status, ctx, net, view>>

\* Mutant: a change after the first round updates prev only.
ReadDeltaFirstOnly ==
    /\ pc = "round" /\ i <= Len(validNames) /\ kernel[Name] # Unreadable
    /\ deltas' = IF first /\ kernel[Name] # prev[Name]
                   THEN Append(deltas, [name |-> Name, value |-> kernel[Name]])
                   ELSE deltas
    /\ prev' = [prev EXCEPT ![Name] = kernel[Name]]
    /\ seen' = IF first THEN seen \cup {Name} ELSE seen
    /\ i' = i + 1
    /\ UNCHANGED <<kernel, pc, reqNames, reqInterval, interval, validNames, errors, first,
                   tickC, status, ctx, net, view>>

ReadDelta ==
    /\ pc = "round" /\ i <= Len(validNames) /\ kernel[Name] # Unreadable
    /\ IF kernel[Name] # prev[Name]
         THEN /\ deltas' = Append(deltas, [name |-> Name, value |-> kernel[Name]])
              /\ prev' = [prev EXCEPT ![Name] = kernel[Name]]
         ELSE UNCHANGED <<deltas, prev>>
    /\ seen' = IF first THEN seen \cup {Name} ELSE seen
    /\ i' = i + 1
    /\ UNCHANGED <<kernel, pc, reqNames, reqInterval, interval, validNames, errors, first,
                   tickC, status, ctx, net, view>>

RoundDone ==
    /\ pc = "round" /\ i > Len(validNames)
    /\ pc' = "send"
    /\ UNCHANGED <<kernel, reqNames, reqInterval, handlerVars, tickC, ctx, net, view>>

\* An empty list of deltas is sent too; the next round begins with none.
Send ==
    /\ pc = "send" /\ ctx = "live" /\ Len(net) < Window
    /\ net' = Append(net, [deltas |-> deltas, errors |-> IF first THEN errors ELSE {},
                           first |-> first, full |-> prev,
                           failed |-> IF first THEN Range(validNames) \ seen ELSE {}])
    /\ first' = FALSE
    /\ i' = 1 /\ deltas' = <<>> /\ seen' = {}
    /\ pc' = "select"
    /\ UNCHANGED <<kernel, reqNames, reqInterval, interval, validNames, errors, prev,
                   tickC, status, ctx, view>>

\* Mutant: the error of Send is ignored.
SendFailsIgnored ==
    /\ pc = "send" /\ ctx = "cancelled"
    /\ pc' = "select" /\ i' = 1 /\ deltas' = <<>>
    /\ UNCHANGED <<kernel, reqNames, reqInterval, interval, validNames, errors, first,
                   prev, seen, tickC, status, ctx, net, view>>

SendFails ==
    /\ pc = "send" /\ ctx = "cancelled"
    /\ pc' = "ended" /\ status' = "Canceled"
    /\ UNCHANGED <<kernel, reqNames, reqInterval, interval, validNames, errors, first,
                   prev, i, deltas, seen, tickC, ctx, net, view>>

SelectDone ==
    /\ pc = "select" /\ ctx = "cancelled"
    /\ pc' = "ended" /\ status' = "Canceled"
    /\ UNCHANGED <<kernel, reqNames, reqInterval, interval, validNames, errors, first,
                   prev, i, deltas, seen, tickC, ctx, net, view>>

\* Mutant: the next response is sent without reading again.
SelectTickResends ==
    /\ pc = "select" /\ tickC = 1
    /\ tickC' = 0
    /\ pc' = "send"
    /\ UNCHANGED <<kernel, reqNames, reqInterval, handlerVars, ctx, net, view>>

SelectTick ==
    /\ pc = "select" /\ tickC = 1
    /\ tickC' = 0
    /\ pc' = "round"
    /\ UNCHANGED <<kernel, reqNames, reqInterval, handlerVars, ctx, net, view>>

-----------------------------------------------------------------------------
(* The ticker, the kernel and the client. *)

Tick ==
    /\ pc \in {"round", "send", "select"} /\ tickC' = 1
    /\ UNCHANGED <<kernel, pc, reqNames, reqInterval, handlerVars, ctx, net, view>>

KernelChange(m) ==
    /\ \E v \in Values \cup {Unreadable} : kernel' = [kernel EXCEPT ![m] = v]
    /\ UNCHANGED <<pc, reqNames, reqInterval, handlerVars, tickC, ctx, net, view>>

\* Applying deltas in order leaves each metric with the last value given for it.
Of(ds, m) == {k \in 1..Len(ds) : ds[k].name = m}
Latest(ds, m) == CHOOSE k \in Of(ds, m) : \A j \in Of(ds, m) : j <= k

Apply(v, ds) ==
    [m \in Metrics |-> IF Of(ds, m) = {} THEN v[m] ELSE ds[Latest(ds, m)].value]

Receive ==
    /\ ctx = "live" /\ net # <<>>
    /\ view' = Apply(view, Head(net).deltas)
    /\ net' = Tail(net)
    /\ UNCHANGED <<kernel, pc, reqNames, reqInterval, handlerVars, tickC, ctx>>

Cancel ==
    /\ ctx = "live" /\ ctx' = "cancelled"
    /\ UNCHANGED <<kernel, pc, reqNames, reqInterval, handlerVars, tickC, net, view>>

HandlerStep == \/ Reject \/ Accept \/ Validate \/ NewTicker \/ ReadFails \/ ReadDelta \/ RoundDone
               \/ Send \/ SendFails \/ SelectDone \/ SelectTick

Next ==
    \/ Reject \/ Accept \/ Validate \/ NewTicker \/ ReadFails \/ ReadDelta \/ RoundDone
    \/ Send \/ SendFails \/ SelectDone \/ SelectTick
    \/ Tick \/ Receive \/ Cancel
    \/ \E m \in Metrics : KernelChange(m)

(***************************************************************************)
(* Fairness.  The handler's goroutine runs, time.Ticker keeps firing, and  *)
(* the client keeps calling Recv as long as it does not cancel.            *)
(***************************************************************************)
Fairness == WF_vars(HandlerStep) /\ WF_vars(Tick) /\ WF_vars(Receive)

Spec == Init /\ [][Next]_vars /\ Fairness

-----------------------------------------------------------------------------
Deltas == [name : Metrics, value : Values]
Responses == [deltas : Seq(Deltas), errors : SUBSET Names, first : BOOLEAN,
              full : [Metrics -> Values], failed : SUBSET Metrics]

\* Every variable has its type: a value the kernel could not read is never kept or
\* sent, only names that were validated are read, and the window is not exceeded.
TypeOK ==
    /\ kernel \in [Metrics -> Values \cup {Unreadable}]
    /\ pc \in {"call", "validate", "round", "send", "select", "ended", "panicked"}
    /\ reqNames \in Seq(Names) /\ validNames \in Seq(Metrics)
    /\ prev \in [Metrics -> Values] /\ view \in [Metrics -> Values]
    /\ errors \subseteq Names /\ seen \subseteq Metrics
    /\ first \in BOOLEAN /\ tickC \in 0..1
    /\ i \in 1..(Len(IF pc = "validate" THEN reqNames ELSE validNames) + 1)
    /\ deltas \in Seq(Deltas)
    /\ status \in {"none", "Unknown", "Canceled"} /\ ctx \in {"live", "cancelled"}
    /\ net \in Seq(Responses) /\ Len(net) <= Window

\* No request takes the server down: whatever interval the client asks for, none
\* or a negative one included, and whatever TTLs the registry has (a zero or
\* negative one is no minimum), Subscribe never calls time.NewTicker with an
\* interval that makes it panic.
ServerSurvives == pc # "panicked"

\* Nothing is lost and nothing repeated: a delta always differs from what the
\* client will hold when it arrives, also when a name was asked for twice, and the
\* deltas of each response, and those of the round in hand, take the client from
\* what it will hold by then to what the server holds in prev.
Held(k) == IF k = 1 THEN view ELSE net[k - 1].full
Exact(v, ds, w) ==
    /\ Apply(v, ds) = w
    /\ \A k \in 1..Len(ds) : Apply(v, SubSeq(ds, 1, k - 1))[ds[k].name] # ds[k].value
DeltasExact ==
    /\ \A k \in 1..Len(net) : Exact(Held(k), net[k].deltas, net[k].full)
    /\ Exact(Held(Len(net) + 1), deltas, prev)

\* A client that applies deltas sees exactly the snapshots the server took.
Abstract == INSTANCE SnapshotStream
                WITH snap <- prev, net <- [k \in 1..Len(net) |-> net[k].full]
ImplementsSnapshots == Abstract!Spec

\* The first response accounts for every name of the request: a value, an error,
\* or (the nil of bytes.Equal) a value read and found empty.  A name whose read
\* failed is never passed over.
Explained(n, m) ==
    \/ n \in m.errors
    \/ \E k \in 1..Len(m.deltas) : m.deltas[k].name = n
FirstAccounts ==
    \A k \in 1..Len(net) : net[k].first =>
        \A n \in Range(reqNames) :
            \/ Explained(n, net[k])
            \/ n \in Metrics \ net[k].failed /\ net[k].full[n] = Empty

\* A value that stays put reaches the client, if the stream goes on: neither the
\* order of a round, a tick dropped, nor a full window loses it.
Converges ==
    \A m \in Metrics : \A v \in Values :
        <>[](kernel[m] = v /\ ctx = "live" /\ pc # "ended" /\ m \in Range(reqNames))
            => <>[](view[m] = v)

\* Cancelling ends the handler, wherever it is: also while Send waits.
CancelEnds == ctx = "cancelled" ~> pc = "ended"

\* "After the initial full snapshot": the first response has a value or an error
\* for every name.
FirstIsFull ==
    \A k \in 1..Len(net) : net[k].first => \A n \in Range(reqNames) : Explained(n, net[k])
=============================================================================
