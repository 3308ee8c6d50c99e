------------------------------- MODULE Client -------------------------------
(***************************************************************************)
(* cmd/client: one run of the command, against the server of Registry,     *)
(* which may be stopped, or started anew with another registry, at any     *)
(* moment.  The flags select one request, -all two; all of a run's         *)
(* requests share one context, which expires after 10 seconds.             *)
(*                                                                         *)
(* Of a metric's value only whether it was read is kept: what it is, is    *)
(* ReadPath's subject.  How a line is set out is left out.                 *)
(***************************************************************************)
EXTENDS Registry

CONSTANTS
    Flags,       \* the command lines: [cats, list, all, cat, args]
    Unreadable   \* names the server answers with an error

ASSUME ClientAssumption == Nil \notin Flags /\ Nil # 0

VARIABLES
    run,       \* the command line, Nil before the start
    calls,     \* requests of the run so far
    waiting,   \* for the answer to the last of them
    expired,   \* the context's deadline has passed
    names,     \* what -all will ask for
    out,       \* the lines printed
    exit       \* the exit status, Nil while it runs

clientVars == <<run, calls, waiting, expired, names, out, exit>>
systemVars == <<vars, clientVars>>

CInit ==
    /\ Init
    /\ run = Nil /\ calls = 0 /\ waiting = FALSE /\ expired = FALSE
    /\ names = << >> /\ out = << >> /\ exit = Nil

\* The flag that decides, in the order main looks at them.
Mode ==
    IF run.cats THEN "cats" ELSE IF run.list THEN "list"
    ELSE IF run.cat # "" THEN "cat" ELSE IF run.all THEN "all" ELSE "names"

\* GetMetrics and GetMetricsByCategory, for what the client shows of them.
MetricOf(name) ==
    [name |-> name,
     cat |-> IF name \in KnownNames
             THEN (CHOOSE info \in Range(Known) : info.name = name).cat ELSE "",
     error |-> name \in Unreadable]
GetMetrics(ns) == [j \in DOMAIN ns |-> MetricOf(ns[j])]
GetMetricsByCategory(cat) ==
    [j \in DOMAIN ByCategory(cat) |-> MetricOf(ByCategory(cat)[j].name)]

printMetric(m) == [line |-> IF m.error THEN "ERROR" ELSE "value", name |-> m.name]
printAll(ms) == [j \in DOMAIN ms |-> printMetric(ms[j])]
heading(cat) == [line |-> "heading", name |-> cat]

\* Mutant: lastCat is not moved on.
printGroupedAlways(ms) ==
    FoldLeft(LAMBDA lines, m : lines \o <<heading(m.cat), printMetric(m)>>, << >>, ms)

\* The loop of -all: a heading wherever the category changes.
printGrouped(ms) ==
    FoldLeft(LAMBDA st, m :
                [lastCat |-> m.cat,
                 lines |-> st.lines \o (IF m.cat # st.lastCat THEN <<heading(m.cat)>> ELSE << >>)
                             \o <<printMetric(m)>>],
             [lastCat |-> "", lines |-> << >>], ms).lines

\* -list: the TTL's whole seconds.
printEntry(km) ==
    [line |-> "entry", name |-> km.name,
     pattern |-> IF km.rec = Nil THEN "" ELSE km.rec.pattern,
     secs |-> IF km.rec = Nil \/ km.rec.ttl = NoTtl THEN NoTtl ELSE km.rec.ttl \div 1000]

-----------------------------------------------------------------------------
\* main up to the first request; without flags or arguments, the usage.
Start(f) ==
    /\ run = Nil
    /\ run' = f
    /\ IF Mode' = "names" /\ f.args = << >>
       THEN exit' = 1 /\ UNCHANGED <<calls, waiting>>
       ELSE calls' = 1 /\ waiting' = TRUE /\ UNCHANGED exit
    /\ UNCHANGED <<vars, expired, names, out>>

\* grpc.NewClient refuses the address, before anything else is looked at.
BadAddress(f) ==
    /\ run = Nil
    /\ run' = f /\ exit' = 1
    /\ UNCHANGED <<vars, calls, waiting, expired, names, out>>

\* Everything has arrived: print it and return.
Finish(lines) ==
    /\ out' = lines /\ exit' = 0 /\ waiting' = FALSE
    /\ UNCHANGED <<vars, run, calls, expired, names>>

\* The answer to a request, as the server has it by then.
Answered ==
    /\ waiting /\ ~expired /\ fullRegistry # << >>

AnswerOne ==
    /\ Answered
    /\ \/ Mode = "cats" /\ Finish([j \in DOMAIN ListCategories |->
            [line |-> "category", name |-> ListCategories[j].name,
             count |-> ListCategories[j].count]])
       \/ Mode = "list" /\ LET reg == ListKnownMetrics(fullRegistry, run.cat)
                           IN Finish([j \in DOMAIN reg |-> printEntry(reg[j])])
       \/ Mode = "cat" /\ Finish(printAll(GetMetricsByCategory(run.cat)))
       \/ Mode = "names" /\ Finish(printAll(GetMetrics(run.args)))

\* -all: the names are taken from the first answer, and asked for.
AnswerList ==
    /\ Answered /\ Mode = "all" /\ calls = 1
    /\ names' = [j \in DOMAIN fullRegistry |-> fullRegistry[j].name]
    /\ calls' = 2
    /\ UNCHANGED <<vars, run, waiting, expired, out, exit>>

AnswerAll ==
    /\ Answered /\ Mode = "all" /\ calls = 2
    /\ Finish(printGrouped(GetMetrics(names)))

Fatal ==
    /\ exit' = 1 /\ waiting' = FALSE
    /\ UNCHANGED <<vars, run, calls, expired, names, out>>

\* The server is not there, or goes away before it answers.
RpcFails == waiting /\ ~expired /\ Fatal

Expire ==
    /\ run # Nil /\ exit = Nil /\ ~expired
    /\ expired' = TRUE
    /\ UNCHANGED <<vars, run, calls, waiting, names, out, exit>>

\* Mutant: the second request has a context without a deadline.
DeadlineExceededFirst == waiting /\ expired /\ calls = 1 /\ Fatal

DeadlineExceeded == waiting /\ expired /\ Fatal

CNext ==
    \/ Next /\ UNCHANGED clientVars
    \/ \E f \in Flags : BadAddress(f) \/ Start(f)
    \/ AnswerOne \/ AnswerList \/ AnswerAll \/ RpcFails \/ Expire \/ DeadlineExceeded

\* A timer fires, and a request whose context has expired returns; that the
\* server ever answers is not assumed.
CSpec == CInit /\ [][CNext]_systemVars
               /\ WF_clientVars(Expire) /\ WF_clientVars(DeadlineExceeded)

-----------------------------------------------------------------------------
Lines(kinds) == Filter(out, [line : kinds, name : STRING])

\* The heading a line stands below.
HeadingsTo(p) == {q \in 1 .. p : out[q].line = "heading"}

\* -all shows every Known metric once, in order, below the one heading of its
\* category, whether or not it could be read and although the server may have
\* been started anew between the two requests; or it shows nothing and fails.
AllShowsAll ==
    run # Nil /\ exit # Nil =>
        /\ exit = 1 => out = << >>
        /\ exit = 0 /\ Mode = "all" =>
              LET shown == Lines({"value", "ERROR"})
              IN /\ Len(shown) = Len(Known)
                 /\ \A j \in DOMAIN Known : shown[j].name = Known[j].name
                 /\ Len(Lines({"heading"})) = Len(Categories)
                 /\ \A p \in DOMAIN out, j \in DOMAIN Known :
                       out[p].line # "heading" /\ out[p].name = Known[j].name =>
                          /\ HeadingsTo(p) # {}
                          /\ out[Max(HeadingsTo(p))].name = Known[j].cat

\* A run ends, even if the server never answers.
ClientEnds == run # Nil ~> exit # Nil
=============================================================================
