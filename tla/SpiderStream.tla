------------------------------ MODULE SpiderStream ------------------------------
(***************************************************************************)
(* What happens to one response between the downloader and the spider's    *)
(* outputs: SpiderMiddlewareManager (middleware.py) driven by the engine's *)
(* _run_callback (engine.py).  Components are numbered as outputs meet     *)
(* them, from the spider (1) to the engine (Components); responses meet    *)
(* them the other way round.                                               *)
(*                                                                         *)
(* The generators of the source are nested, but a failure of one is taken  *)
(* up further on only and all it left is appended to what came before, so  *)
(* the nesting unrolls into one stream that moves from component to        *)
(* component: `pending' is the part in front of component `turn', `passed'   *)
(* the outputs that left the last one.                                     *)
(***************************************************************************)
EXTENDS Naturals, Sequences, SequencesExt, FiniteSets

CONSTANTS
  Components,  \* how many spider middlewares there are
  Streaming,   \* those with an asynchronous output hook; the others buffer
  HttpErrors,  \* the one that is HttpErrorMiddleware: it has no output hook
  Filters,     \* those that may drop an output, as UrlLengthMiddleware does
  MaxYields    \* bound: outputs of a callback, an errback or a recovery

ASSUME ComponentsAssumption ==
  /\ Components \in Nat
  /\ MaxYields \in Nat
  /\ Streaming \cup Filters \cup {HttpErrors} \subseteq 1 .. Components

VARIABLES
  mode,      \* what is running: idle, input, output, exception or ended
  turn,      \* the component whose turn it is
  pending,   \* the outputs in front of it
  trouble,   \* the error behind them, if any
  origin,    \* where they come from: 0 for the spider, i for component i's recovery
  denied,    \* whether the error at hand is HttpError, for a status nobody handles
  errback,   \* whether the request's errback may still be asked
  passed,    \* outputs that passed all components
  reports,   \* spider_error signals of this response
  asked,     \* history: the exception hooks in the order they were asked
  yielded,   \* history: everything the spider and the recoveries yielded
  cut        \* history: what an output hook dropped, or did not get to when it failed

streamVars == <<mode, turn, pending, trouble, origin, denied, errback, passed, reports, asked, yielded, cut>>

\* Errors: of the source of the stream, of component `by's output hook, or one
\* that always leaves _run_callback (CloseSpider, _InvalidMiddlewareOutput).
NoError == [kind |-> "none", by |-> 0]
Source == [kind |-> "source", by |-> 0]
Fatal == [kind |-> "fatal", by |-> 0]
Failed(i) == [kind |-> "hook", by |-> i]
Errors == {NoError, Source, Fatal} \cup {Failed(i) : i \in 1 .. Components}

\* The nth output of the callback, of a component's recovery or of the errback, and
\* the components it went through.
Callback == 0
Errback == Components + 1
From(by) == IF by = Errback THEN 0 ELSE by
Yields(by) == {[n \in 1 .. k |-> [by |-> by, n |-> n, through |-> {}]] : k \in 0 .. MaxYields}
Names(outputs) == {<<o.by, o.n>> : o \in ToSet(outputs)}
Marked(i, outputs) == [n \in DOMAIN outputs |-> [outputs[n] EXCEPT !.through = @ \cup {i}]]

StreamIdle ==
  /\ mode = "idle" /\ turn = 0 /\ pending = <<>> /\ trouble = NoError /\ origin = 0
  /\ denied = FALSE /\ errback = FALSE /\ passed = <<>> /\ reports = 0
  /\ asked = <<>> /\ yielded = {} /\ cut = {}

\* A response arrives for a request with or without an errback.
BeginResponse(hasErrback, unhandled) ==
  /\ mode = "idle"
  /\ mode' = "input" /\ turn' = Components /\ errback' = hasErrback /\ denied' = unhandled
  /\ pending' = <<>> /\ trouble' = NoError /\ origin' = 0
  /\ passed' = <<>> /\ reports' = 0 /\ asked' = <<>> /\ yielded' = {} /\ cut' = {}

\* The outputs of a new source, and the error it ends with, enter the chain where
\* the source stands.
FlowFromStart(by) ==
  \E outputs \in Yields(by), error \in {NoError, Source, Fatal} :
    /\ mode' = "output" /\ turn' = 1 /\ origin' = From(by) /\ denied' = FALSE
    /\ pending' = outputs /\ trouble' = error
    /\ yielded' = yielded \cup Names(outputs)

Flow(by) ==
  \E outputs \in Yields(by), error \in {NoError, Source, Fatal} :
    /\ mode' = "output" /\ turn' = From(by) + 1 /\ origin' = From(by) /\ denied' = FALSE
    /\ pending' = outputs /\ trouble' = error
    /\ yielded' = yielded \cup Names(outputs)

\* _run_callback after an error that reached it: the errback first, then the
\* exception hooks from the spider's side on.
Except(i) == mode' = "exception" /\ turn' = i /\ pending' = <<>> /\ trouble' = NoError

CallbackFailed ==
  \/ errback /\ Flow(Errback) /\ errback' = FALSE
  \/ ~errback /\ Except(1) /\ UNCHANGED <<errback, origin, denied, yielded>>

\* process_spider_input, from the engine's side to the spider's, and the callback.
PassInput ==
  /\ mode = "input" /\ turn > 0
  /\ ~(denied /\ turn = HttpErrors)
  /\ turn' = turn - 1
  /\ UNCHANGED <<mode, pending, trouble, origin, denied, errback, passed, reports, asked, yielded, cut>>

\* HttpErrorMiddleware raises for a status nobody handles; another may raise anything.
FailInput ==
  /\ mode = "input" /\ turn > 0
  /\ \/ turn = HttpErrors /\ denied /\ CallbackFailed
     \/ turn # HttpErrors /\ errback /\ Flow(Errback) /\ errback' = FALSE
     \/ turn # HttpErrors /\ ~errback /\ Except(1) /\ denied' = FALSE
        /\ UNCHANGED <<errback, origin, yielded>>
  /\ UNCHANGED <<passed, reports, asked, cut>>

CallCallback ==
  /\ mode = "input" /\ turn = 0
  /\ Flow(Callback)
  /\ UNCHANGED <<errback, passed, reports, asked, cut>>

\* One component's output hook over the stream in front of it.  A buffering hook
\* reads its whole input first; a streaming one ends before a later error is met.
ProcessOutput ==
  /\ mode = "output" /\ turn <= Components
  /\ turn' = turn + 1
  /\ pending' = IF turn \notin Streaming /\ trouble.kind = "fatal"
                THEN <<>> ELSE Marked(turn, pending)
  /\ UNCHANGED <<mode, trouble, origin, denied, errback, passed, reports, asked, yielded, cut>>

\* BaseSpiderMiddleware: no output in place of one.
FilterOutput ==
  /\ mode = "output" /\ turn \in Filters
  /\ turn' = turn + 1
  /\ turn \in Streaming \/ trouble.kind # "fatal"
  /\ \E i \in DOMAIN pending :
       /\ pending' = Marked(turn, RemoveAt(pending, i))
       /\ cut' = cut \cup Names(<<pending[i]>>)
  /\ UNCHANGED <<mode, trouble, origin, denied, errback, passed, reports, asked, yielded>>

FailOutput ==
  /\ mode = "output" /\ turn \in 1 .. Components \ {HttpErrors}
  /\ turn' = turn + 1
  /\ \E k \in 0 .. Len(pending) :
       /\ IF turn \in Streaming THEN k < Len(pending) \/ trouble = NoError
                                ELSE trouble.kind # "fatal"
       /\ pending' = Marked(turn, SubSeq(pending, 1, k))
       /\ cut' = cut \cup Names(SubSeq(pending, k + 1, Len(pending)))
       /\ trouble' = Failed(turn)
  /\ UNCHANGED <<mode, origin, denied, errback, passed, reports, asked, yielded>>

\* Past the last component: the outputs are kept, the error goes its way.
AfterOutputs ==
  /\ mode = "output" /\ turn > Components
  /\ passed' = IF trouble.kind = "fatal" THEN <<>> ELSE passed \o pending
  /\ CASE trouble.kind \in {"none", "fatal"} ->
            mode' = "ended" /\ UNCHANGED <<turn, pending, trouble, origin, denied, errback, yielded>>
       [] trouble.kind = "hook" ->
            Except(trouble.by + 1) /\ UNCHANGED <<origin, denied, errback, yielded>>
       [] trouble.kind = "source" /\ origin > 0 ->
            Except(origin + 1) /\ UNCHANGED <<origin, denied, errback, yielded>>
       [] OTHER -> CallbackFailed
  /\ UNCHANGED <<reports, asked, cut>>

\* process_spider_exception of the component at hand: nothing, an exception of its
\* own, one that ends everything, or outputs that go through the rest of the chain.
ProcessException ==
  /\ mode = "exception" /\ turn <= Components
  /\ asked' = Append(asked, turn)
  /\ \/ ~(denied /\ turn = HttpErrors) /\ turn' = turn + 1
        /\ UNCHANGED <<mode, pending, trouble, origin, denied, passed, yielded>>
     \/ /\ turn # HttpErrors
        /\ mode' = "ended" /\ trouble' = Fatal /\ passed' = <<>>
        /\ UNCHANGED <<turn, pending, origin, denied, yielded>>
     \/ turn # HttpErrors /\ Flow(turn) /\ UNCHANGED passed
  /\ UNCHANGED <<errback, reports, cut>>

\* HttpErrorMiddleware knows its own error, and there is nothing in its place.
IgnoreResponse ==
  /\ mode = "exception" /\ turn = HttpErrors /\ denied
  /\ asked' = Append(asked, turn)
  /\ mode' = "output" /\ turn' = turn + 1 /\ origin' = turn /\ denied' = FALSE
  /\ pending' = <<>> /\ trouble' = NoError
  /\ UNCHANGED <<errback, passed, reports, yielded, cut>>

ReportError ==
  /\ mode = "exception" /\ turn > Components
  /\ mode' = "ended" /\ reports' = reports + 1
  /\ UNCHANGED <<turn, pending, trouble, origin, denied, errback, passed, asked, yielded, cut>>

StreamStep ==
  \/ PassInput \/ FailInput \/ CallCallback
  \/ ProcessOutput \/ FilterOutput \/ FailOutput \/ AfterOutputs
  \/ ProcessException \/ IgnoreResponse \/ ReportError

-----------------------------------------------------------------------------
\* Every output that reaches the engine went through exactly the components between
\* its origin and the engine, however many recoveries there were on the way
\* (process_output_with_error and its start_index).
EveryOutputPassesTheRest ==
  \A o \in ToSet(passed) : o.through = (From(o.by) + 1) .. Components

\* What the callback, the errback or a recovery yielded before an error is kept and
\* goes on through the chain: only an output hook drops outputs, those it filters and
\* those it did not get to when it failed (run_callback and the partial lists of the stream errors).
NothingYieldedIsLost ==
  mode = "ended" /\ trouble # Fatal => yielded \ cut \subseteq Names(passed)

\* The exception hooks of a response are asked outwards and none twice, whether the
\* error is the callback's, the errback's, an output hook's or a recovery's
\* (_process_exception_from).
HooksAreAskedOnce ==
  \A i, j \in DOMAIN asked : i < j => asked[i] < asked[j]

\* A response with a status nobody handles is ignored: unless something else fails on
\* the way, it is not reported as an error, and it never is as HttpError.
IgnoredIsNoError == mode = "ended" /\ denied => reports = 0

\* Errors in the spider middlewares neither lose nor repeat outputs, nor let them skip a hook.
OutputsSurviveErrors ==
  EveryOutputPassesTheRest /\ NothingYieldedIsLost /\ HooksAreAskedOnce /\ IgnoredIsNoError
=============================================================================
