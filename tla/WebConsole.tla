----------------------------- MODULE WebConsole -----------------------------
(***************************************************************************)
(* Runs in the web console (frontend, state/run.ts, with the timer that    *)
(* saves its settings, state/store.ts).  Handlers run one at a time; what  *)
(* interleaves are edits, the timer of live updating, the responses, the   *)
(* keys that start and cancel a run, benchmarks, and a reload of the page. *)
(*                                                                         *)
(* What the user has entered is one of Contents; with the tool it gives    *)
(* the bodies of the requests that would be sent, none if it is not ready. *)
(***************************************************************************)
EXTENDS Integers, Sequences, FiniteSets

CONSTANTS Tools, LiveTools, Contents,
          Plan,          \* bodies for a tool and a content
          MaxInFlight,   \* requests of a run that are sent at a time
          MaxOlder,      \* bound: cancelled runs that have yet to end
          None

ASSUME WebConsoleAssumption ==
  LiveTools \subseteq Tools /\ DOMAIN Plan = Tools \X Contents /\ MaxInFlight \in Nat \ {0}

VARIABLES
  inputs,      \* tool and content of the page, and whether the service is known
  seen,        \* lastInputs
  signature,   \* liveSignature
  timer,       \* the tool the live timer will run, None when not set
  run,         \* the run that started last, until it ends
  older,       \* runs before it that have not ended
  running,     \* the flag the page shows
  result,      \* what the page shows
  bench,       \* a benchmark is under way
  saving,      \* the timer that saves the settings is set
  stored,      \* what it saved
  abandoned,   \* history: the last run was cancelled, broken off or wiped
  stray        \* history: the tool of the last run, if the page showed another
               \* when it started, else None

vars == <<inputs, seen, signature, timer, run, older, running, result, bench, saving, stored, abandoned, stray>>

PlanOf(i) == Plan[<<i.tool, i.content>>]
Signature(tool, content) == <<tool, Plan[<<tool, content>>]>>

Init ==
  /\ inputs \in [tool : Tools, content : Contents, service : {FALSE}]
  /\ stored = inputs
  /\ seen = None /\ signature = None /\ timer = None
  /\ run = None /\ older = {} /\ running = FALSE /\ result = None /\ bench = FALSE
  /\ saving = FALSE /\ abandoned = FALSE /\ stray = None

-----------------------------------------------------------------------------
(* Inputs and the live runner, which listens to every change of state.     *)

Listen(new) ==
  /\ seen' = new
  /\ IF /\ new # seen /\ new.tool \in LiveTools /\ new.service /\ PlanOf(new) # << >>
        /\ Signature(new.tool, new.content) # signature
     THEN timer' = new.tool
     ELSE UNCHANGED timer

\* As if inputs were saved with the next run only.
SetInputsUnsaved(new) ==
  /\ new # inputs
  /\ inputs' = new
  /\ Listen(new)
  /\ UNCHANGED <<signature, run, older, running, result, bench, saving, stored, abandoned, stray>>

SetInputs(new) ==
  /\ new # inputs
  /\ inputs' = new
  /\ Listen(new)
  /\ saving' = TRUE
  /\ UNCHANGED <<signature, run, older, running, result, bench, stored, abandoned, stray>>

Edit == \E content \in Contents : SetInputs([inputs EXCEPT !.content = content])
ChooseTool == \E tool \in Tools : SetInputs([inputs EXCEPT !.tool = tool])
ServiceKnown == SetInputs([inputs EXCEPT !.service = TRUE])

-----------------------------------------------------------------------------
(* Runs.                                                                   *)

Least2(a, b) == IF a < b THEN a ELSE b

NewRun(tool, bodies) ==
  [tool |-> tool, bodies |-> bodies, cancelled |-> FALSE,
   tasks |-> [n \in DOMAIN bodies |-> IF n <= MaxInFlight THEN "sent" ELSE "waiting"]]

\* Its requests are rejected, and what came back is dropped.
Cancelled(r) == [r EXCEPT !.cancelled = TRUE, !.bodies = << >>, !.tasks = << >>]

\* As if a new run did not cancel the one before it.
RunToolBesideOlder(tool, live) ==
  LET bodies == Plan[<<tool, inputs.content>>]
  IN  /\ signature' = Signature(tool, inputs.content)
      /\ IF bodies = << >>
         THEN /\ result' = IF live THEN result ELSE [tool |-> tool, bodies |-> << >>]
              /\ UNCHANGED <<run, older, running, abandoned, stray>>
         ELSE /\ older' = older \cup ({run} \ {None})
              /\ run' = NewRun(tool, bodies)
              /\ running' = TRUE /\ abandoned' = FALSE /\ stray' = IF tool = inputs.tool THEN None ELSE tool
              /\ UNCHANGED result

RunTool(tool, live) ==
  LET bodies == Plan[<<tool, inputs.content>>]
  IN  /\ signature' = Signature(tool, inputs.content)
      /\ IF bodies = << >>
         THEN /\ result' = IF live THEN result ELSE [tool |-> tool, bodies |-> << >>]
              /\ UNCHANGED <<run, older, running, abandoned, stray>>
         ELSE /\ older' = older \cup {Cancelled(r) : r \in {run} \ {None}}
              /\ run' = NewRun(tool, bodies)
              /\ running' = TRUE /\ abandoned' = FALSE /\ stray' = IF tool = inputs.tool THEN None ELSE tool
              /\ UNCHANGED result

TimerFires ==
  /\ timer # None /\ Cardinality(older) < MaxOlder
  /\ timer' = None
  /\ RunTool(timer, TRUE)
  /\ saving' = TRUE
  /\ UNCHANGED <<inputs, seen, bench, stored>>

PressRun ==
  /\ Cardinality(older) < MaxOlder
  /\ RunTool(inputs.tool, FALSE)
  /\ saving' = TRUE
  /\ UNCHANGED <<inputs, seen, timer, bench, stored>>

PressEscape ==
  /\ run # None
  /\ run' = Cancelled(run)
  /\ abandoned' = TRUE
  /\ UNCHANGED <<inputs, seen, signature, timer, older, running, result, bench, saving, stored, stray>>

\* A request is answered, or refused; the next one that waits is sent.
Answered(r, n) ==
  LET waiting == {m \in DOMAIN r.tasks : r.tasks[m] = "waiting"}
      next == {m \in waiting : \A k \in waiting : m <= k}
  IN  [r EXCEPT !.tasks = [m \in DOMAIN r.tasks |-> IF m = n THEN "done" ELSE IF m \in next THEN "sent" ELSE r.tasks[m]]]

Respond ==
  \E r \in older \cup ({run} \ {None}) : \E n \in DOMAIN r.tasks :
    /\ r.tasks[n] = "sent"
    /\ run' = IF r = run THEN Answered(r, n) ELSE run
    /\ older' = IF r = run THEN older ELSE (older \ {r}) \cup {Answered(r, n)}
    /\ UNCHANGED <<inputs, seen, signature, timer, running, result, bench, saving, stored, abandoned, stray>>

\* A cancelled run ends without its answers; the others show what they got.
Ends(r) == r.cancelled \/ \A n \in DOMAIN r.tasks : r.tasks[n] = "done"

Shown(r) == IF r.cancelled THEN result ELSE [tool |-> r.tool, bodies |-> r.bodies]

\* As if a cancelled run returned before it clears the flag.
RunEndsIfShown ==
  /\ run # None /\ Ends(run)
  /\ result' = Shown(run)
  /\ run' = None /\ running' = (run.cancelled /\ running)
  /\ saving' = TRUE
  /\ UNCHANGED <<inputs, seen, signature, timer, older, bench, stored, abandoned, stray>>

RunEnds ==
  /\ run # None /\ Ends(run)
  /\ result' = Shown(run)
  /\ run' = None /\ running' = FALSE
  /\ saving' = TRUE
  /\ UNCHANGED <<inputs, seen, signature, timer, older, bench, stored, abandoned, stray>>

\* Only the run that started last clears the flag.
OlderEnds ==
  /\ \E r \in older : Ends(r) /\ older' = older \ {r} /\ result' = Shown(r)
  /\ saving' = TRUE
  /\ UNCHANGED <<inputs, seen, signature, timer, run, running, bench, stored, abandoned, stray>>

\* The body of a response breaks off: the run throws, and shows nothing.
ResponseBreaks ==
  /\ run # None /\ ~run.cancelled
  /\ \E n \in DOMAIN run.tasks : run.tasks[n] = "sent"
  /\ run' = None /\ running' = FALSE /\ abandoned' = TRUE
  /\ saving' = TRUE
  /\ UNCHANGED <<inputs, seen, signature, timer, older, result, bench, stored, stray>>

ClearMap ==
  /\ result' = None /\ abandoned' = TRUE
  /\ saving' = TRUE
  /\ UNCHANGED <<inputs, seen, signature, timer, run, older, running, bench, stored, stray>>

\* Benchmarks repeat the requests of the result, and use the same flag.
StartBenchmark ==
  /\ ~bench /\ result # None /\ result.bodies # << >>
  /\ bench' = TRUE /\ running' = TRUE
  /\ saving' = TRUE
  /\ UNCHANGED <<inputs, seen, signature, timer, run, older, result, stored, abandoned, stray>>

BenchmarkEnds ==
  /\ bench
  /\ bench' = FALSE /\ running' = FALSE
  /\ saving' = TRUE
  /\ UNCHANGED <<inputs, seen, signature, timer, run, older, result, stored, abandoned, stray>>

-----------------------------------------------------------------------------
(* Settings are saved a while after a change; a reload starts from them.   *)

Kept(i) == [i EXCEPT !.service = FALSE]

SaveSettings ==
  /\ saving
  /\ saving' = FALSE /\ stored' = Kept(inputs)
  /\ UNCHANGED <<inputs, seen, signature, timer, run, older, running, result, bench, abandoned, stray>>

Reload ==
  /\ inputs' = stored
  /\ seen' = None /\ signature' = None /\ timer' = None
  /\ run' = None /\ older' = {} /\ running' = FALSE /\ result' = None /\ bench' = FALSE
  /\ saving' = FALSE /\ abandoned' = FALSE /\ stray' = None
  /\ UNCHANGED stored

Next ==
  \/ Edit \/ ChooseTool \/ ServiceKnown
  \/ TimerFires \/ PressRun \/ PressEscape \/ Respond \/ RunEnds \/ OlderEnds \/ ResponseBreaks
  \/ ClearMap \/ StartBenchmark \/ BenchmarkEnds \/ SaveSettings \/ Reload

\* Timers fire and requests are answered; nobody has to press a key.
Spec ==
  /\ Init /\ [][Next]_vars
  /\ WF_vars(TimerFires) /\ WF_vars(Respond) /\ WF_vars(RunEnds) /\ WF_vars(OlderEnds)
  /\ WF_vars(BenchmarkEnds) /\ WF_vars(SaveSettings)

-----------------------------------------------------------------------------
(* Properties.                                                             *)

Ready(i) == i.service /\ i.tool \in LiveTools /\ PlanOf(i) # << >>

\* From some time on the user only looks, and no response breaks off.
LeftAlone == <>[][TimerFires \/ Respond \/ RunEnds \/ OlderEnds \/ BenchmarkEnds \/ SaveSettings]_vars

(* "Re-runs live-capable tools whenever their request would change."  With    *)
(* live updating on, once the page is left alone it comes to show what was    *)
(* answered for its inputs and stays with it, whatever runs were under way,   *)
(* cancelled, behind the debounce timer or started by hand - unless the last  *)
(* run was cancelled, broke off or was wiped off the map, or was of another   *)
(* live tool.  That happens in one way: from a tool whose requests ran last   *)
(* to another and back within the delay; the way back leaves the timer of the *)
(* other tool set, because the requests on the page have not changed.         *)
LiveCatchesUp ==
  \A i \in [tool : LiveTools, content : Contents, service : {TRUE}] :
    LeftAlone /\ Ready(i) /\ <>[](inputs = i /\ ~abandoned /\ stray \in {None, i.tool})
      => <>[](result = [tool |-> i.tool, bodies |-> PlanOf(i)])

(* A timer outlives the tool that set it only if the page is back at requests *)
(* that were the last to run, is at a tool that does not run live, or at      *)
(* inputs that are not ready.                                                 *)
TimersAreOfThePage ==
  timer # None => timer = inputs.tool \/ ~Ready(inputs) \/ Signature(inputs.tool, inputs.content) = signature

(* The page never keeps showing that something runs: also after runs that     *)
(* replaced, cancelled or outlived each other the flag goes down.             *)
SpinnerStops == LeftAlone => <>[]~running

(* What a reload would restore catches up with the page once its inputs stay, *)
(* though a timer that is already set is not set again.                       *)
SettingsAreSaved ==
  \A i \in [tool : Tools, content : Contents, service : BOOLEAN] :
    <>[](inputs = i) => <>[](stored = Kept(i))

\* The page comes to show the answer to its inputs and that nothing runs.
PageSettles == LiveCatchesUp /\ SpinnerStops

=============================================================================
