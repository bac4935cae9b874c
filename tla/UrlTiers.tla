------------------------------ MODULE UrlTiers ------------------------------
(***************************************************************************)
(* How a recipe is acquired from a URL: the fetch and the three tiers of   *)
(* extraction/url_plugin.py, the last of them the model driving a browser  *)
(* (extraction/browser.py).                                                *)
(*                                                                         *)
(* One acquisition, in one thread.  A step ends where it waits: for the    *)
(* site, the model, or the browser.                                        *)
(*                                                                         *)
(* Abstractions.  Pages and texts are left out but for what the code asks  *)
(* of them, and so are the images, which are best effort.  Artifacts are   *)
(* named after what they hold: the raw page, its readable text, the log of *)
(* the browser's actions, a screenshot.  A call of the model is answered,  *)
(* or raises CostCapExceeded ("cap"), another LLMError ("error"), or what  *)
(* the provider's client raises ("outage").                                *)
(***************************************************************************)
EXTENDS Absent, Naturals

CONSTANTS
  MaxRedirects,
  MaxActions,   \* _MAX_ITERATIONS of the browser's loop
  MaxTools,     \* a bound on the tools one answer calls
  Playwright    \* whether it is installed

ASSUME UrlAssumption ==
  /\ {MaxRedirects, MaxActions, MaxTools} \subseteq Nat
  /\ Playwright \in BOOLEAN
  /\ None \notin {"captured", "late", "moved"}

VARIABLES
  stage,    \* place in the code
  hops,     \* redirects followed
  kept,     \* the artifacts dictionary of acquire
  loop,     \* the browser's loop: calls of the model, tools still to run, time over
  signal,   \* the control signal a tool has raised
  result    \* Acquired, or the error that leaves acquire

urlVars == <<stage, hops, kept, loop, signal, result>>

Artifact == {"html", "text", "log", "screenshot"}
Failure == {"tier_failed", "cap", "error", "outage", "crash"}
Signal == {"captured", "late", "moved"}

UrlTypeOK ==
  /\ stage \in {"idle", "fetch", "tier1", "tier2", "tier3", "loop", "done"}
  /\ hops \in 0..MaxRedirects
  /\ kept \subseteq {"html", "text"}
  /\ loop \in [calls : 0..MaxActions, tools : 0..MaxTools, late : BOOLEAN]
  /\ signal \in Signal \cup {None}
  /\ result \in [kind : {"acquired"} \cup Failure, tier : 0..3, artifacts : SUBSET Artifact] \cup {None}

UrlInit ==
  /\ stage = "idle" /\ hops = 0
  /\ kept = {}
  /\ loop = [calls |-> 0, tools |-> 0, late |-> FALSE]
  /\ signal = None
  /\ result = None

Leave(kind, tier, artifacts) ==
  /\ stage' = "done"
  /\ result' = [kind |-> kind, tier |-> tier, artifacts |-> artifacts]

GoTo(s) == stage' = s /\ UNCHANGED result

-----------------------------------------------------------------------------
(* The fetch, and tiers 1 and 2 *)

Acquire ==
  /\ stage = "idle"
  /\ GoTo("fetch")
  /\ UNCHANGED <<hops, kept, loop, signal>>

\* _safe_stream follows a redirect, unless there were too many.
Redirect ==
  /\ stage = "fetch"
  /\ IF hops < MaxRedirects THEN hops' = hops + 1 /\ GoTo("fetch")
     ELSE Leave("tier_failed", 0, {}) /\ UNCHANGED hops
  /\ UNCHANGED <<kept, loop, signal>>

\* The raw page is saved first.  A page that fails, is no HTML, is too large or takes too
\* long is the end.
Fetch ==
  /\ stage = "fetch"
  /\ \/ GoTo("tier1") /\ kept' = {"html"}
     \/ Leave("tier_failed", 0, {}) /\ UNCHANGED kept
  /\ UNCHANGED <<hops, loop, signal>>

\* Complete JSON-LD is acquired once its lines are enriched, or when that fails.
Sinks(reply) == reply \in {"cap", "outage"}
Tier1 ==
  /\ stage = "tier1"
  /\ \/ GoTo("tier2")  \* no complete JSON-LD
     \/ \E reply \in {"answered", "mismatch", "error", "cap", "outage"} :
          IF Sinks(reply) THEN Leave(reply, 1, {}) ELSE Leave("acquired", 1, kept)
  /\ UNCHANGED <<hops, kept, loop, signal>>

\* Only what is raised as TierFailed escalates.
Escalate == IF Playwright THEN GoTo("tier3") ELSE Leave("tier_failed", 2, {})

Tier2 ==
  /\ stage = "tier2"
  /\ \/ Escalate /\ UNCHANGED kept  \* not enough text, or the judge says no
     \/ kept' = kept \cup {"text"} /\ Leave("acquired", 2, kept')
     \/ \E reply \in {"error", "cap", "outage"} : Leave(reply, 2, {}) /\ UNCHANGED kept
  /\ UNCHANGED <<hops, loop, signal>>

-----------------------------------------------------------------------------
(* Tier 3 *)

\* Mutant of Merged: the artifacts of the last tier instead of all.
MergedLast(artifacts) == artifacts

\* _tier3: what tiers 1 and 2 retained joins the artifacts of the browser.
Merged(artifacts) == kept \cup artifacts

Browser3(kind, artifacts) == Leave(kind, 3, Merged(artifacts))

OpenPage ==
  /\ stage = "tier3"
  /\ \/ GoTo("loop")
     \/ Browser3("tier_failed", {})  \* an address that is not public, or a page that does not load
     \/ Leave("crash", 3, {})        \* the browser does not start
  /\ UNCHANGED <<hops, kept, loop, signal>>

\* _fail: the log, and a screenshot if the page still gives one.
Fail3 == \E shot \in SUBSET {"screenshot"} : Browser3("tier_failed", {"log"} \cup shot)

\* Mutant of Used: calls that end in tools do not count.
UsedUncounted(n) == [loop EXCEPT !.tools = n]

Used(n) == [loop EXCEPT !.calls = @ + 1, !.tools = n]

AskModel ==
  /\ stage = "loop" /\ loop.tools = 0
  /\ IF loop.calls = MaxActions THEN Fail3 /\ UNCHANGED loop  \* BudgetExceeded
     ELSE \/ \E n \in 1..MaxTools : loop' = Used(n) /\ GoTo("loop")
          \/ loop' = Used(0) /\ Fail3  \* the end of the turn, and nothing captured
          \/ \E reply \in {"error", "cap", "outage"} : Leave(reply, 3, {}) /\ UNCHANGED loop
  /\ UNCHANGED <<hops, kept, signal>>

ToolDone == loop' = [loop EXCEPT !.tools = @ - 1]

\* Mutant of Raise: the signals as Exceptions, which the loop tells the model.
RaiseToModel(s) == ToolDone /\ GoTo("loop")

\* The signals are no Exceptions: they pass the handler of the tools in tool_loop.
Raise(s) ==
  /\ CASE s = "captured" -> \E shot \in SUBSET {"screenshot"} : Browser3("acquired", shot)
       [] s = "late" -> Fail3
       [] s = "moved" -> Browser3("tier_failed", {})
  /\ UNCHANGED loop

\* The clock is looked at first, then where the page is, then the tool runs.  What fails in
\* it is told to the model.
RunTool ==
  /\ stage = "loop" /\ loop.tools > 0
  /\ \/ \E s \in IF loop.late THEN {"late"} ELSE {"captured", "moved"} : signal' = s /\ Raise(s)
     \/ ~loop.late /\ ToolDone /\ GoTo("loop") /\ UNCHANGED signal
  /\ UNCHANGED <<hops, kept>>

TimeIsUp ==
  /\ stage = "loop" /\ ~loop.late
  /\ loop' = [loop EXCEPT !.late = TRUE]
  /\ UNCHANGED <<stage, hops, kept, signal, result>>

UrlStep == Redirect \/ Fetch \/ Tier1 \/ Tier2 \/ OpenPage \/ AskModel \/ RunTool
UrlNext == Acquire \/ UrlStep \/ TimeIsUp

\* Every wait has a timeout.
UrlFairness == WF_urlVars(UrlStep)
UrlSpec == UrlInit /\ [][UrlNext]_urlVars /\ UrlFairness

-----------------------------------------------------------------------------
(* Properties *)

\* A tier that fails after the page was fetched leaves the raw page on the failure, and after
\* the browser's loop the log of its actions too: but nothing of a page that moved to an
\* address that is not public.
FailureKeepsPage ==
  Playwright /\ stage = "done" /\ result.kind = "tier_failed" /\ kept # {} =>
    /\ "html" \in result.artifacts
    /\ loop.calls > 0 /\ signal # "moved" => "log" \in result.artifacts
    /\ signal = "moved" => result.artifacts \cap {"log", "screenshot"} = {}

\* A signal ends the loop at once: the model is told nothing and asked nothing more, and what
\* was captured is what is acquired.
SignalEndsLoop ==
  signal # None =>
    /\ stage = "done"
    /\ result.kind = IF signal = "captured" THEN "acquired" ELSE "tier_failed"

\* Acquisition ends, in whatever circles the model and the site lead it.
AcquisitionEnds == stage = "fetch" ~> stage = "done"

=============================================================================
