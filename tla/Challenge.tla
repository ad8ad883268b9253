------------------------------- MODULE Challenge -------------------------------
(***************************************************************************)
(* hCaptcha: the attempts of one solve on a widget, from the passive poll   *)
(* to the visual challenge, and what the ledger is told of each attempt     *)
(* (src/src/services/hcaptcha.py, injected_widget.py, parsing/dispatcher.py,*)
(* parsing/vision_adapter.py, parsing/shapes).                              *)
(*                                                                         *)
(* The widget is the environment: it renders, passes, errs or shows a       *)
(* challenge whenever it likes.  Egress, context and page are SolveAttempt's*)
(* subject and appear here as a page that opens or does not.                *)
(***************************************************************************)
EXTENDS VisionPlane

CONSTANTS ProfileTier,   \* the vision tier of the solve's profile
          Retries,       \* captcha_retries
          MaxRounds      \* MAX_ROUNDS of the grid solver

ASSUME ChallengeAssumption ==
    ProfileTier \in {1, 2} /\ Retries \in Nat \ {0} /\ MaxRounds \in Nat \ {0}

VARIABLES
    widget,   \* the widget of the attempt's page, and its challenge frame
    solve,    \* the solve
    record    \* the SolveRecord of the attempt that has just ended

vars == <<ask, widget, solve, record>>

NewWidget == [rendered |-> FALSE, executed |-> FALSE, token |-> FALSE,
              error |-> "none",    \* what error-callback was told, by its class
              frame |-> "none"]    \* the shape the challenge frame shows

NoRecord == [outcome |-> "none", shape |-> "none", tokens |-> 0,
             paid |-> 0, dispatched |-> "none"]

NewSolve == [pc |-> "begin", invisible |-> FALSE, attempt |-> 0,
             tier |-> ProfileTier,     \* params["_hcaptcha_vision_tier"]
             stage |-> "acquire",      \* params["_phase"]
             shape |-> "none",         \* params["_challenge_shape"]
             adapter |-> 0,            \* total tokens of the attempt's VisionAdapter
             vision |-> 0,             \* those of params["_vision"]
             looked |-> FALSE,         \* the running poll has read the page
             round |-> 0, result |-> "none",
             \* for the properties only: the first attempt that waited in vain for the
             \* passive verdict, the shape this one dispatched, the replies it got and
             \* its escalations whose budget lookup raised
             waited |-> 0, dispatched |-> "none", paid |-> 0, outages |-> 0]

Init ==
    /\ ask = Quiet /\ widget = NewWidget /\ record = NoRecord
    /\ \E invisible \in BOOLEAN : solve = [NewSolve EXCEPT !.invisible = invisible]

At(pc) == solve.pc = pc
Become(new) == solve' = new
Goto(pc) == Become([solve EXCEPT !.pc = pc, !.looked = FALSE])
Raise(result) == Become([solve EXCEPT !.pc = "record", !.result = result])

Ended == solve.pc \in {"solved", "unsolved", "cancelled"}

-----------------------------------------------------------------------------
(* The widget                                                                *)

Polls == {"poll_passive", "poll_clicked", "poll_round", "poll_after", "poll_last"}

\* Where the solver's next step reads the page: what happens on it between two reads
\* happens, for the solver, at the second.
OnPage == solve.pc \in Polls \cup {"execute", "challenge", "ready", "detect", "look"}

Renders ==
    /\ OnPage /\ ~ widget.rendered
    /\ widget' = [widget EXCEPT !.rendered = TRUE]

\* An invisible widget passes only once it was executed.
Passes ==
    /\ OnPage /\ widget.rendered /\ ~ widget.token
    /\ solve.invisible => widget.executed
    /\ widget' = [widget EXCEPT !.token = TRUE]

Errs ==
    /\ OnPage /\ widget.error = "none"
    /\ \E e \in {"fatal", "transient"} : widget' = [widget EXCEPT !.error = e]

\* A challenge, another round of it, or its end.
Shows ==
    /\ OnPage /\ widget.rendered
    /\ \E f \in (Shapes \cup {"none"}) \ {widget.frame} :
          widget' = [widget EXCEPT !.frame = f]

Environment == (Renders \/ Passes \/ Errs \/ Shows) /\ UNCHANGED <<ask, solve, record>>

-----------------------------------------------------------------------------
(* The attempt and its page                                                  *)

\* Mutant: only the stage starts over.
StaleParams == [solve EXCEPT !.stage = "acquire", !.adapter = 0, !.looked = FALSE,
                  !.round = 0, !.result = "none", !.dispatched = "none", !.paid = 0,
                  !.outages = 0]

\* A fresh AttemptContext clears what the last attempt left on params.
FreshParams == [NewSolve EXCEPT !.invisible = solve.invisible, !.tier = solve.tier,
                  !.waited = solve.waited]

BeginAttempt ==
    /\ At("begin")
    /\ Become([FreshParams EXCEPT !.pc = "page", !.attempt = solve.attempt + 1])
    /\ widget' = NewWidget /\ ask' = Quiet /\ record' = NoRecord

OpenPage ==
    /\ At("page")
    /\ \/ Become([solve EXCEPT !.stage = "passive",
                    !.pc = IF solve.invisible THEN "execute" ELSE "poll_passive"])
       \/ \E stage \in {"acquire", "page_load"} :
             Become([solve EXCEPT !.stage = stage, !.pc = "record", !.result = "transient"])
    /\ UNCHANGED <<ask, widget, record>>

\* Motion, then the deferred execute(), if the widget has rendered by then.
TriggerExecute ==
    /\ At("execute")
    /\ Goto("poll_passive")
    /\ widget' = [widget EXCEPT !.executed = @ \/ widget.rendered]
    /\ UNCHANGED <<ask, record>>

-----------------------------------------------------------------------------
(* _poll_token: reads the page first, and again until its budget elapses.     *)

InDispatch == solve.pc \in {"poll_round", "poll_after", "poll_last"}

\* A solver that returns, with a token or with None, has its adapter stashed.
Return(pc) ==
    Become([solve EXCEPT !.pc = pc, !.result = IF pc = "record" THEN "failed" ELSE "token",
              !.vision = IF InDispatch THEN solve.adapter ELSE @])

AfterPoll ==
    CASE At("poll_passive") -> IF solve.invisible THEN "challenge" ELSE "click"
      [] At("poll_clicked") -> "challenge"
      [] At("poll_round") -> "look"
      [] At("poll_after") -> IF ask.answer.picks /\ solve.round < MaxRounds
                             THEN "next_round" ELSE "poll_last"
      [] OTHER -> "record"

PollReads ==
    /\ solve.pc \in Polls
    /\ \/ /\ widget.token
          /\ Return("verify")
       \/ /\ ~ widget.token /\ widget.error # "none"
          /\ Raise(widget.error)
       \/ /\ ~ widget.token /\ widget.error = "none" /\ ~ solve.looked
          /\ Become([solve EXCEPT !.looked = TRUE])
    /\ UNCHANGED <<ask, widget, record>>

\* The first attempt whose passive wait led to no verdict.
Waited == IF AfterPoll = "challenge" /\ solve.waited = 0 THEN solve.attempt ELSE solve.waited

\* The last wait may end with the budget, whatever came in meanwhile.
PollElapses ==
    /\ solve.pc \in Polls /\ solve.looked
    /\ IF At("poll_last") THEN Return("record")
       ELSE Become([solve EXCEPT !.pc = AfterPoll, !.looked = FALSE, !.waited = Waited])
    /\ UNCHANGED <<ask, widget, record>>

\* The page breaks under an evaluate.
PageBreaks ==
    /\ solve.pc \in Polls \cup {"challenge", "ready"}
    /\ Raise("transient")
    /\ UNCHANGED <<ask, widget, record>>

\* The checkbox; a click that fails is logged.
ClickCheckbox ==
    /\ At("click")
    /\ Become([solve EXCEPT !.stage = "interaction", !.pc = "poll_clicked", !.looked = FALSE])
    /\ UNCHANGED <<ask, widget, record>>

-----------------------------------------------------------------------------
(* _solve_challenge                                                          *)

\* An error of the widget first; otherwise a new adapter at the solve's tier.
EnterChallenge ==
    /\ At("challenge")
    /\ LET s == [solve EXCEPT !.stage = "challenge"] IN
       \/ /\ widget.error # "none"
          /\ Become([s EXCEPT !.pc = "record", !.result = widget.error])
       \/ /\ widget.error = "none"
          /\ Become([s EXCEPT !.pc = "ready", !.adapter = 0])
    /\ UNCHANGED <<ask, widget, record>>

\* A token, an error, a frame that shows something, or the deadline.
AwaitChallengeReady ==
    /\ At("ready")
    /\ \/ /\ widget.token
          /\ Become([solve EXCEPT !.pc = "verify", !.result = "token",
                       !.vision = solve.adapter])
       \/ /\ ~ widget.token /\ widget.error # "none"
          /\ Raise(widget.error)
       \/ /\ ~ widget.token /\ widget.error = "none"
          /\ Goto("detect")
    /\ UNCHANGED <<ask, widget, record>>

\* The shape is detected once; what is not recognised is tried as a grid.
Detect ==
    /\ At("detect")
    /\ LET shape == IF widget.frame = "none" THEN "grid_select" ELSE widget.frame
       IN Become([solve EXCEPT !.pc = "poll_round", !.looked = FALSE, !.round = 1,
                    !.shape = shape, !.dispatched = shape])
    /\ UNCHANGED <<ask, widget, record>>

-----------------------------------------------------------------------------
(* The shape solvers: rounds of the grid, one round of the others            *)

IsGrid == solve.shape = "grid_select"

\* The frame is read tile by tile; without tiles the grid gives up, without an image
\* the attempt.
Look ==
    /\ At("look")
    /\ \/ /\ IsGrid /\ widget.frame = "none"
          /\ Goto("poll_last") /\ UNCHANGED ask
       \/ /\ Raise("transient") /\ UNCHANGED ask
       \/ /\ IsGrid => widget.frame # "none"
          /\ Goto("classify") /\ StartAsking(solve.tier, solve.shape)
    /\ UNCHANGED <<widget, record>>

Classify ==
    /\ At("classify") /\ ClassifyStep
    /\ UNCHANGED <<widget, solve, record>>

\* VisionAdapter._meter: the usage of an answer and of a VisionParseError; no other
\* exception carries one.
Metered == [solve EXCEPT !.adapter = @ + ask.usage, !.paid = @ + ask.paid,
              !.outages = @ + ask.outage]

\* An unparsed reply leaves the solver as an error of its own; any other exception is
\* taken for an answer that selects nothing.
Answered ==
    /\ At("classify")
    /\ \/ /\ Asking("unparsed")
          /\ Become([Metered EXCEPT !.pc = "record", !.result = "transient"])
          /\ ask' = Quiet
       \/ /\ Asking("answered")
          /\ Become([Metered EXCEPT !.pc = "act"])
          /\ ask' = [Quiet EXCEPT !.answer = ask.answer]
       \/ /\ Asking("raised")
          /\ Become([Metered EXCEPT !.pc = "act"])
          /\ ask' = Quiet
    /\ UNCHANGED <<widget, record>>

\* The grid below the floor is reloaded, unless this is the last round.
Reload ==
    /\ At("act") /\ IsGrid
    /\ ask.answer.sure < Floor /\ solve.round < MaxRounds
    /\ Goto("next_round")
    /\ UNCHANGED <<ask, widget, record>>

\* Mutant: a reloaded round is played again instead of the next one.
SameRound ==
    /\ At("next_round")
    /\ Become([solve EXCEPT !.pc = "poll_round", !.looked = FALSE])
    /\ UNCHANGED <<ask, widget, record>>

NextRound ==
    /\ At("next_round")
    /\ Become([solve EXCEPT !.pc = "poll_round", !.looked = FALSE, !.round = @ + 1])
    /\ UNCHANGED <<ask, widget, record>>

\* Tiles and submit.
ClickTiles ==
    /\ At("act") /\ IsGrid
    /\ Goto("poll_after")
    /\ UNCHANGED <<ask, widget, record>>

\* A point, or a drag, and submit; without coordinates nothing is touched.
ActOnce ==
    /\ At("act") /\ ~ IsGrid
    /\ Goto("poll_last")
    /\ UNCHANGED <<ask, widget, record>>

-----------------------------------------------------------------------------
(* _solve_with_retries: record, verify, escalate, retry                      *)

\* default_challenge_shape: what is recorded of an attempt that detected no shape.
DefaultShape == "grid_select"

Recorded(outcome) ==
    record' = [outcome |-> outcome, tokens |-> solve.vision,
               shape |-> IF solve.shape = "none" THEN DefaultShape ELSE solve.shape,
               paid |-> solve.paid, dispatched |-> solve.dispatched]

Retry(s) ==
    Become([s EXCEPT !.pc = IF s.attempt < Retries THEN "begin" ELSE "unsolved"])

\* A token is recorded and verified; a rejected one is not an error to on_error.
RecordToken ==
    /\ At("verify")
    /\ Recorded("ready")
    /\ Become([solve EXCEPT !.pc = "solved"]) \/ Retry(solve)
    /\ UNCHANGED <<ask, widget>>

\* Mutant: every failure raises the tier.
TierAfterAny(stage) == 2

\* on_error: the tier rises only after a failure in the challenge stage.
TierAfter(stage) == IF stage = "challenge" THEN 2 ELSE solve.tier

RecordError ==
    /\ At("record")
    /\ Recorded(solve.result)
    /\ IF solve.result = "fatal" THEN Become([solve EXCEPT !.pc = "unsolved"])
       ELSE Retry([solve EXCEPT !.tier = TierAfter(solve.stage)])
    /\ UNCHANGED <<ask, widget>>

\* A cancellation unwinds the solve at any await and records nothing.
Cancel ==
    /\ ~ Ended /\ ~ At("begin")
    /\ Become([solve EXCEPT !.pc = "cancelled"]) /\ ask' = Quiet
    /\ UNCHANGED <<widget, record>>

Solver ==
    \/ BeginAttempt \/ OpenPage \/ TriggerExecute \/ PollReads \/ PollElapses
    \/ ClickCheckbox \/ EnterChallenge \/ AwaitChallengeReady \/ Detect \/ Look
    \/ Classify \/ Answered \/ Reload \/ NextRound \/ ClickTiles \/ ActOnce
    \/ RecordToken \/ RecordError

Next == Solver \/ Environment \/ PageBreaks \/ Cancel

\* Every await of a solve has a timeout of its own, so a started solve goes on; a poll
\* cannot look for ever.
Fairness == WF_vars(Solver)

Spec == Init /\ [][Next]_vars /\ Fairness

-----------------------------------------------------------------------------
(* Properties                                                                *)

\* The adapter's totals are what the attempt's models were paid for: every reply counts
\* once, also those of a vote without a quorum and of an escalation that did not parse.
\* What goes unmetered is the first reply of a classification whose budget lookup for an
\* escalation raised, and nothing else (VisionAdapter.classify, VisionRouter.classify).
OnlyOutagesGoUnmetered ==
    ~ At("classify") /\ ~ At("cancelled") => solve.adapter + solve.outages = solve.paid

\* A record tells of its own attempt: no spend of an earlier one, the shape the attempt
\* dispatched, and without any the default (_solve_with_retries, _record,
\* _solve_challenge).
RecordIsOfItsAttempt ==
    /\ record.tokens <= record.paid
    /\ record.dispatched # "none" => record.shape = record.dispatched
    /\ record.shape # DefaultShape => record.dispatched = record.shape

\* A solve that starts at tier 1 asks for tier 2 only after an earlier attempt of it
\* waited out the passive verdict: neither a page that does not open nor an error during
\* that wait engages the expensive tier (_escalate_tier: "A failure at an earlier stage
\* (context acquire / page load / passive poll) is not a 'hard challenge' signal").
EarlyFailuresStayTierOne ==
    ask.tier = 2 /\ ProfileTier = 1 => solve.waited > 0 /\ solve.waited < solve.attempt

\* Whatever the widget and the models do, the polls, rounds, reloads and retries of a
\* solve come to an end (_poll_token, GridSelectSolver.run, _solve_with_retries).
SolveEnds == <>Ended

\* The record of an attempt carries what its models were paid for.  The docstring of
\* VisionParseError promises it for a failed solve; an error that leaves the dispatcher
\* goes by the line that stashes the adapter for the record.
SpendIsRecorded == record.tokens = record.paid

\* Every model call is metered (VisionAdapter.classify: "Meter even a failed call"); a
\* budget lookup that raises after the first reply takes its usage along.
EveryReplyIsMetered ==
    ~ At("classify") /\ ~ At("cancelled") => solve.adapter = solve.paid

\* The tier is bumped only "when the failure actually reached the visual challenge"
\* (_escalate_tier); the stage is stamped before one shows, and a widget error or a
\* broken page at that point counts as one.
TierRisesAfterAChallenge ==
    [][solve'.tier > solve.tier => solve.dispatched # "none"]_vars

=============================================================================
