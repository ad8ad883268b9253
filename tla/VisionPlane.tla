------------------------------ MODULE VisionPlane ------------------------------
(***************************************************************************)
(* One classification of a challenge by the models: tier, budget gate,     *)
(* fallback, escalation and self-consistency vote                          *)
(* (src/src/parsing/vision.py, model_call.py).                             *)
(*                                                                         *)
(* Prompts, images and answers are reduced to whether a reply matches the  *)
(* schema of its shape, whether it selects anything, and how its           *)
(* confidence compares with the solvers' floor and the router's threshold. *)
(* The budget is asked and answers what it likes; BudgetGuard models it.   *)
(***************************************************************************)
EXTENDS Integers

CONSTANTS CloudEnabled,     \* vision_cloud_enabled
          InlineEscalate,   \* vision_inline_escalate
          TrustSelf,        \* vision_trust_self_confidence
          Samples           \* vision_vote_samples

ASSUME VisionAssumption ==
    /\ {CloudEnabled, InlineEscalate, TrustSelf} \subseteq BOOLEAN
    /\ Samples \in Nat \ {0}

VARIABLE ask    \* the running VisionRouter.classify

IndexShapes == {"grid_select"}
Shapes == IndexShapes \cup {"area_bbox", "drag_drop"}

\* Below the solvers' CONFIDENCE_FLOOR, below vision_confidence_threshold, above both.
Floor == 1
Threshold == 2
Confidences == 0..2

NoAnswer == [ok |-> FALSE, picks |-> FALSE, sure |-> 0]
Answers == [ok : {TRUE}, picks : BOOLEAN, sure : Confidences]

NoVotes == [ok |-> 0, bad |-> 0, failed |-> 0]

Quiet == [pc |-> "quiet", tier |-> 1, shape |-> "none", backend |-> "local",
          answer |-> NoAnswer, votes |-> NoVotes,
          usage |-> 0,         \* total_usage, one unit for each reply
          \* for the properties only: replies received, whether the budget allowed
          \* a cloud call, whether one was made, and escalations whose lookup raised
          paid |-> 0, allowed |-> FALSE, cloud |-> FALSE, outage |-> 0]

Asking(pc) == ask.pc = pc

\* A call to a backend went out (and came back).
Called(a, backend) == [a EXCEPT !.cloud = IF backend = "cloud" THEN TRUE ELSE @]
Replied(a) == [a EXCEPT !.paid = @ + 1]

\* A confidence multiplied by a factor below one.
Damped(c) == 0..c

-----------------------------------------------------------------------------
(* Routing and the budget gate                                               *)

StartAsking(tier, shape) ==
    ask' = [Quiet EXCEPT !.pc = "guard", !.tier = tier, !.shape = shape,
              !.backend = IF tier >= 2 /\ CloudEnabled THEN "cloud" ELSE "local"]

\* guard_budget: only a cloud call is checked, a denied one goes to the local model.
\* The lookup reads the ledger, and an outage of that leaves the classification.
GuardBudget ==
    /\ Asking("guard")
    /\ \/ /\ ask.backend = "local"
          /\ ask' = [ask EXCEPT !.pc = "initial"]
       \/ /\ ask.backend = "cloud"
          /\ \E allowed \in BOOLEAN :
                ask' = [ask EXCEPT !.pc = "initial", !.allowed = allowed,
                          !.backend = IF allowed THEN "cloud" ELSE "local"]
       \/ /\ ask.backend = "cloud"
          /\ ask' = [ask EXCEPT !.pc = "raised"]

-----------------------------------------------------------------------------
(* call_with_fallback                                                        *)

InitialReply ==
    /\ ask.pc \in {"initial", "fallback"}
    /\ \E a \in Answers \cup {NoAnswer} :
          ask' = [Replied(Called(ask, ask.backend)) EXCEPT
                    !.pc = "weigh", !.usage = 1, !.answer = a]

\* A connection error of the routed backend; the other one is tried once: local from
\* cloud always, cloud from local when it is enabled and the budget allows it.
FallBack ==
    /\ Asking("initial")
    /\ \/ /\ ask.backend = "cloud"
          /\ ask' = [Called(ask, "cloud") EXCEPT !.pc = "fallback", !.backend = "local"]
       \/ /\ ask.backend = "local" /\ CloudEnabled
          /\ ask' = [ask EXCEPT !.pc = "fallback", !.backend = "cloud", !.allowed = TRUE]

\* Another error, no other backend, a denial, a budget lookup that raises, or the other
\* backend fails as well.
InitialFails ==
    /\ ask.pc \in {"initial", "fallback"}
    /\ ask' = [Called(ask, ask.backend) EXCEPT !.pc = "raised"]

-----------------------------------------------------------------------------
(* Escalation and vote                                                       *)

Unsure(a) == ~ a.ok \/ a.sure < Threshold

\* An index answer is not taken at the model's own word.
WorthAVote == Samples > 1 /\ \/ ask.shape \in IndexShapes /\ ~ TrustSelf
                             \/ Unsure(ask.answer)

\* The budget is looked up once more, outside of any try: when that raises, the usage of
\* the reply in hand is lost with it.
Weigh ==
    /\ Asking("weigh")
    /\ \/ /\ ask.tier < 2 /\ CloudEnabled /\ InlineEscalate /\ Unsure(ask.answer)
          /\ \/ ask' = [ask EXCEPT !.pc = "escalate", !.allowed = TRUE]
             \/ ask' = [ask EXCEPT !.pc = "conclude"]      \* denied
             \/ ask' = [ask EXCEPT !.pc = "raised", !.usage = 0, !.outage = 1]
       \/ /\ ask.tier < 2 /\ ~ (CloudEnabled /\ InlineEscalate /\ Unsure(ask.answer))
          /\ ask' = [ask EXCEPT !.pc = "conclude"]
       \/ /\ ask.tier >= 2
          /\ ask' = [ask EXCEPT !.pc = IF CloudEnabled /\ WorthAVote THEN "vote"
                                       ELSE "conclude"]

\* The cloud's reading replaces the local one only if it parses.
Escalate ==
    /\ Asking("escalate")
    /\ LET called == Called(ask, "cloud") IN
       \/ ask' = [called EXCEPT !.pc = "conclude"]
       \/ ask' = [Replied(called) EXCEPT !.pc = "conclude", !.usage = @ + 1]
       \/ \E a \in Answers :
             ask' = [Replied(called) EXCEPT !.pc = "escalated", !.usage = @ + 1,
                       !.backend = "cloud", !.answer = a]

VoteOnEscalation ==
    /\ Asking("escalated")
    /\ ask' = [ask EXCEPT !.pc = IF WorthAVote THEN "vote" ELSE "conclude"]

Voted == ask.votes.ok + ask.votes.bad + ask.votes.failed

\* Mutant: the vote always goes to the cloud, as it may after an escalation.
SampleFromCloud ==
    /\ Asking("vote") /\ Voted < Samples
    /\ ask' = [Replied(Called(ask, "cloud")) EXCEPT !.votes.ok = @ + 1]

\* _vote_sample: a sample that parses, one that does not, one that raises.
Sample ==
    /\ Asking("vote") /\ Voted < Samples
    /\ LET called == Called(ask, ask.backend) IN
       \/ ask' = [Replied(called) EXCEPT !.votes.ok = @ + 1]
       \/ ask' = [Replied(called) EXCEPT !.votes.bad = @ + 1]
       \/ ask' = [called EXCEPT !.votes.failed = @ + 1]

Quorum == IF ask.shape \in IndexShapes THEN 2 ELSE 1

\* Mutant: a vote without a quorum is thrown away with its usage.
CountQuorateVotes ==
    /\ Asking("vote") /\ Voted = Samples
    /\ \/ /\ ask.votes.ok >= Quorum
          /\ \E a \in Answers :
                ask' = [ask EXCEPT !.pc = "conclude", !.answer = a,
                          !.usage = @ + ask.votes.ok + ask.votes.bad]
       \/ /\ ask.votes.ok < Quorum
          /\ ask' = [ask EXCEPT !.pc = "conclude"]

\* _vote: the usage of every reply counts, the answer only with a quorum of parsed samples.
\* A coordinate shape may also parse without a usable coordinate.
CountVotes ==
    /\ Asking("vote") /\ Voted = Samples
    /\ LET counted == [ask EXCEPT !.pc = "conclude",
                         !.usage = @ + ask.votes.ok + ask.votes.bad] IN
       \/ /\ ask.votes.ok >= Quorum
          /\ \E a \in Answers :
                ask' = [counted EXCEPT !.answer = a]
       \/ /\ ask.votes.ok < Quorum \/ ask.shape \notin IndexShapes
          /\ \E c \in Damped(ask.answer.sure) : ask' = [counted EXCEPT !.answer.sure = c]

\* A tier 2 request without the cloud is answered at reduced confidence; without any
\* sample that parses, VisionParseError carries the usage.
Conclude ==
    /\ Asking("conclude")
    /\ \/ /\ ask.answer.ok
          /\ \E c \in IF ask.tier >= 2 /\ ~ CloudEnabled
                      THEN Damped(ask.answer.sure) ELSE {ask.answer.sure} :
                ask' = [ask EXCEPT !.pc = "answered", !.answer.sure = c]
       \/ /\ ~ ask.answer.ok
          /\ ask' = [ask EXCEPT !.pc = "unparsed"]

ClassifyStep ==
    \/ GuardBudget \/ InitialReply \/ FallBack \/ InitialFails
    \/ Weigh \/ Escalate \/ VoteOnEscalation \/ Sample \/ CountVotes \/ Conclude

\* Without a word of the budget for it, no cloud model is called: whatever was denied
\* is asked of the local one, the samples of a vote included (VisionRouter.classify
\* over ModelInvoker.guard_budget and budget_allows_cloud).
DeniedStaysLocal == ask.cloud => ask.allowed

=============================================================================
