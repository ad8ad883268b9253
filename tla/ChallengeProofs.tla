---------------------------- MODULE ChallengeProofs ----------------------------
(***************************************************************************)
(* Proofs about the vision plane and the attempts of a challenge: budget   *)
(* denials, metering, records and tiers, for any number of samples,        *)
(* attempts and rounds.                                                    *)
(***************************************************************************)
EXTENDS Challenge, TLAPS

AskPC == {"quiet", "guard", "initial", "fallback", "weigh", "escalate", "escalated",
          "vote", "conclude", "answered", "unparsed", "raised"}
SomeShape == Shapes \cup {"none"}

AnyAnswer == [ok : BOOLEAN, picks : BOOLEAN, sure : Confidences]
AskRecord ==
    [pc : AskPC, tier : {1, 2}, shape : SomeShape, backend : {"local", "cloud"},
     answer : AnyAnswer, votes : [ok : Nat, bad : Nat, failed : Nat],
     usage : Nat, paid : Nat, allowed : BOOLEAN, cloud : BOOLEAN, outage : {0, 1}]

\* The budget has had its say on whatever goes to the cloud, now or later.
Asked(a) ==
    /\ a.cloud => a.allowed
    /\ a.pc \in {"quiet", "guard"} => ~ a.cloud
    /\ a.backend = "cloud" => a.pc \in {"guard", "raised"} \/ a.allowed
    /\ a.pc = "escalate" => a.allowed

\* What a classification was paid for so far: nothing before the first reply, and in a
\* vote the samples on top of what is counted already.  One that raised counts nothing:
\* what it was paid for is lost, one reply with a budget lookup.
Counted(a) ==
    /\ a.pc \in {"quiet", "guard", "initial", "fallback"} => a.paid = 0 /\ a.usage = 0
    /\ a.pc = "raised" => a.paid = a.outage /\ a.usage = 0
    /\ a.pc # "raised" => a.outage = 0
    /\ a.pc \in {"guard", "initial", "fallback", "weigh", "escalate", "escalated"} =>
          a.votes = NoVotes
    /\ a.pc \notin {"vote", "raised"} => a.paid = a.usage
    /\ a.pc = "weigh" => a.usage = 1
    /\ a.pc = "vote" => a.paid = a.usage + a.votes.ok + a.votes.bad

AskOK(a) == a \in AskRecord /\ Asked(a) /\ Counted(a)

\* Before its challenge an attempt asks no model.
BeforeChallenge ==
    {"begin", "page", "execute", "poll_passive", "click", "poll_clicked", "challenge",
     "ready", "detect"}
SolvePC == BeforeChallenge \cup
    {"poll_round", "look", "classify", "act", "next_round", "poll_after", "poll_last",
     "verify", "record", "solved", "unsolved", "cancelled"}
Stages == {"acquire", "page_load", "passive", "interaction", "challenge"}
Results == {"none", "token", "failed", "transient", "fatal"}

SolveRecord ==
    [pc : SolvePC, invisible : BOOLEAN, attempt : Nat, tier : {1, 2},
     stage : Stages, shape : SomeShape, adapter : Nat, vision : Nat,
     looked : BOOLEAN, round : Nat, result : Results,
     waited : Nat, dispatched : SomeShape, paid : Nat, outages : Nat]

WidgetTypeOK ==
    widget \in [rendered : BOOLEAN, executed : BOOLEAN, token : BOOLEAN,
                error : {"none", "fatal", "transient"}, frame : SomeShape]

\* The attempt's meter, and what it has stashed of it for the record.
Metering(s) ==
    /\ s.adapter + s.outages = s.paid
    /\ s.pc \in BeforeChallenge \ {"begin"} => s.paid = 0
    /\ s.vision <= s.paid
    /\ s.shape = s.dispatched

\* A raised tier tells of an earlier attempt, once the next one has begun.
Tiers(s) ==
    /\ s.pc # "begin" => s.attempt > 0
    /\ s.waited <= s.attempt
    /\ s.stage = "challenge" \/ s.pc = "challenge" => s.waited > 0
    /\ s.tier = 2 /\ ProfileTier = 1 =>
          /\ s.waited > 0
          /\ s.pc \in {"begin", "unsolved"} \/ s.waited < s.attempt

SolveOK(s) == s \in SolveRecord /\ Metering(s) /\ Tiers(s)

RecordOK ==
    /\ record.tokens <= record.paid
    /\ \/ record.shape = record.dispatched
       \/ record.dispatched = "none" /\ record.shape = DefaultShape

\* A classification runs for the solve that waits for it, at its tier.
OwnAsk ==
    /\ ask.pc # "quiet" => At("classify")
    /\ ask.tier = 2 => At("classify") /\ solve.tier = 2

IInv == AskOK(ask) /\ SolveOK(solve) /\ WidgetTypeOK /\ RecordOK /\ OwnAsk

-----------------------------------------------------------------------------
(* A step of a classification                                                *)

(* A call leaves its mark on `cloud` only, and rightly so once the budget    *)
(* has allowed it.                                                           *)
LEMMA CalledOK ==
    ASSUME NEW a, AskOK(a), a.pc \notin {"quiet", "guard"},
           NEW b, b = "cloud" => a.allowed
    PROVE  /\ AskOK(Called(a, b))
           /\ Called(a, b).pc = a.pc /\ Called(a, b).tier = a.tier
           /\ Called(a, b).backend = a.backend /\ Called(a, b).allowed = a.allowed
           /\ Called(a, b).votes = a.votes /\ Called(a, b).usage = a.usage
           /\ Called(a, b).paid = a.paid /\ Called(a, b).outage = a.outage
<1>1. CASE b = "cloud"
  <2>1. Called(a, b) = [a EXCEPT !.cloud = TRUE] BY <1>1 DEF Called
  <2>2. a \in AskRecord /\ Asked(a) /\ Counted(a) BY DEF AskOK
  <2>3. Called(a, b) \in AskRecord BY <2>1, <2>2 DEF AskRecord
  <2>4. Asked(Called(a, b)) BY <2>1, <2>2, <1>1 DEF AskRecord, Asked
  <2>5. Counted(Called(a, b)) BY <2>1, <2>2 DEF AskRecord, Counted
  <2>6. /\ Called(a, b).pc = a.pc /\ Called(a, b).tier = a.tier
        /\ Called(a, b).backend = a.backend /\ Called(a, b).allowed = a.allowed
        /\ Called(a, b).votes = a.votes /\ Called(a, b).usage = a.usage
        /\ Called(a, b).paid = a.paid /\ Called(a, b).outage = a.outage
    BY <2>1, <2>2 DEF AskRecord
  <2> QED BY <2>3, <2>4, <2>5, <2>6 DEF AskOK
<1>2. CASE b # "cloud"
  <2>1. Called(a, b) = a BY <1>2 DEF Called, AskOK, AskRecord
  <2> QED BY <2>1
<1> QED BY <1>1, <1>2

(* Every step of VisionRouter.classify keeps the count of replies, and goes  *)
(* to the cloud only with a word of the budget.                              *)
LEMMA ClassifyKeeps ==
    ASSUME AskOK(ask), ClassifyStep
    PROVE  AskOK(ask') /\ ask'.tier = ask.tier /\ ask.pc # "quiet"
<1> USE DEF Asking, AskPC, NoVotes
<1> DEFINE Goal == AskOK(ask') /\ ask'.tier = ask.tier
<1>a. ask \in AskRecord /\ Asked(ask) /\ Counted(ask) BY DEF AskOK
<1>c. Answers \cup {NoAnswer} \subseteq AnyAnswer
  <2>1. NoAnswer \in AnyAnswer BY DEF NoAnswer, AnyAnswer, Confidences
  <2>2. ASSUME NEW a \in Answers PROVE a \in AnyAnswer
    BY <2>2 DEF Answers, AnyAnswer
  <2> QED BY <2>1, <2>2
<1>1. CASE GuardBudget
  <2>1. CASE ask' = [ask EXCEPT !.pc = "initial"] /\ ask.backend = "local"
    BY <1>1, <1>a, <2>1 DEF GuardBudget, AskOK, AskRecord, Asked, Counted
  <2>2. ASSUME NEW allowed \in BOOLEAN,
               ask' = [ask EXCEPT !.pc = "initial", !.allowed = allowed,
                         !.backend = IF allowed THEN "cloud" ELSE "local"]
        PROVE  Goal
    BY <1>1, <1>a, <2>2 DEF GuardBudget, AskOK, AskRecord, Asked, Counted
  <2>3. CASE ask' = [ask EXCEPT !.pc = "raised"]
    <3>1. ask' \in AskRecord BY <2>3, <1>a DEF AskRecord
    <3>2. Asked(ask') BY <2>3, <1>1, <1>a DEF GuardBudget, AskRecord, Asked
    <3>3. ask.paid = 0 /\ ask.usage = 0 /\ ask.outage = 0
      BY <1>1, <1>a DEF GuardBudget, Counted
    <3>4. Counted(ask') BY <2>3, <3>3, <1>a DEF AskRecord, Counted
    <3> QED BY <3>1, <3>2, <3>4, <2>3, <1>1, <1>a DEF GuardBudget, AskOK, AskRecord
  <2> QED BY <1>1, <2>1, <2>2, <2>3 DEF GuardBudget
<1>2. CASE InitialReply
  <2>1. PICK a \in AnyAnswer :
           ask' = [Replied(Called(ask, ask.backend)) EXCEPT
                    !.pc = "weigh", !.usage = 1, !.answer = a]
    BY <1>2, <1>c DEF InitialReply
  <2>2. PICK c : c = Called(ask, ask.backend) OBVIOUS
  <2>3. AskOK(c) /\ c.pc = ask.pc /\ c.tier = ask.tier
    BY <2>2, <1>2, <1>a, CalledOK DEF InitialReply, Asked
  <2>4. ask' = [c EXCEPT !.paid = @ + 1, !.pc = "weigh", !.usage = 1, !.answer = a]
    BY <2>1, <2>2, <2>3 DEF Replied, AskOK, AskRecord
  <2>5. c \in AskRecord /\ Asked(c) /\ Counted(c) /\ c.pc \in {"initial", "fallback"}
    BY <2>3, <1>2 DEF InitialReply, AskOK
  <2>n. PICK n \in Nat : n = c.paid + 1 BY <2>5 DEF AskRecord
  <2>6. ask' \in AskRecord
    <3>1. ask' = [c EXCEPT !.paid = n, !.pc = "weigh", !.usage = 1, !.answer = a]
      BY <2>4, <2>n
    <3> QED BY <3>1, <2>5 DEF AskRecord
  <2>7. Asked(ask') BY <2>4, <2>5 DEF AskRecord, Asked
  <2>8. Counted(ask') BY <2>4, <2>5 DEF AskRecord, Counted
  <2>9. ask'.tier = ask.tier BY <2>3, <2>4, <2>5 DEF AskRecord
  <2> QED BY <2>6, <2>7, <2>8, <2>9, <1>2 DEF AskOK, InitialReply
<1>3. CASE FallBack
  <2>1. CASE ask.backend = "cloud"
    <3>1. PICK c : c = Called(ask, "cloud") OBVIOUS
    <3>2. AskOK(c) /\ c.pc = ask.pc /\ c.tier = ask.tier
      BY <3>1, <2>1, <1>3, <1>a, CalledOK DEF FallBack, Asked
    <3>3. ask' = [c EXCEPT !.pc = "fallback", !.backend = "local"]
      BY <3>1, <2>1, <1>3 DEF FallBack
    <3> QED BY <3>2, <3>3, <1>3 DEF FallBack, AskOK, AskRecord, Asked, Counted
  <2>2. CASE ask.backend = "local"
    BY <2>2, <1>3, <1>a, ZenonT(30) DEF FallBack, AskOK, AskRecord, Asked, Counted
  <2> QED BY <2>1, <2>2, <1>3 DEF FallBack
<1>4. CASE InitialFails
  <2>1. PICK c : c = Called(ask, ask.backend) OBVIOUS
  <2>2. AskOK(c) /\ c.pc = ask.pc /\ c.tier = ask.tier
    BY <2>1, <1>4, <1>a, CalledOK DEF InitialFails, Asked
  <2>3. ask' = [c EXCEPT !.pc = "raised"] BY <2>1, <1>4 DEF InitialFails
  <2> QED BY <2>2, <2>3, <1>4 DEF InitialFails, AskOK, AskRecord, Asked, Counted
<1>5. CASE Weigh
  <2>1. CASE ask' = [ask EXCEPT !.pc = "escalate", !.allowed = TRUE]
    BY <2>1, <1>5, <1>a DEF Weigh, AskOK, AskRecord, Asked, Counted
  <2>2. ASSUME NEW pc \in {"vote", "conclude"}, ask' = [ask EXCEPT !.pc = pc]
        PROVE  Goal
    BY <2>2, <1>5, <1>a DEF Weigh, AskOK, AskRecord, Asked, Counted
  <2>3. CASE ask' = [ask EXCEPT !.pc = "raised", !.usage = 0, !.outage = 1]
    <3>1. ask' \in AskRecord BY <2>3, <1>a DEF AskRecord
    <3>2. Asked(ask') BY <2>3, <1>5, <1>a DEF Weigh, AskRecord, Asked
    <3>3. ask.paid = 1 BY <1>5, <1>a DEF Weigh, Counted
    <3>4. Counted(ask') BY <2>3, <3>3, <1>a DEF AskRecord, Counted
    <3> QED BY <3>1, <3>2, <3>4, <2>3, <1>5, <1>a DEF Weigh, AskOK, AskRecord
  <2> QED BY <2>1, <2>2, <2>3, <1>5 DEF Weigh
<1>6. CASE Escalate
  <2>1. PICK c : c = Called(ask, "cloud") OBVIOUS
  <2>2. AskOK(c) /\ c.pc = "escalate" /\ c.tier = ask.tier /\ ask.pc # "quiet"
    BY <2>1, <1>6, <1>a, CalledOK DEF Escalate, Asked
  <2>c. c \in AskRecord /\ Asked(c) /\ Counted(c) /\ c.allowed
    BY <2>1, <2>2, <1>6, <1>a, CalledOK DEF Escalate, AskOK, Asked
  <2>3. CASE ask' = [c EXCEPT !.pc = "conclude"]
    <3>1. ask' \in AskRecord BY <2>3, <2>c DEF AskRecord
    <3>2. Asked(ask') BY <2>3, <2>c DEF AskRecord, Asked
    <3>3. Counted(ask') BY <2>2, <2>3, <2>c DEF AskRecord, Counted
    <3>4. ask'.tier = c.tier BY <2>3, <2>c DEF AskRecord
    <3> QED BY <3>1, <3>2, <3>3, <3>4, <2>2 DEF AskOK
  <2>4. CASE ask' = [Replied(c) EXCEPT !.pc = "conclude", !.usage = @ + 1]
    <3>1. ask' = [c EXCEPT !.paid = @ + 1, !.pc = "conclude", !.usage = @ + 1]
      BY <2>4, <2>c DEF Replied, AskRecord
    <3>n. PICK n \in Nat, m \in Nat : n = c.paid + 1 /\ m = c.usage + 1
      BY <2>c DEF AskRecord
    <3>2. ask' \in AskRecord BY <3>1, <3>n, <2>c DEF AskRecord
    <3>3. Asked(ask') BY <3>1, <2>c DEF AskRecord, Asked
    <3>4. Counted(ask') BY <3>1, <2>2, <2>c DEF AskRecord, Counted
    <3>5. ask'.tier = c.tier BY <3>1, <2>c DEF AskRecord
    <3> QED BY <3>2, <3>3, <3>4, <3>5, <2>2 DEF AskOK
  <2>5. ASSUME NEW a \in AnyAnswer,
               ask' = [Replied(c) EXCEPT !.pc = "escalated",
                         !.usage = @ + 1, !.backend = "cloud", !.answer = a]
        PROVE  Goal
    <3>1. ask' = [c EXCEPT !.paid = @ + 1, !.pc = "escalated",
                           !.usage = @ + 1, !.backend = "cloud", !.answer = a]
      BY <2>5, <2>c DEF Replied, AskRecord
    <3>n. PICK n \in Nat, m \in Nat : n = c.paid + 1 /\ m = c.usage + 1
      BY <2>c DEF AskRecord
    <3>2. ask' \in AskRecord BY <3>1, <3>n, <2>c DEF AskRecord
    <3>3. Asked(ask') BY <3>1, <2>c DEF AskRecord, Asked
    <3>4. Counted(ask') BY <3>1, <2>2, <2>c DEF AskRecord, Counted
    <3>5. ask'.tier = c.tier BY <3>1, <2>c DEF AskRecord
    <3> QED BY <3>2, <3>3, <3>4, <3>5, <2>2 DEF AskOK
  <2> QED BY <2>1, <2>3, <2>4, <2>5, <1>6, <1>c DEF Escalate
<1>7. CASE VoteOnEscalation
  <2>1. PICK pc \in {"vote", "conclude"} : ask' = [ask EXCEPT !.pc = pc]
    BY <1>7 DEF VoteOnEscalation
  <2> QED BY <2>1, <1>7, <1>a
          DEF VoteOnEscalation, AskOK, AskRecord, Asked, Counted
<1>8. CASE Sample
  <2>1. PICK c : c = Called(ask, ask.backend) OBVIOUS
  <2>2. AskOK(c) /\ c.pc = "vote" /\ c.tier = ask.tier /\ ask.pc # "quiet"
    BY <2>1, <1>8, <1>a, CalledOK DEF Sample, Asked
  <2>c. c \in AskRecord /\ Asked(c) /\ Counted(c) BY <2>2 DEF AskOK
  <2>3. ASSUME NEW v \in [ok : Nat, bad : Nat, failed : Nat],
               v.ok + v.bad = c.votes.ok + c.votes.bad + 1,
               ask' = [c EXCEPT !.paid = @ + 1, !.votes = v]
        PROVE  Goal
    <3>n. PICK n \in Nat : n = c.paid + 1 BY <2>c DEF AskRecord
    <3>1. ask' \in AskRecord BY <3>n, <2>3, <2>c DEF AskRecord
    <3>2. Asked(ask') BY <2>3, <2>c DEF AskRecord, Asked
    <3>3. ask'.pc = c.pc /\ ask'.paid = c.paid + 1 /\ ask'.usage = c.usage /\ ask'.votes = v
          /\ ask'.tier = c.tier
      BY <2>3, <2>c DEF AskRecord
    <3>4. Counted(ask') BY <3>3, <2>2, <2>3, <2>c DEF AskRecord, Counted
    <3> QED BY <3>1, <3>2, <3>3, <3>4, <2>2 DEF AskOK
  <2>4. CASE ask' = [Replied(c) EXCEPT !.votes.ok = @ + 1]
    <3>1. ask' = [c EXCEPT !.paid = @ + 1, !.votes = [c.votes EXCEPT !.ok = @ + 1]]
      BY <2>4, <2>c DEF Replied, AskRecord
    <3> DEFINE v == [c.votes EXCEPT !.ok = @ + 1]
    <3>2. v \in [ok : Nat, bad : Nat, failed : Nat] /\ v.ok + v.bad = c.votes.ok + c.votes.bad + 1
      BY <2>c DEF AskRecord
    <3> HIDE DEF v
    <3>3. ask' = [c EXCEPT !.paid = @ + 1, !.votes = v] BY <3>1 DEF v
    <3> QED BY <2>2, <2>3, <3>2, <3>3
  <2>5. CASE ask' = [Replied(c) EXCEPT !.votes.bad = @ + 1]
    <3>1. ask' = [c EXCEPT !.paid = @ + 1, !.votes = [c.votes EXCEPT !.bad = @ + 1]]
      BY <2>5, <2>c DEF Replied, AskRecord
    <3> DEFINE v == [c.votes EXCEPT !.bad = @ + 1]
    <3>2. v \in [ok : Nat, bad : Nat, failed : Nat] /\ v.ok + v.bad = c.votes.ok + c.votes.bad + 1
      BY <2>c DEF AskRecord
    <3> HIDE DEF v
    <3>3. ask' = [c EXCEPT !.paid = @ + 1, !.votes = v] BY <3>1 DEF v
    <3> QED BY <2>2, <2>3, <3>2, <3>3
  <2>6. CASE ask' = [c EXCEPT !.votes.failed = @ + 1]
    <3>1. ask' = [c EXCEPT !.votes = [c.votes EXCEPT !.failed = @ + 1]]
      BY <2>6
    <3> DEFINE v == [c.votes EXCEPT !.failed = @ + 1]
    <3>2. v \in [ok : Nat, bad : Nat, failed : Nat] /\ v.ok = c.votes.ok /\ v.bad = c.votes.bad
      BY <2>c DEF AskRecord
    <3>3. ask' = [c EXCEPT !.votes = v] BY <3>1
    <3> HIDE DEF v
    <3>4. ask' \in AskRecord BY <3>2, <3>3, <2>c DEF AskRecord
    <3>5. Asked(ask') BY <3>3, <2>c DEF AskRecord, Asked
    <3>6. Counted(ask') BY <3>2, <3>3, <2>2, <2>c DEF AskRecord, Counted
    <3>7. ask'.tier = c.tier BY <3>3, <2>c DEF AskRecord
    <3> QED BY <3>4, <3>5, <3>6, <3>7, <2>2 DEF AskOK
  <2> QED BY <2>1, <2>4, <2>5, <2>6, <1>8 DEF Sample
<1>9. CASE CountVotes
  <2> DEFINE counted == [ask EXCEPT !.pc = "conclude",
                           !.usage = @ + ask.votes.ok + ask.votes.bad]
  <2>1. PICK a \in AnyAnswer : ask' = [counted EXCEPT !.answer = a]
    <3>1. \A c \in Damped(ask.answer.sure) :
             [counted EXCEPT !.answer.sure = c]
               = [counted EXCEPT !.answer = [ask.answer EXCEPT !.sure = c]]
      BY <1>a DEF AskRecord, AnyAnswer
    <3>2. \A c \in Damped(ask.answer.sure) : [ask.answer EXCEPT !.sure = c] \in AnyAnswer
      BY <1>a DEF AskRecord, AnyAnswer, Confidences, Damped
    <3> HIDE DEF counted
    <3> QED BY <3>1, <3>2, <1>9, <1>c DEF CountVotes, counted
  <2>2. ask' = [ask EXCEPT !.pc = "conclude", !.usage = @ + ask.votes.ok + ask.votes.bad,
                           !.answer = a]
    BY <2>1, <1>a DEF AskRecord
  <2> QED BY <2>2, <1>9, <1>a
          DEF CountVotes, AskOK, AskRecord, Asked, Counted
<1>10. CASE Conclude
  <2>1. CASE ask' = [ask EXCEPT !.pc = "unparsed"]
    BY <2>1, <1>10, <1>a DEF Conclude, AskOK, AskRecord, Asked, Counted
  <2>2. ASSUME NEW c \in Confidences,
               ask' = [ask EXCEPT !.pc = "answered", !.answer.sure = c]
        PROVE  Goal
    <3>1. [ask.answer EXCEPT !.sure = c] \in AnyAnswer
      BY <1>a DEF AskRecord, AnyAnswer
    <3>2. ask' = [ask EXCEPT !.pc = "answered", !.answer = [ask.answer EXCEPT !.sure = c]]
      BY <2>2, <1>a DEF AskRecord, AnyAnswer
    <3> QED BY <3>1, <3>2, <1>10, <1>a
            DEF Conclude, AskOK, AskRecord, Asked, Counted
  <2>3. Damped(ask.answer.sure) \cup {ask.answer.sure} \subseteq Confidences
    BY <1>a DEF AskRecord, AnyAnswer, Confidences, Damped
  <2> QED BY <2>1, <2>2, <2>3, <1>10 DEF Conclude
<1> QED BY <1>1, <1>2, <1>3, <1>4, <1>5, <1>6, <1>7, <1>8, <1>9, <1>10 DEF ClassifyStep
-----------------------------------------------------------------------------
(* A step of the solve                                                       *)

(* The classification of a solve that asks nothing, whatever answer it left. *)
LEMMA QuietOK ==
    /\ AskOK(Quiet) /\ Quiet.pc = "quiet" /\ Quiet.tier = 1
    /\ \A a \in AnyAnswer : LET q == [Quiet EXCEPT !.answer = a]
                            IN AskOK(q) /\ q.pc = "quiet" /\ q.tier = 1
<1>1. NoAnswer \in AnyAnswer BY DEF NoAnswer, AnyAnswer, Confidences
<1>2. ASSUME NEW a \in AnyAnswer, NEW q,
             q = [pc |-> "quiet", tier |-> 1, shape |-> "none", backend |-> "local",
                  answer |-> a, votes |-> NoVotes, usage |-> 0, paid |-> 0,
                  allowed |-> FALSE, cloud |-> FALSE, outage |-> 0]
      PROVE  AskOK(q) /\ q.pc = "quiet" /\ q.tier = 1
  <2>2. q \in AskRecord BY <1>2 DEF AskRecord, AskPC, SomeShape, NoVotes
  <2>3. Asked(q) BY <1>2 DEF Asked
  <2>4. Counted(q) BY <1>2 DEF Counted
  <2> QED BY <1>2, <2>2, <2>3, <2>4 DEF AskOK
<1>3. AskOK(Quiet) /\ Quiet.pc = "quiet" /\ Quiet.tier = 1 BY <1>1, <1>2 DEF Quiet
<1>4. ASSUME NEW a \in AnyAnswer, NEW q, q = [Quiet EXCEPT !.answer = a]
      PROVE  AskOK(q) /\ q.pc = "quiet" /\ q.tier = 1
  BY <1>2, <1>4 DEF Quiet
<1> QED BY <1>3, <1>4

(* A classification starts without a word of the budget and with nothing     *)
(* counted.                                                                  *)
LEMMA StartOK ==
    ASSUME NEW tier \in {1, 2}, NEW shape \in SomeShape, StartAsking(tier, shape)
    PROVE  AskOK(ask') /\ ask'.tier = tier
<1>1. PICK b \in {"local", "cloud"} :
        ask' = [pc |-> "guard", tier |-> tier, shape |-> shape, backend |-> b,
                answer |-> NoAnswer, votes |-> NoVotes, usage |-> 0, paid |-> 0,
                allowed |-> FALSE, cloud |-> FALSE, outage |-> 0]
  BY DEF StartAsking, Quiet
<1>2. NoAnswer \in AnyAnswer BY DEF NoAnswer, AnyAnswer, Confidences
<1>3. ask' \in AskRecord BY <1>1, <1>2 DEF AskRecord, AskPC, NoVotes
<1>4. Asked(ask') BY <1>1 DEF Asked
<1>5. Counted(ask') BY <1>1 DEF Counted
<1> QED BY <1>1, <1>3, <1>4, <1>5 DEF AskOK

\* A step of the solve within an attempt: the meter, the shape and the tier stay.
Moves(s, t) ==
    /\ t \in SolveRecord
    /\ t.adapter = s.adapter /\ t.paid = s.paid /\ t.outages = s.outages
    /\ t.vision \in {s.vision, s.adapter}
    /\ t.shape = s.shape /\ t.dispatched = s.dispatched
    /\ t.attempt = s.attempt /\ t.waited = s.waited /\ t.tier = s.tier
    /\ t.stage = s.stage \/ t.stage # "challenge"
    /\ s.pc \notin {"begin", "unsolved"}
    /\ t.pc \in BeforeChallenge \ {"begin"} => s.pc \in BeforeChallenge
    /\ t.pc = "challenge" => s.pc = "challenge"

(* A move within an attempt keeps its meter and its tiers.                   *)
LEMMA MovesOK ==
    ASSUME NEW s, SolveOK(s), NEW t, Moves(s, t)
    PROVE  SolveOK(t)
<1>1. s \in SolveRecord /\ Metering(s) /\ Tiers(s) BY DEF SolveOK
<1>2. t \in SolveRecord BY DEF Moves
<1>3. Metering(t) BY <1>1, <1>2 DEF Metering, Moves, SolveRecord
<1>4. Tiers(t) BY <1>1, <1>2 DEF Tiers, Moves, SolveRecord
<1> QED BY <1>2, <1>3, <1>4 DEF SolveOK

\* What a step within an attempt and outside of a classification leaves to show.
LEMMA MovesKeep ==
    ASSUME IInv, Moves(solve, solve'), ~ At("classify"), UNCHANGED ask,
           WidgetTypeOK', RecordOK'
    PROVE  IInv'
<1>1. SolveOK(solve') BY MovesOK DEF IInv
<1> QED BY <1>1 DEF IInv, OwnAsk, At

-----------------------------------------------------------------------------
(* The actions                                                               *)

(* The widget and the page change nothing the solver accounts for.           *)
LEMMA WidgetSteps == IInv /\ Environment => IInv'
<1> SUFFICES ASSUME IInv, Environment PROVE IInv' OBVIOUS
<1>1. WidgetTypeOK' BY DEF IInv, WidgetTypeOK, Environment, Renders, Passes, Errs, Shows, SomeShape
<1> QED BY <1>1 DEF IInv, Environment, RecordOK, OwnAsk, At

(* The steps of the solver on the page, before and between the rounds.       *)
LEMMA PageSteps ==
    IInv /\ (OpenPage \/ TriggerExecute \/ PollReads \/ PollElapses \/ PageBreaks
             \/ ClickCheckbox \/ AwaitChallengeReady \/ Reload \/ NextRound
             \/ ClickTiles \/ ActOnce) => IInv'
<1> SUFFICES ASSUME IInv,
                    OpenPage \/ TriggerExecute \/ PollReads \/ PollElapses \/ PageBreaks
                    \/ ClickCheckbox \/ AwaitChallengeReady \/ Reload \/ NextRound
                    \/ ClickTiles \/ ActOnce
             PROVE  IInv'
  OBVIOUS
<1> USE DEF At, Become, SolvePC, BeforeChallenge, Stages, Results, Polls
<1>a. solve \in SolveRecord BY DEF IInv, SolveOK
<1>w. WidgetTypeOK BY DEF IInv
<1>1. CASE OpenPage
  <2>1. Moves(solve, solve') BY <1>1, <1>a, ZenonT(30) DEF OpenPage, Moves, SolveRecord
  <2> QED BY <2>1, <1>1, MovesKeep DEF OpenPage, IInv, WidgetTypeOK, RecordOK
<1>2. CASE TriggerExecute
  <2>1. Moves(solve, solve') BY <1>2, <1>a DEF TriggerExecute, Goto, Moves, SolveRecord
  <2>2. PICK x \in BOOLEAN : widget' = [widget EXCEPT !.executed = x]
    BY <1>2, <1>w DEF TriggerExecute, WidgetTypeOK
  <2>3. WidgetTypeOK' BY <2>2, <1>w DEF WidgetTypeOK
  <2> QED BY <2>1, <2>3, <1>2, MovesKeep DEF TriggerExecute, IInv, RecordOK
<1>3. CASE PollReads
  <2>1. ASSUME Return("verify") PROVE Moves(solve, solve')
    <3>1. PICK v \in {solve.vision, solve.adapter} :
            solve' = [solve EXCEPT !.pc = "verify", !.result = "token", !.vision = v]
      BY <2>1 DEF Return
    <3> QED BY <3>1, <1>3, <1>a DEF PollReads, Moves, SolveRecord
  <2>2. ASSUME Raise(widget.error), widget.error # "none" PROVE Moves(solve, solve')
    <3>1. PICK e \in {"fatal", "transient"} :
            solve' = [solve EXCEPT !.pc = "record", !.result = e]
      BY <2>2, <1>w DEF Raise, WidgetTypeOK
    <3> QED BY <3>1, <1>3, <1>a DEF PollReads, Moves, SolveRecord
  <2>3. ASSUME solve' = [solve EXCEPT !.looked = TRUE] PROVE Moves(solve, solve')
    BY <2>3, <1>3, <1>a DEF PollReads, Moves, SolveRecord
  <2>4. Moves(solve, solve') BY <2>1, <2>2, <2>3, <1>3 DEF PollReads
  <2> QED BY <2>4, <1>3, MovesKeep DEF PollReads, IInv, WidgetTypeOK, RecordOK
<1>4. CASE PollElapses
  <2>1. CASE At("poll_last")
    <3>1. PICK v \in {solve.vision, solve.adapter} :
            solve' = [solve EXCEPT !.pc = "record", !.result = "failed", !.vision = v]
      BY <2>1, <1>4 DEF PollElapses, Return
    <3>2. Moves(solve, solve') BY <3>1, <1>4, <1>a DEF PollElapses, Moves, SolveRecord
    <3> QED BY <3>2, <1>4, MovesKeep DEF PollElapses, IInv, WidgetTypeOK, RecordOK
  <2>2. CASE ~ At("poll_last")
    <3>1. AfterPoll \in {"challenge", "click", "look", "next_round", "poll_last", "record"}
      BY <2>2, <1>4 DEF AfterPoll, PollElapses
    <3>2. AfterPoll \in {"challenge", "click"} => solve.pc \in BeforeChallenge
      BY <2>2, <1>4 DEF AfterPoll, PollElapses
    <3> HIDE DEF AfterPoll
    <3>3. PICK pc \in {"challenge", "click", "look", "next_round", "poll_last", "record"},
               n \in Nat :
            /\ solve' = [solve EXCEPT !.pc = pc, !.looked = FALSE, !.waited = n]
            /\ pc \in {"challenge", "click"} => solve.pc \in BeforeChallenge
            /\ n = IF pc = "challenge" /\ solve.waited = 0 THEN solve.attempt
                   ELSE solve.waited
      BY <2>2, <3>1, <3>2, <1>4, <1>a DEF PollElapses, Waited, SolveRecord
    <3>4. CASE pc # "challenge"
      <4>1. solve' = [solve EXCEPT !.pc = pc, !.looked = FALSE]
        BY <3>3, <3>4, <1>a DEF SolveRecord
      <4>2. Moves(solve, solve')
        BY <3>3, <3>4, <4>1, <1>4, <1>a DEF PollElapses, Moves, SolveRecord
      <4> QED BY <4>2, <1>4, MovesKeep DEF PollElapses, IInv, WidgetTypeOK, RecordOK
    <3>5. CASE pc = "challenge"
      <4>1. solve' = [solve EXCEPT !.pc = "challenge", !.looked = FALSE, !.waited = n]
            /\ solve.pc \in BeforeChallenge \ {"begin"}
        BY <3>3, <3>5, <1>4 DEF PollElapses
      <4>2. Metering(solve) /\ Tiers(solve) BY DEF IInv, SolveOK
      <4>3. n > 0 /\ n <= solve.attempt /\ (solve.waited > 0 => n = solve.waited)
        BY <3>3, <3>5, <4>1, <4>2, <1>a DEF Tiers, SolveRecord
      <4>4. solve' \in SolveRecord BY <4>1, <1>a DEF SolveRecord
      <4>5. Metering(solve') BY <4>1, <4>2, <1>a DEF Metering, SolveRecord
      <4>6. Tiers(solve') BY <4>1, <4>2, <4>3, <1>a DEF Tiers, SolveRecord
      <4> QED BY <4>4, <4>5, <4>6, <4>1, <1>4
              DEF PollElapses, IInv, SolveOK, WidgetTypeOK, RecordOK, OwnAsk
    <3> QED BY <3>4, <3>5
  <2> QED BY <2>1, <2>2
<1>5. CASE PageBreaks
  <2>1. Moves(solve, solve') BY <1>5, <1>a DEF PageBreaks, Raise, Moves, SolveRecord
  <2> QED BY <2>1, <1>5, MovesKeep DEF PageBreaks, IInv, WidgetTypeOK, RecordOK
<1>6. CASE ClickCheckbox
  <2>1. Moves(solve, solve') BY <1>6, <1>a DEF ClickCheckbox, Moves, SolveRecord
  <2> QED BY <2>1, <1>6, MovesKeep DEF ClickCheckbox, IInv, WidgetTypeOK, RecordOK
<1>7. CASE AwaitChallengeReady
  <2>1. ASSUME solve' = [solve EXCEPT !.pc = "verify", !.result = "token",
                            !.vision = solve.adapter]
        PROVE  Moves(solve, solve')
    BY <2>1, <1>7, <1>a DEF AwaitChallengeReady, Moves, SolveRecord
  <2>2. ASSUME Raise(widget.error), widget.error # "none" PROVE Moves(solve, solve')
    <3>1. PICK e \in {"fatal", "transient"} :
            solve' = [solve EXCEPT !.pc = "record", !.result = e]
      BY <2>2, <1>w DEF Raise, WidgetTypeOK
    <3> QED BY <3>1, <1>7, <1>a DEF AwaitChallengeReady, Moves, SolveRecord
  <2>3. ASSUME Goto("detect") PROVE Moves(solve, solve')
    BY <2>3, <1>7, <1>a DEF AwaitChallengeReady, Goto, Moves, SolveRecord
  <2>4. Moves(solve, solve') BY <2>1, <2>2, <2>3, <1>7 DEF AwaitChallengeReady
  <2> QED BY <2>4, <1>7, MovesKeep DEF AwaitChallengeReady, IInv, WidgetTypeOK, RecordOK
<1>8. CASE Reload
  <2>1. Moves(solve, solve') BY <1>8, <1>a DEF Reload, Goto, Moves, SolveRecord
  <2> QED BY <2>1, <1>8, MovesKeep DEF Reload, IInv, WidgetTypeOK, RecordOK
<1>9. CASE NextRound
  <2>1. PICK n \in Nat : n = solve.round + 1 BY <1>a DEF SolveRecord
  <2>2. Moves(solve, solve') BY <2>1, <1>9, <1>a DEF NextRound, Moves, SolveRecord
  <2> QED BY <2>2, <1>9, MovesKeep DEF NextRound, IInv, WidgetTypeOK, RecordOK
<1>10. CASE ClickTiles
  <2>1. Moves(solve, solve') BY <1>10, <1>a DEF ClickTiles, Goto, Moves, SolveRecord
  <2> QED BY <2>1, <1>10, MovesKeep DEF ClickTiles, IInv, WidgetTypeOK, RecordOK
<1>11. CASE ActOnce
  <2>1. Moves(solve, solve') BY <1>11, <1>a DEF ActOnce, Goto, Moves, SolveRecord
  <2> QED BY <2>1, <1>11, MovesKeep DEF ActOnce, IInv, WidgetTypeOK, RecordOK
<1> QED BY <1>1, <1>2, <1>3, <1>4, <1>5, <1>6, <1>7, <1>8, <1>9, <1>10, <1>11

(* A new attempt starts its parameters over; the tier stays, and the mark of *)
(* the first passive wait in vain with it.                                   *)
LEMMA BeginAttemptKeeps == IInv /\ BeginAttempt => IInv'
<1> SUFFICES ASSUME IInv, BeginAttempt PROVE IInv' OBVIOUS
<1>a. solve \in SolveRecord /\ Tiers(solve) BY DEF IInv, SolveOK
<1>1. PICK n \in Nat : n = solve.attempt + 1 BY <1>a DEF SolveRecord
<1>2. solve' = [pc |-> "page", invisible |-> solve.invisible, attempt |-> n,
                tier |-> solve.tier, stage |-> "acquire", shape |-> "none",
                adapter |-> 0, vision |-> 0, looked |-> FALSE, round |-> 0,
                result |-> "none", waited |-> solve.waited,
                dispatched |-> "none", paid |-> 0, outages |-> 0]
  BY <1>1 DEF BeginAttempt, Become, FreshParams, NewSolve
<1>3. solve' \in SolveRecord
  BY <1>2, <1>a DEF SolveRecord, SolvePC, BeforeChallenge, Stages, Results, SomeShape
<1>4. Metering(solve') BY <1>2 DEF Metering
<1>5. Tiers(solve') BY <1>1, <1>2, <1>a DEF Tiers, SolveRecord, BeginAttempt, At
<1>6. WidgetTypeOK' BY DEF BeginAttempt, NewWidget, WidgetTypeOK, SomeShape
<1>7. RecordOK' BY DEF BeginAttempt, NoRecord, RecordOK
<1>8. ask' = Quiet BY DEF BeginAttempt
<1> QED BY <1>3, <1>4, <1>5, <1>6, <1>7, <1>8, QuietOK DEF IInv, SolveOK, OwnAsk

(* The steps of a challenge round, its classification included.              *)
LEMMA ChallengeSteps ==
    IInv /\ (EnterChallenge \/ Detect \/ Look \/ Classify \/ Answered) => IInv'
<1> SUFFICES ASSUME IInv, EnterChallenge \/ Detect \/ Look \/ Classify \/ Answered
             PROVE  IInv'
  OBVIOUS
<1> USE DEF At, Become
<1>a. solve \in SolveRecord /\ Metering(solve) /\ Tiers(solve) BY DEF IInv, SolveOK
<1>w. WidgetTypeOK BY DEF IInv
<1>1. CASE EnterChallenge
  <2>2. PICK pc \in {"record", "ready"}, e \in Results, m \in Nat :
          /\ pc = "ready" => m = 0
          /\ pc = "record" => m = solve.adapter
          /\ solve' = [solve EXCEPT !.stage = "challenge", !.pc = pc, !.result = e,
                         !.adapter = m]
    <3>1. CASE widget.error # "none"
      <4>1. solve' = [solve EXCEPT !.stage = "challenge", !.pc = "record",
                         !.result = widget.error, !.adapter = solve.adapter]
        <5>1. solve' = [solve EXCEPT !.stage = "challenge", !.pc = "record",
                          !.result = widget.error]
          BY <3>1, <1>1 DEF EnterChallenge
        <5> QED BY <5>1, <1>a DEF SolveRecord
      <4>2. widget.error \in Results BY <1>w DEF WidgetTypeOK, Results
      <4> QED BY <4>1, <4>2, <1>a DEF SolveRecord
    <3>2. CASE widget.error = "none"
      <4>1. solve' = [solve EXCEPT !.stage = "challenge", !.pc = "ready",
                         !.result = solve.result, !.adapter = 0]
        <5>1. solve' = [solve EXCEPT !.stage = "challenge", !.pc = "ready", !.adapter = 0]
          BY <3>2, <1>1 DEF EnterChallenge
        <5> QED BY <5>1, <1>a DEF SolveRecord
      <4> QED BY <4>1, <1>a DEF SolveRecord
    <3> QED BY <3>1, <3>2
  <2>3. solve' \in SolveRecord
    BY <2>2, <1>a DEF SolveRecord, SolvePC, BeforeChallenge, Stages
  <2>4. Metering(solve')
    BY <2>2, <1>1, <1>a DEF EnterChallenge, SolveRecord, Metering, BeforeChallenge
  <2>5. Tiers(solve') BY <2>2, <1>1, <1>a DEF EnterChallenge, SolveRecord, Tiers
  <2> QED BY <2>3, <2>4, <2>5, <1>1
          DEF EnterChallenge, IInv, SolveOK, WidgetTypeOK, RecordOK, OwnAsk
<1>2. CASE Detect
  <2>1. PICK s \in Shapes :
          solve' = [solve EXCEPT !.pc = "poll_round", !.looked = FALSE, !.round = 1,
                      !.shape = s, !.dispatched = s]
    BY <1>2, <1>w DEF Detect, WidgetTypeOK, SomeShape, Shapes, IndexShapes
  <2>2. solve' \in SolveRecord
    BY <2>1, <1>a DEF SolveRecord, SolvePC, SomeShape
  <2>3. Metering(solve')
    BY <2>1, <1>2, <1>a DEF Detect, SolveRecord, Metering, BeforeChallenge
  <2>4. Tiers(solve') BY <2>1, <1>2, <1>a DEF Detect, SolveRecord, Tiers
  <2> QED BY <2>2, <2>3, <2>4, <1>2
          DEF Detect, IInv, SolveOK, WidgetTypeOK, RecordOK, OwnAsk
<1>3. CASE Look
  <2>1. PICK pc \in {"poll_last", "record", "classify"} :
          /\ \/ solve' = [solve EXCEPT !.pc = pc, !.looked = FALSE]
             \/ solve' = [solve EXCEPT !.pc = pc, !.result = "transient"]
          /\ \/ pc # "classify" /\ UNCHANGED ask
             \/ pc = "classify" /\ StartAsking(solve.tier, solve.shape)
    BY <1>3 DEF Look, Goto, Raise
  <2>2. Moves(solve, solve')
    BY <2>1, <1>3, <1>a, ZenonT(30) DEF Look, Moves, SolveRecord, SolvePC, BeforeChallenge, Results
  <2>3. SolveOK(solve') BY <2>2, MovesOK DEF IInv
  <2>4. solve'.pc = pc /\ solve'.tier = solve.tier BY <2>1, <1>a DEF SolveRecord
  <2>5. WidgetTypeOK' /\ RecordOK' BY <1>3 DEF Look, IInv, WidgetTypeOK, RecordOK
  <2>6. CASE UNCHANGED ask
    BY <2>3, <2>5, <2>6, <1>3 DEF IInv, Look, OwnAsk
  <2>7. CASE pc = "classify" /\ StartAsking(solve.tier, solve.shape)
    <3>1. AskOK(ask') /\ ask'.tier = solve.tier
      BY <2>7, <1>a, StartOK DEF SolveRecord
    <3> QED BY <3>1, <2>3, <2>4, <2>5, <2>7 DEF IInv, OwnAsk
  <2> QED BY <2>1, <2>6, <2>7
<1>4. CASE Classify
  <2>1. AskOK(ask') /\ ask'.tier = ask.tier BY <1>4, ClassifyKeeps DEF Classify, IInv
  <2> QED BY <2>1, <1>4 DEF Classify, IInv, SolveOK, WidgetTypeOK, RecordOK, OwnAsk
<1>5. CASE Answered
  <2> USE DEF Asking
  <2>1. PICK n \in Nat, m \in Nat, o \in Nat, pc \in {"record", "act"}, e \in Results :
          /\ n = solve.adapter + ask.usage /\ m = solve.paid + ask.paid
          /\ o = solve.outages + ask.outage
          /\ solve' = [solve EXCEPT !.adapter = n, !.paid = m, !.outages = o, !.pc = pc,
                         !.result = e]
    <3>1. PICK n \in Nat, m \in Nat, o \in Nat :
             /\ n = solve.adapter + ask.usage /\ m = solve.paid + ask.paid
             /\ o = solve.outages + ask.outage
      BY <1>a DEF IInv, AskOK, AskRecord, SolveRecord
    <3>2. CASE solve' = [Metered EXCEPT !.pc = "record", !.result = "transient"]
      BY <3>1, <3>2 DEF Metered, Results
    <3>3. CASE solve' = [Metered EXCEPT !.pc = "act"]
      <4>1. solve' = [solve EXCEPT !.adapter = n, !.paid = m, !.outages = o, !.pc = "act",
                        !.result = solve.result]
        BY <3>1, <3>3, <1>a DEF Metered, SolveRecord
      <4> QED BY <3>1, <4>1, <1>a DEF SolveRecord
    <3> QED BY <3>2, <3>3, <1>5 DEF Answered
  <2>2. ask.usage + ask.outage = ask.paid
    <3>1. ask.pc \in {"unparsed", "answered", "raised"} BY <1>5 DEF Answered
    <3>2. AskOK(ask) BY DEF IInv
    <3> QED BY <3>1, <3>2 DEF AskOK, AskRecord, Counted
  <2>3. solve' \in SolveRecord BY <2>1, <1>a DEF SolveRecord, SolvePC
  <2>4. Metering(solve')
    <3>1. ask.paid \in Nat /\ ask.usage \in Nat /\ ask.outage \in Nat
      BY DEF IInv, AskOK, AskRecord
    <3>2. /\ solve'.adapter = solve.adapter + ask.usage /\ solve'.paid = solve.paid + ask.paid
          /\ solve'.outages = solve.outages + ask.outage
          /\ solve'.vision = solve.vision /\ solve'.shape = solve.shape
          /\ solve'.dispatched = solve.dispatched /\ solve'.pc \in {"record", "act"}
      BY <2>1, <1>a DEF SolveRecord
    <3>3. solve.vision \in Nat /\ solve.paid \in Nat /\ solve.adapter \in Nat
          /\ solve.outages \in Nat
      BY <1>a DEF SolveRecord
    <3> QED BY <3>1, <3>2, <3>3, <2>2, <1>a DEF Metering, BeforeChallenge
  <2>5. Tiers(solve') BY <2>1, <1>5, <1>a DEF Answered, SolveRecord, Tiers
  <2>6. AskOK(ask') /\ ask'.pc = "quiet" /\ ask'.tier = 1
    <3>1. ask.answer \in AnyAnswer BY DEF IInv, AskOK, AskRecord
    <3> QED BY <3>1, <1>5, QuietOK DEF Answered
  <2> QED BY <2>3, <2>4, <2>5, <2>6, <1>5
          DEF Answered, IInv, SolveOK, WidgetTypeOK, RecordOK, OwnAsk
<1> QED BY <1>1, <1>2, <1>3, <1>4, <1>5

(* The end of an attempt: what is recorded is at most what was paid for, and *)
(* only a failure past the passive wait raises the tier.                     *)
LEMMA EndSteps == IInv /\ (RecordToken \/ RecordError \/ Cancel) => IInv'
<1> SUFFICES ASSUME IInv, RecordToken \/ RecordError \/ Cancel PROVE IInv' OBVIOUS
<1> USE DEF At, Become
<1>a. solve \in SolveRecord /\ Metering(solve) /\ Tiers(solve) BY DEF IInv, SolveOK
<1>r. ASSUME NEW outcome, Recorded(outcome) PROVE RecordOK'
  BY <1>r, <1>a DEF Recorded, RecordOK, Metering
<1>1. CASE RecordToken
  <2>1. PICK pc \in {"solved", "begin", "unsolved"} : solve' = [solve EXCEPT !.pc = pc]
    BY <1>1 DEF RecordToken, Retry
  <2>2. Moves(solve, solve')
    BY <2>1, <1>1, <1>a DEF RecordToken, Moves, SolveRecord, SolvePC, BeforeChallenge
  <2> QED BY <2>2, <1>1, <1>r, MovesKeep DEF RecordToken, IInv, WidgetTypeOK
<1>2. CASE RecordError
  <2>1. CASE solve.result = "fatal"
    <3>1. Moves(solve, solve')
      BY <2>1, <1>2, <1>a DEF RecordError, Moves, SolveRecord, SolvePC, BeforeChallenge
    <3> QED BY <3>1, <1>2, <1>r, MovesKeep DEF RecordError, IInv, WidgetTypeOK
  <2>2. CASE solve.result # "fatal"
    <3>1. PICK pc \in {"begin", "unsolved"}, tier \in {1, 2} :
            /\ solve' = [solve EXCEPT !.tier = tier, !.pc = pc]
            /\ tier = solve.tier \/ solve.stage = "challenge"
      <4>1. TierAfter(solve.stage) \in {1, 2} BY <1>a DEF TierAfter, SolveRecord
      <4>2. TierAfter(solve.stage) = solve.tier \/ solve.stage = "challenge"
        BY DEF TierAfter
      <4> HIDE DEF TierAfter
      <4> QED BY <4>1, <4>2, <2>2, <1>2 DEF RecordError, Retry
    <3>2. solve' \in SolveRecord BY <3>1, <1>a DEF SolveRecord, SolvePC, BeforeChallenge
    <3>3. Metering(solve')
      BY <3>1, <1>a DEF Metering, SolveRecord, BeforeChallenge
    <3>4. Tiers(solve') BY <3>1, <1>2, <1>a DEF RecordError, Tiers, SolveRecord
    <3>5. RecordOK' BY <1>2, <1>r DEF RecordError
    <3> QED BY <3>2, <3>3, <3>4, <3>5, <1>2
            DEF RecordError, IInv, SolveOK, WidgetTypeOK, OwnAsk
  <2> QED BY <2>1, <2>2
<1>3. CASE Cancel
  <2>1. Moves(solve, solve')
    BY <1>3, <1>a DEF Cancel, Ended, Moves, SolveRecord, SolvePC, BeforeChallenge
  <2>2. SolveOK(solve') BY <2>1, MovesOK DEF IInv
  <2> QED BY <2>2, <1>3, QuietOK DEF Cancel, IInv, WidgetTypeOK, RecordOK, OwnAsk
<1> QED BY <1>1, <1>2, <1>3

-----------------------------------------------------------------------------
(* The theorems                                                              *)

(* A solve starts with nothing metered and nothing asked.                    *)
LEMMA InitOK == Init => IInv
<1> SUFFICES ASSUME Init PROVE IInv OBVIOUS
<1>1. PICK invisible \in BOOLEAN :
        solve = [pc |-> "begin", invisible |-> invisible, attempt |-> 0,
                 tier |-> ProfileTier, stage |-> "acquire", shape |-> "none",
                 adapter |-> 0, vision |-> 0, looked |-> FALSE, round |-> 0,
                 result |-> "none", waited |-> 0, dispatched |-> "none", paid |-> 0,
                 outages |-> 0]
  BY DEF Init, NewSolve
<1>2. solve \in SolveRecord
  BY <1>1, ChallengeAssumption
     DEF SolveRecord, SolvePC, BeforeChallenge, Stages, Results, SomeShape
<1>3. Metering(solve) BY <1>1 DEF Metering
<1>4. Tiers(solve) BY <1>1 DEF Tiers
<1>5. WidgetTypeOK BY DEF Init, NewWidget, WidgetTypeOK, SomeShape
<1>6. RecordOK BY DEF Init, NoRecord, RecordOK
<1> QED BY <1>2, <1>3, <1>4, <1>5, <1>6, QuietOK DEF Init, IInv, SolveOK, OwnAsk

(* Every step keeps the invariant.                                           *)
LEMMA StepOK == IInv /\ [Next]_vars => IInv'
<1> SUFFICES ASSUME IInv, [Next]_vars PROVE IInv' OBVIOUS
<1>1. CASE UNCHANGED vars
  BY <1>1 DEF vars, IInv, WidgetTypeOK, RecordOK, OwnAsk, At
<1> QED BY <1>1, WidgetSteps, PageSteps, BeginAttemptKeeps, ChallengeSteps, EndSteps
        DEF Next, Solver

(* The types of the classification, of the solve and of its widget, the meter *)
(* of the attempt and the ordering of tiers hold in every state.             *)
THEOREM ChallengeInvariant == Spec => []IInv
BY InitOK, StepOK, PTL DEF Spec

(* DeniedStaysLocal for any number of samples, attempts and rounds: guard,   *)
(* fallback, escalation and vote call the cloud only with a word of the      *)
(* budget (VisionRouter.classify).                                           *)
THEOREM CloudCallsWereAllowed == Spec => []DeniedStaysLocal
<1>1. IInv => DeniedStaysLocal BY DEF IInv, AskOK, Asked, DeniedStaysLocal
<1> QED BY <1>1, ChallengeInvariant, PTL

(* OnlyOutagesGoUnmetered: outside of a running classification the adapter's *)
(* total is the number of replies of the attempt, less one for each budget   *)
(* lookup of an escalation that raised (VisionAdapter._meter).               *)
THEOREM RepliesAreMeteredButForOutages == Spec => []OnlyOutagesGoUnmetered
<1>1. IInv => OnlyOutagesGoUnmetered
  BY DEF IInv, SolveOK, Metering, OnlyOutagesGoUnmetered
<1> QED BY <1>1, ChallengeInvariant, PTL

(* RecordIsOfItsAttempt: a record reports neither spend nor shape of another *)
(* attempt, and an attempt that dispatched none by the default               *)
(* (_solve_with_retries, _record).                                           *)
THEOREM RecordsKeepToTheirAttempt == Spec => []RecordIsOfItsAttempt
<1>1. IInv => RecordIsOfItsAttempt BY DEF IInv, RecordOK, RecordIsOfItsAttempt
<1> QED BY <1>1, ChallengeInvariant, PTL

(* EarlyFailuresStayTierOne: a solve that starts at tier 1 asks at tier 2    *)
(* only after an earlier attempt waited for the passive verdict in vain      *)
(* (on_error, _escalate_tier).                                               *)
THEOREM TierTwoFollowsAPassiveWait == Spec => []EarlyFailuresStayTierOne
<1>1. IInv => EarlyFailuresStayTierOne
  BY DEF IInv, SolveOK, Tiers, OwnAsk, At, EarlyFailuresStayTierOne
<1> QED BY <1>1, ChallengeInvariant, PTL
=============================================================================
