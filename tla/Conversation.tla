---------------------------- MODULE Conversation ----------------------------
(* The conversation aggregate, the classifier and policy that act on it, and  *)
(* the part of the lead a conversation changes.  Operations take a copy and   *)
(* give the copy they leave; an operation the status table refuses leaves     *)
(* what it had.  A copy knows the version it was loaded at (base): 0 for one  *)
(* that was never saved.                                                      *)
EXTENDS Naturals

\* What the words of a reply amount to for the code that looks for words.
Kinds == {"UNSUBSCRIBE", "STOP", "MEETING", "NEGATIVE", "POSITIVE", "QUESTION", "UNCLEAR"}

Transitions ==
  [PENDING             |-> {"AWAITING_REPLY", "CLASSIFIED", "OPTED_OUT", "FAILED"},
   AWAITING_REPLY      |-> {"CLASSIFIED", "OPTED_OUT", "FAILED"},
   CLASSIFIED          |-> {"CLASSIFIED", "FOLLOW_UP_SCHEDULED", "ESCALATED",
                            "DISQUALIFIED", "OPTED_OUT", "CLOSED"},
   FOLLOW_UP_SCHEDULED |-> {"AWAITING_REPLY", "ESCALATED", "CLOSED", "FAILED"},
   ESCALATED           |-> {"CLOSED", "FAILED"},
   DISQUALIFIED        |-> {},
   OPTED_OUT           |-> {},
   CLOSED              |-> {},
   FAILED              |-> {}]

Statuses == DOMAIN Transitions
Intents  == {"OPT_OUT", "MEETING_REQUEST", "NEGATIVE", "POSITIVE", "QUESTION", "UNCERTAIN"}

Conversations ==
  [status: Statuses, last: Kinds \cup {"none"}, intent: Intents \cup {"none"},
   optedOut: BOOLEAN, version: Nat, base: Nat]

\* Of its replies only the last one is read again.  It is created for its first reply: the
\* event of its creation is version 1.
NewConversation ==
  [status |-> "PENDING", last |-> "none", intent |-> "none", optedOut |-> FALSE,
   version |-> 1, base |-> 0]

CanMove(c, to) == to \in Transitions[c.status]
MovedTo(c, to) == [c EXCEPT !.status = to, !.version = @ + 1]
TryMove(c, to) == IF CanMove(c, to) THEN MovedTo(c, to) ELSE c

\* An unsubscribing reply sets the flag whether or not the status can follow it;
\* any other reply the status refuses is dropped.
RecordReply(c, k) ==
  CASE c.optedOut -> c
    [] ~ c.optedOut /\ k = "UNSUBSCRIBE" ->
         [TryMove(c, "OPTED_OUT") EXCEPT !.optedOut = TRUE, !.last = k]
    [] ~ c.optedOut /\ k # "UNSUBSCRIBE" /\ CanMove(c, "CLASSIFIED") ->
         [MovedTo(c, "CLASSIFIED") EXCEPT !.last = k]
    [] OTHER -> c

Classify ==
  [UNSUBSCRIBE |-> "OPT_OUT", STOP |-> "OPT_OUT", MEETING |-> "MEETING_REQUEST",
   NEGATIVE |-> "NEGATIVE", POSITIVE |-> "POSITIVE", QUESTION |-> "QUESTION",
   UNCLEAR |-> "UNCERTAIN"]

\* Only a conversation that has no intent yet is classified, by its last reply.
NeedsIntent(c) == c.intent = "none"
CanClassify(c) == c.status \notin {"OPTED_OUT", "DISQUALIFIED"} /\ CanMove(c, "CLASSIFIED")

ClassifyIntent(c) ==
  [MovedTo(c, "CLASSIFIED") EXCEPT
     !.intent = IF c.last = "none" THEN "UNCERTAIN" ELSE Classify[c.last]]

\* Low confidence (UNCERTAIN alone is that) and low autonomy escalate.
Decide(intent, autonomous) ==
  CASE intent = "OPT_OUT"                               -> "CLOSE"
    [] intent \in {"UNCERTAIN", "none"}                 -> "ESCALATE"
    [] intent \in Intents \ {"OPT_OUT", "UNCERTAIN"} /\ ~ autonomous -> "ESCALATE"
    [] intent = "MEETING_REQUEST" /\ autonomous         -> "SCHEDULE_MEETING_DEFERRED"
    [] intent \in {"POSITIVE", "QUESTION"} /\ autonomous -> "FOLLOW_UP"
    [] intent = "NEGATIVE" /\ autonomous                -> "DISQUALIFY"

StatusOf ==
  [FOLLOW_UP |-> "FOLLOW_UP_SCHEDULED", ESCALATE |-> "ESCALATED", DISQUALIFY |-> "DISQUALIFIED",
   CLOSE |-> "CLOSED", SCHEDULE_MEETING_DEFERRED |-> "FOLLOW_UP_SCHEDULED"]

CanDecide(c, action)    == ~ c.optedOut /\ CanMove(c, StatusOf[action])
DecideAction(c, action) == MovedTo(c, StatusOf[action])
Close(c)                == TryMove(c, "CLOSED")

\* classifyAndAct has nothing to do with these.
Terminal(c) == c.optedOut \/ c.status \in {"DISQUALIFIED", "CLOSED"}

\* What the action means for the lead: the outcome to record, or none.
OutcomeFor(action, c) ==
  CASE action = "DISQUALIFY" -> "NOT_QUALIFIED"
    [] action \in {"FOLLOW_UP", "SCHEDULE_MEETING_DEFERRED"}
         /\ c.intent \in {"POSITIVE", "MEETING_REQUEST"} -> "QUALIFIED"
    [] OTHER -> "none"

-----------------------------------------------------------------------------
(* The lead *)

LeadStatuses == {"PENDING", "EVALUATING", "QUALIFIED", "NOT_QUALIFIED", "NEEDS_REVIEW"}
Leads        == [status: LeadStatuses, version: Nat, base: Nat]

CanRecordOutcome(lead, outcome) == ~ (lead.status = "NOT_QUALIFIED" /\ outcome = "QUALIFIED")
RecordOutcome(lead, outcome)    == [lead EXCEPT !.status = outcome, !.version = @ + 1]
=============================================================================
