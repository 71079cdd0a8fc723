------------------------------ MODULE GraphMail ----------------------------
(* The only real email provider: what a call of sendMail answers, which answer *)
(* is certain, and which message id an accepted send gets from Sent Items.     *)
EXTENDS Naturals, Sequences

CONSTANTS
  Dispatches,  \* calls of send, all to one recipient with one subject
  Keys,        \* idempotency keys
  MailFaults   \* "disabled": the live switch; "token"; "refused", "busy": 4xx, 429 or 5xx;
               \* "network": no answer; "lookup"; "restart"

ASSUME DispatchAssumption == "none" \notin Dispatches

VARIABLES
  sentItems,  \* the messages Graph took, in order: those a lookup lists, those past its minute
  accepted,   \* GraphEmailProvider.accepted: the id kept for each accepted key
  dispatch    \* the calls

mailVars == <<sentItems, accepted, dispatch>>

NoEntry == [known |-> FALSE, id |-> "none"]

MailInit ==
  /\ sentItems = [order |-> <<>>, listed |-> {}, past |-> {}]
  /\ accepted = [k \in Keys |-> NoEntry]
  /\ \E keyOf \in [Dispatches -> Keys] :
       dispatch = [d \in Dispatches |-> [pc |-> "idle", key |-> keyOf[d], answer |-> "none", id |-> "none"]]

MailFault(fault) == fault \in MailFaults
MailAnswered(d, answer, id) ==
  dispatch' = [dispatch EXCEPT ![d].pc = "answered", ![d].answer = answer, ![d].id = id]

-----------------------------------------------------------------------------

\* An accepted key is answered from memory, before the live switch is looked at.
SendCalled(d) ==
  LET kept == accepted[dispatch[d].key]
  IN  /\ dispatch[d].pc = "idle"
      /\ \/ kept.known /\ MailAnswered(d, "PROVIDER_ACCEPTED", kept.id)
         \/ ~kept.known /\ MailFault("disabled") /\ MailAnswered(d, "FAILED", "none")
         \/ ~kept.known /\ dispatch' = [dispatch EXCEPT ![d].pc = "token"]
      /\ UNCHANGED <<sentItems, accepted>>

AcquireToken(d) ==
  /\ dispatch[d].pc = "token"
  /\ \/ dispatch' = [dispatch EXCEPT ![d].pc = "submit"]
     \/ MailFault("token") /\ MailAnswered(d, "FAILED", "none")
  /\ UNCHANGED <<sentItems, accepted>>

Statuses == {"2xx", "4xx", "429", "5xx", "3xx"}

\* What classifyGraphError makes of a status; anything unexpected is NON_RETRYABLE.
Classified(status) ==
  IF status = "429" THEN "RATE_LIMITED" ELSE IF status = "5xx" THEN "RETRYABLE" ELSE "NON_RETRYABLE"

\* The statuses after which the message may have been taken nevertheless.
Undecided == {"429", "5xx"}

\* Only a NON_RETRYABLE answer other than 429 is reported as a failure.
\* Variant: everything but a rate limit is.
Certain_AllErrors(status) == Classified(status) # "RATE_LIMITED"
Certain(status) == Classified(status) = "NON_RETRYABLE" /\ status # "429"

Takes(d) == sentItems' = [sentItems EXCEPT !.order = Append(@, d)]

\* POST sendMail and Graph's answer; without one, by a timeout or a broken connection, the
\* send is AMBIGUOUS.
SubmitMail(d) ==
  /\ dispatch[d].pc = "submit"
  /\ \/ Takes(d) /\ dispatch' = [dispatch EXCEPT ![d].pc = "lookup"]
     \/ \E status \in Statuses \ {"2xx"} :
          /\ IF status \in Undecided THEN MailFault("busy") ELSE MailFault("refused")
          /\ (status \in Undecided /\ Takes(d)) \/ UNCHANGED sentItems
          /\ MailAnswered(d, IF Certain(status) THEN "FAILED" ELSE "AMBIGUOUS", "none")
     \/ /\ MailFault("network")
        /\ Takes(d) \/ UNCHANGED sentItems
        /\ MailAnswered(d, "AMBIGUOUS", "none")
  /\ UNCHANGED accepted

\* The id of the newest message listed of that subject and recipient in the last minute,
\* whoever sent it; none if the lookup fails or lists none.
FoundIds ==
  LET order == sentItems.order
      seen  == {i \in 1..Len(order) : order[i] \in sentItems.listed}
  IN  {order[i] : i \in {i \in seen : \A j \in seen : j <= i}}
        \cup (IF seen = {} \/ MailFault("lookup") THEN {"none"} ELSE {})

LookUpSent(d) ==
  /\ dispatch[d].pc = "lookup"
  /\ \E id \in FoundIds :
       /\ accepted' = [accepted EXCEPT ![dispatch[d].key] = [known |-> TRUE, id |-> id]]
       /\ MailAnswered(d, "PROVIDER_ACCEPTED", id)
  /\ UNCHANGED sentItems

\* A message appears in Sent Items some time after it was taken, and leaves the lookup's
\* minute some time later.
Listing ==
  /\ \E i \in 1..Len(sentItems.order) :
       LET d == sentItems.order[i]
       IN  \/ /\ d \notin sentItems.listed \cup sentItems.past
              /\ sentItems' = [sentItems EXCEPT !.listed = @ \cup {d}]
           \/ /\ d \in sentItems.listed
              /\ sentItems' = [sentItems EXCEPT !.listed = @ \ {d}, !.past = @ \cup {d}]
  /\ UNCHANGED <<accepted, dispatch>>

\* The process restarts: the map is lost, and the calls under way never answer.
RestartProvider ==
  /\ MailFault("restart")
  /\ accepted' = [k \in Keys |-> NoEntry]
  /\ dispatch' = [d \in Dispatches |->
       IF dispatch[d].pc \in {"token", "submit", "lookup"} THEN [dispatch[d] EXCEPT !.pc = "lost"]
       ELSE dispatch[d]]
  /\ UNCHANGED sentItems

MailNext ==
  \/ \E d \in Dispatches : SendCalled(d) \/ AcquireToken(d) \/ SubmitMail(d) \/ LookUpSent(d)
  \/ Listing \/ RestartProvider

MailSpec == MailInit /\ [][MailNext]_mailVars

-----------------------------------------------------------------------------

TakenByGraph == {sentItems.order[i] : i \in 1..Len(sentItems.order)}

\* A send reported as FAILED, which the caller records as not sent and may send again, was
\* not taken by Graph; a send reported as accepted was taken, by this call or an earlier one
\* of its key (graph-email-provider.ts:171-200, 70-84).
ReportsAreCertain ==
  \A d \in Dispatches :
    /\ dispatch[d].answer = "FAILED" => d \notin TakenByGraph
    /\ dispatch[d].answer = "PROVIDER_ACCEPTED" =>
         \E e \in TakenByGraph : dispatch[e].key = dispatch[d].key
=============================================================================
