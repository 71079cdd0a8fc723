----------------------------- MODULE InboundMail ----------------------------
(* Replies to an outreach message: Graph's notifications reach a webhook,     *)
(* polls of the mailbox look for what the webhook missed, and the sequence's  *)
(* workflow interprets the replies it is signalled.  They share the claims on *)
(* mails, one lead with its conversations, and the suppression list.  Each    *)
(* handler runs once, and every await that matters to another one is a step.  *)
EXTENDS Conversation

CONSTANTS
  Handlers,   \* runs of the webhook or of the interpretReply activity
  Polls,      \* runs of pollMailbox
  Messages,   \* mails that answer our message, in the order of their arrival
  Contents,   \* what they may say
  Senders,    \* whom they may be from: the message's recipient, someone else, or not given
  Headers,    \* which headers of a mail may name the message it answers
  Faults      \* the disturbances that may happen, a subset of AllFaults

\* crash  a process dies with what it was doing
\* fetch  Graph no longer has the mail, the call fails, or the mail is unusable; a poll throws
AllFaults == {"crash", "fetch"}

ASSUME MailAssumption == Messages \subseteq Nat \ {0} /\ Contents \subseteq Kinds
ASSUME SendersAssumption == Senders \subseteq {"recipient", "other", "none"}
ASSUME HeadersAssumption == Headers \subseteq {"references", "inReplyTo", "both", "none"}
ASSUME InboundFaultsAssumption == Faults \subseteq AllFaults

VARIABLES
  says, names, \* what each mail says, and its headers that name our message
  sender,      \* whom each mail is from
  arrived,     \* the mails up to this one are in the mailbox
  recorded,    \* whether the accepted message has its provider id in the database
  admin,       \* where the subscription's administration is
  registered,  \* whether the subscription has its row
  key,         \* the webhook's claims, by mail
  pollKey,     \* the polls' claims, by mail
  rows,        \* conversation.conversations: by the handler that created it
  lead,        \* the lead's row
  suppressed,  \* the addresses in outreach.suppression
  optOuts,     \* history: the mails of the webhook that left their conversation opted out
  signalled,   \* mails the workflow was told of and has not interpreted
  at, via, mail, conv, held, heldLead,    \* of each handler
  pollAt, todo, latest, handed,           \* of each poll
  checkpoint,  \* how far the mailbox was polled, in the poller's memory; 0: not known
  unlisted     \* history: the mails a poll asked for and was not given, or did not ask for

mailVars    == <<says, names, sender, arrived, recorded, admin, registered>>
claimVars   == <<key, pollKey>>
storeVars   == <<rows, lead, suppressed, optOuts, signalled>>
handlerVars == <<at, via, mail, conv, held, heldLead>>
pollVars    == <<pollAt, todo, latest, handed, checkpoint, unlisted>>
vars        == <<mailVars, claimVars, storeVars, handlerVars, pollVars>>

NoRow     == [NewConversation EXCEPT !.version = 0]
NewestOf(S) == CHOOSE m \in S : \A n \in S : n <= m

Init ==
  /\ says \in [Messages -> Contents]
  /\ names \in [Messages -> Headers]
  /\ sender \in [Messages -> Senders]
  /\ arrived = 0 /\ recorded = FALSE /\ admin = "none" /\ registered = FALSE
  /\ key = [m \in Messages |-> "FREE"]
  /\ pollKey = [m \in Messages |-> "FREE"]
  /\ rows = [h \in Handlers |-> NoRow]
  /\ lead = [status |-> "QUALIFIED", version |-> 1, base |-> 1]
  /\ suppressed = {} /\ optOuts = {}
  /\ signalled = {}
  /\ at = [h \in Handlers |-> "idle"]
  /\ via = [h \in Handlers |-> "webhook"]
  /\ mail = [h \in Handlers |-> 0]
  /\ conv = [h \in Handlers |-> h]
  /\ held = [h \in Handlers |-> NoRow]
  /\ heldLead = [h \in Handlers |-> [status |-> "QUALIFIED", version |-> 1, base |-> 1]]
  /\ pollAt = [p \in Polls |-> "idle"]
  /\ todo = [p \in Polls |-> {}]
  /\ latest = [p \in Polls |-> 0]
  /\ handed = [p \in Polls |-> {}]
  /\ checkpoint = 0 /\ unlisted = {}

-----------------------------------------------------------------------------
(* The world: someone answers,     the send path records what it sent, an     *)
(* administrator creates and deletes the subscription                         *)

MailArrives ==
  /\ arrived + 1 \in Messages
  /\ arrived' = arrived + 1
  /\ UNCHANGED <<says, names, sender, recorded, admin, registered, claimVars, storeVars, handlerVars, pollVars>>

\* A prospect may answer before the send path has saved the accepted message.
SendIsRecorded ==
  /\ ~ recorded
  /\ recorded' = TRUE
  /\ UNCHANGED <<says, names, sender, arrived, admin, registered, claimVars, storeVars, handlerVars, pollVars>>

\* create and delete of the administration: Graph first, the row second.  A mail may be
\* notified as soon as Graph has the subscription.
CreateSubscription ==
  /\ admin = "none" /\ admin' = "created"
  /\ UNCHANGED <<says, names, sender, arrived, recorded, registered, claimVars, storeVars,
                 handlerVars, pollVars>>

SaveSubscription ==
  /\ admin = "created" /\ admin' = "bound" /\ registered' = TRUE
  /\ UNCHANGED <<says, names, sender, arrived, recorded, claimVars, storeVars, handlerVars, pollVars>>

\* A subscription Graph no longer has is as good as deleted.
DeleteSubscription ==
  /\ admin = "bound" /\ admin' = "deleted"
  /\ UNCHANGED <<says, names, sender, arrived, recorded, registered, claimVars, storeVars,
                 handlerVars, pollVars>>

DeleteRow ==
  /\ admin = "deleted" /\ admin' = "gone" /\ registered' = FALSE
  /\ UNCHANGED <<says, names, sender, arrived, recorded, claimVars, storeVars, handlerVars, pollVars>>

AdministrationCrashes ==
  /\ "crash" \in Faults /\ admin \in {"created", "deleted"} /\ admin' = "gone"
  /\ UNCHANGED <<says, names, sender, arrived, recorded, registered, claimVars, storeVars,
                 handlerVars, pollVars>>

AdministerSubscription ==
  CreateSubscription \/ SaveSubscription \/ DeleteSubscription \/ DeleteRow
    \/ AdministrationCrashes

-----------------------------------------------------------------------------
(* Ingress *)

Move(h, p) == at' = [at EXCEPT ![h] = p]

\* Graph may notify of a mail more than once, and of one that came before the
\* subscription's row was saved or is delivered after it was deleted.
Notified(m) == m <= arrived /\ admin # "none"

\* The subscription's row, for the tenant the mailbox belongs to; its client state.
Authentic == registered

Receive(h, m) ==
  /\ at[h] = "idle" /\ Notified(m)
  /\ mail' = [mail EXCEPT ![h] = m]
  /\ Move(h, IF Authentic THEN "claim" ELSE "refused")
  /\ UNCHANGED <<mailVars, claimVars, storeVars, via, conv, held, heldLead, pollVars>>

\* Variant: a PENDING claim is taken over.
Claimable_Pending(k) == k \in {"FREE", "PENDING"}
Claimable(k) == k = "FREE"

ClaimMail(h) ==
  /\ at[h] = "claim"
  /\ IF Claimable(key[mail[h]])
     THEN key' = [key EXCEPT ![mail[h]] = "PENDING"] /\ Move(h, "fetch")
     ELSE Move(h, "refused") /\ UNCHANGED key
  /\ UNCHANGED <<mailVars, pollKey, storeVars, via, mail, conv, held, heldLead, pollVars>>

\* How often the mail's headers find the message; each header looks for itself.
Matches(m) ==
  CASE ~ recorded                                            -> 0
    [] recorded /\ names[m] = "both"                         -> 2
    [] recorded /\ names[m] \in {"references", "inReplyTo"}  -> 1
    [] recorded /\ names[m] = "none"                         -> 0

\* The sender's fingerprint finds a recorded message whose recipient is protected.
FallbackMayFind(m) == recorded /\ sender[m] = "recipient"

\* What the correlation of a webhook's mail may answer, and of a poll's.
InWorkspace(m) ==
  CASE Matches(m) = 1 -> {TRUE}
    [] Matches(m) = 0 -> {FALSE} \cup (IF FallbackMayFind(m) THEN {TRUE} ELSE {})
    [] Matches(m) > 1 -> {FALSE}
Unbound(m) == {Matches(m) = 1}

\* Graph does not answer or no longer has the mail; the mail has no usable form.
FetchFails == "fetch" \in Faults
Unusable   == "fetch" \in Faults

FetchAndCorrelate(h) ==
  /\ at[h] = "fetch"
  /\ \/ \E found \in InWorkspace(mail[h]) : Move(h, IF found THEN "find" ELSE "done")
     \/ (FetchFails \/ Unusable) /\ Move(h, "done")
  /\ UNCHANGED <<mailVars, claimVars, storeVars, via, mail, conv, held, heldLead, pollVars>>

-----------------------------------------------------------------------------
(* The conversation *)

\* interpretReply of a signalled mail: one attempt.
Interpret(h, m) ==
  /\ at[h] = "idle" /\ m \in signalled
  /\ signalled' = signalled \ {m}
  /\ mail' = [mail EXCEPT ![h] = m]
  /\ via' = [via EXCEPT ![h] = "workflow"]
  /\ Move(h, "find")
  /\ UNCHANGED <<mailVars, claimVars, rows, lead, suppressed, optOuts, conv, held, heldLead, pollVars>>

Exists(i) == rows[i].version > 0
Loaded(i) == [rows[i] EXCEPT !.base = rows[i].version]

\* findByLeadAndChannel: any row of the lead, LIMIT 1 without an order.
HandleReply(h) ==
  /\ at[h] = "find"
  /\ \E i \in {j \in Handlers : Exists(j)} \cup {h} :
       /\ ~ Exists(i) => \A j \in Handlers : ~ Exists(j)
       /\ conv' = [conv EXCEPT ![h] = i]
       /\ held' = [held EXCEPT ![h] =
                     RecordReply(IF Exists(i) THEN Loaded(i) ELSE NewConversation, says[mail[h]])]
  /\ Move(h, "saveReply")
  /\ UNCHANGED <<mailVars, claimVars, storeVars, via, mail, heldLead, pollVars>>

\* Ids are new, so an insert never conflicts; an update compares versions, and a
\* copy without an event writes the version it found.
Fresh(h)    == held[h].base = 0 \/ held[h].base = rows[conv[h]].version
SaveConversation(h) == rows' = [rows EXCEPT ![conv[h]] = [held[h] EXCEPT !.base = 0]]

\* Only the sender of a webhook's mail is suppressed, if Graph gave one: the event of the
\* workflow has none, and the recipient of the message that was answered is not looked up.
\* Variant: an opt-out is answered without a suppression.
AfterReply_Quiet(h) == IF held[h].optedOut THEN "done" ELSE "decide"
AfterReply(h) ==
  CASE ~ held[h].optedOut -> "decide"
    [] held[h].optedOut /\ via[h] = "webhook" /\ sender[mail[h]] # "none" -> "suppress"
    [] held[h].optedOut /\ (via[h] = "workflow" \/ sender[mail[h]] = "none") -> "done"

SaveReply(h) ==
  /\ at[h] = "saveReply"
  /\ IF Fresh(h)
     THEN /\ SaveConversation(h) /\ Move(h, AfterReply(h))
          /\ optOuts' = IF held[h].optedOut /\ via[h] = "webhook" THEN optOuts \cup {mail[h]} ELSE optOuts
     ELSE Move(h, "done") /\ UNCHANGED <<rows, optOuts>>
  /\ UNCHANGED <<mailVars, claimVars, lead, suppressed, signalled, via, mail, conv, held,
                 heldLead, pollVars>>

\* An upsert: who is suppressed stays so.
SuppressSender(h) == suppressed' = suppressed \cup {sender[mail[h]]}

Suppress(h) ==
  /\ at[h] = "suppress"
  /\ SuppressSender(h)
  /\ Move(h, "done")
  /\ UNCHANGED <<mailVars, claimVars, rows, lead, optOuts, signalled, via, mail, conv, held,
                 heldLead, pollVars>>

AfterDecision(h) == IF via[h] = "webhook" THEN "signal" ELSE "done"

\* load and classifyAndAct up to its first write.
ClassifyAndAct(h) ==
  /\ at[h] = "decide"
  /\ LET c == Loaded(conv[h])
         d == IF NeedsIntent(c) THEN ClassifyIntent(c) ELSE c
     IN IF Terminal(c)
        THEN Move(h, AfterDecision(h)) /\ UNCHANGED held
        ELSE \E autonomous \in (IF via[h] = "webhook" THEN {TRUE} ELSE BOOLEAN) :
               LET action == Decide(d.intent, autonomous)
               IN IF (NeedsIntent(c) /\ ~ CanClassify(c)) \/ ~ CanDecide(d, action)
                  THEN Move(h, "done") /\ UNCHANGED held
                  ELSE /\ held' = [held EXCEPT ![h] =
                            IF action = "DISQUALIFY" THEN Close(DecideAction(d, action))
                            ELSE DecideAction(d, action)]
                       /\ Move(h, IF OutcomeFor(action, d) = "none" THEN "saveDecision"
                                  ELSE "loadLead")
  /\ UNCHANGED <<mailVars, claimVars, storeVars, via, mail, conv, heldLead, pollVars>>

OutcomeOf(h) == IF held[h].status = "DISQUALIFIED" THEN "NOT_QUALIFIED" ELSE "QUALIFIED"

UpdateLead(h) ==
  /\ at[h] = "loadLead"
  /\ LET copy == [lead EXCEPT !.base = lead.version]
     IN IF CanRecordOutcome(copy, OutcomeOf(h))
        THEN /\ heldLead' = [heldLead EXCEPT ![h] = RecordOutcome(copy, OutcomeOf(h))]
             /\ Move(h, "saveLead")
        ELSE Move(h, "saveDecision") /\ UNCHANGED heldLead
  /\ UNCHANGED <<mailVars, claimVars, storeVars, via, mail, conv, held, pollVars>>

\* Variant: the update does not compare versions.
FreshLead_Always(h) == TRUE
FreshLead(h) == heldLead[h].base = lead.version

SaveLead(h) ==
  /\ at[h] = "saveLead"
  /\ IF FreshLead(h)
     THEN lead' = heldLead[h] /\ Move(h, "saveDecision")
     ELSE Move(h, "done") /\ UNCHANGED lead
  /\ UNCHANGED <<mailVars, claimVars, rows, suppressed, optOuts, signalled, via, mail, conv, held,
                 heldLead, pollVars>>

SaveDecision(h) ==
  /\ at[h] = "saveDecision"
  /\ IF Fresh(h)
     THEN SaveConversation(h) /\ Move(h, AfterDecision(h))
     ELSE Move(h, "done") /\ UNCHANGED rows
  /\ UNCHANGED <<mailVars, claimVars, lead, suppressed, optOuts, signalled, via, mail, conv, held,
                 heldLead, pollVars>>

\* A workflow that is not there, or cannot be reached, is only reported.
SignalReply(h) ==
  /\ at[h] = "signal"
  /\ \/ signalled' = signalled \cup {mail[h]}
     \/ UNCHANGED signalled
  /\ Move(h, "done")
  /\ UNCHANGED <<mailVars, claimVars, rows, lead, suppressed, optOuts, via, mail, conv, held,
                 heldLead, pollVars>>

HandlerCrashes(h) ==
  /\ "crash" \in Faults
  /\ at[h] \notin {"idle", "refused", "done", "lost"}
  /\ Move(h, IF at[h] = "claim" THEN "refused" ELSE IF at[h] = "suppress" THEN "lost" ELSE "done")
  /\ UNCHANGED <<mailVars, claimVars, storeVars, via, mail, conv, held, heldLead, pollVars>>

-----------------------------------------------------------------------------
(* pollMailbox.  What it returns has no caller in the repository: handed is   *)
(* the list it returns.                                                       *)

\* Without a checkpoint the poll looks back an hour, whatever came in it.
Sinces == IF checkpoint > 0 THEN {checkpoint} ELSE 1..(arrived + 1)

\* Graph answers with one page of the inbox, in no order, and the inbox has other mails too:
\* the link to the next page is not followed, so any of ours may be missing from it.
ListMails(p) ==
  /\ pollAt[p] = "idle"
  /\ \E since \in Sinces :
       LET asked == {m \in Messages : since <= m /\ m <= arrived}
       IN \E page \in SUBSET asked :
            /\ todo' = [todo EXCEPT ![p] = page]
            /\ latest' = [latest EXCEPT ![p] = since]
            /\ unlisted' = unlisted \cup (asked \ page) \cup {m \in Messages : checkpoint = 0 /\ m < since}
  /\ pollAt' = [pollAt EXCEPT ![p] = "each"]
  /\ UNCHANGED <<mailVars, claimVars, storeVars, handlerVars, handed, checkpoint>>

PollMail(p, m) ==
  /\ pollAt[p] = "each" /\ m \in todo[p]
  /\ todo' = [todo EXCEPT ![p] = @ \ {m}]
  /\ IF Claimable(pollKey[m])
     THEN /\ pollKey' = [pollKey EXCEPT ![m] = "PENDING"]
          /\ \/ /\ TRUE \in Unbound(m)
                /\ handed' = [handed EXCEPT ![p] = @ \cup {m}]
                /\ latest' = [latest EXCEPT ![p] = IF m > @ THEN m ELSE @]
             \/ /\ FALSE \in Unbound(m) \/ Unusable
                /\ UNCHANGED <<handed, latest>>
     ELSE UNCHANGED <<pollKey, handed, latest>>
  /\ UNCHANGED <<mailVars, key, storeVars, handlerVars, pollAt, checkpoint, unlisted>>

\* Variant: the checkpoint is the newest mail there is.
Reached_Newest(p) == arrived
Reached(p) == latest[p]

FinishPoll(p) ==
  /\ pollAt[p] = "each" /\ todo[p] = {}
  /\ checkpoint' = Reached(p)
  /\ pollAt' = [pollAt EXCEPT ![p] = "done"]
  /\ UNCHANGED <<mailVars, claimVars, storeVars, handlerVars, todo, latest, handed, unlisted>>

\* A call of Graph or of a store fails, and the poll with it: the checkpoint stays.
PollThrows(p) ==
  /\ "fetch" \in Faults /\ pollAt[p] = "each"
  /\ pollAt' = [pollAt EXCEPT ![p] = "done"]
  /\ handed' = [handed EXCEPT ![p] = {}]
  /\ UNCHANGED <<mailVars, claimVars, storeVars, handlerVars, todo, latest, checkpoint, unlisted>>

\* The checkpoints are a map in the poller's memory.
Lost(p) == pollAt[p] = "each"
PollerRestarts ==
  /\ "crash" \in Faults /\ (checkpoint > 0 \/ \E p \in Polls : Lost(p))
  /\ checkpoint' = 0
  /\ pollAt' = [p \in Polls |-> IF Lost(p) THEN "done" ELSE pollAt[p]]
  /\ handed' = [p \in Polls |-> IF Lost(p) THEN {} ELSE handed[p]]
  /\ UNCHANGED <<mailVars, claimVars, storeVars, handlerVars, todo, latest, unlisted>>

-----------------------------------------------------------------------------
Handle(h) ==
  \/ \E m \in Messages : Receive(h, m) \/ Interpret(h, m)
  \/ ClaimMail(h) \/ FetchAndCorrelate(h) \/ HandleReply(h) \/ SaveReply(h) \/ Suppress(h)
  \/ ClassifyAndAct(h) \/ UpdateLead(h) \/ SaveLead(h) \/ SaveDecision(h) \/ SignalReply(h)
  \/ HandlerCrashes(h)

Poll(p) ==
  \/ ListMails(p) \/ FinishPoll(p) \/ PollThrows(p)
  \/ \E m \in Messages : PollMail(p, m)

Next ==
  \/ MailArrives \/ SendIsRecorded \/ AdministerSubscription
  \/ \E h \in Handlers : Handle(h)
  \/ \E p \in Polls : Poll(p)
  \/ PollerRestarts

Spec == Init /\ [][Next]_vars
=============================================================================
