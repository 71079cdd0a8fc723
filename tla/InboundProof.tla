----------------------------- MODULE InboundProof ---------------------------
(* What holds of replies for any number of handlers, polls and mails: a mail  *)
(* is claimed once, the checkpoint leaves none behind that a poll was given, who  *)
(* opts out is suppressed and who declined stays declined.                    *)
EXTENDS InboundMailProperties, TLAPS

HandlerStages == {"idle", "claim", "refused", "fetch", "find", "saveReply", "suppress", "decide", "loadLead",
                  "saveLead", "saveDecision", "signal", "done", "lost"}
Routes        == {"webhook", "workflow"}

HandlersTyped ==
  /\ at \in [Handlers -> HandlerStages] /\ via \in [Handlers -> Routes]
  /\ mail \in [Handlers -> Messages \cup {0}] /\ conv \in [Handlers -> Handlers]
  /\ held \in [Handlers -> Conversations] /\ heldLead \in [Handlers -> Leads]
  /\ \A h \in Handlers : at[h] # "idle" => mail[h] \in Messages
  /\ \A h \in Handlers : at[h] = "idle" => via[h] = "webhook"

StoresTyped ==
  /\ says \in [Messages -> Kinds] /\ arrived \in Nat
  /\ key \in [Messages -> {"FREE", "PENDING"}] /\ pollKey \in [Messages -> {"FREE", "PENDING"}]
  /\ rows \in [Handlers -> Conversations] /\ lead \in Leads
  /\ signalled \subseteq Messages

PollsTyped ==
  /\ pollAt \in [Polls -> {"idle", "each", "done"}] /\ todo \in [Polls -> SUBSET Messages]
  /\ latest \in [Polls -> Nat] /\ checkpoint \in Nat

InboundTypeOK == HandlersTyped /\ StoresTyped /\ PollsTyped

\* A claim is never given back.
ClaimsAreHeld == \A h \in Handlers : Owns(h) => key[mail[h]] = "PENDING"

\* A poll that is under way claimed, will look at, or was not given every mail before the one
\* it reached and before those it still has to look at.
PollsCover ==
  \A p \in Polls : pollAt[p] = "each" =>
    \A m \in Messages : m < latest[p] \/ (\E n \in todo[p] : m < n) =>
      pollKey[m] = "PENDING" \/ m \in todo[p] \/ m \in unlisted

\* A lead's copy that is not stale is one step from its row, and does not qualify a lead
\* that declined.
LeadsAreHeld ==
  \A h \in Handlers : at[h] = "saveLead" =>
    /\ heldLead[h].base <= lead.version /\ heldLead[h].version = heldLead[h].base + 1
    /\ heldLead[h].base = lead.version /\ lead.status = "NOT_QUALIFIED" =>
         heldLead[h].status = "NOT_QUALIFIED"

OptOutSeen == optOuts # {}

\* The sender of a mail is on its way to the suppression list, or there, if it has one.
Settled(m) ==
  \/ sender[m] = "none" \/ sender[m] \in suppressed
  \/ \E h \in Handlers : mail[h] = m /\ at[h] \in {"suppress", "lost"}

\* A mail that unsubscribes opts its conversation out in the webhook, and never reaches the
\* workflow; a decision is never saved of a conversation that opted out.
UnsubscribesEnd(h) ==
  /\ at[h] # "idle" /\ says[mail[h]] = "UNSUBSCRIBE" =>
       /\ via[h] = "webhook"
       /\ at[h] \in {"claim", "refused", "fetch", "find", "saveReply", "suppress", "done", "lost"}
       /\ at[h] = "saveReply" => held[h].optedOut
  /\ at[h] = "saveReply" /\ held[h].optedOut /\ via[h] = "workflow" => OptOutSeen
  /\ at[h] \in {"loadLead", "saveLead", "saveDecision"} => ~held[h].optedOut

OptOutsAreSeen ==
  /\ \A m \in signalled : says[m] # "UNSUBSCRIBE"
  /\ \A h \in Handlers : UnsubscribesEnd(h)
  /\ \A i \in Handlers : rows[i].optedOut => OptOutSeen
  /\ \A m \in optOuts : Settled(m)

InboundInvariant ==
  /\ InboundTypeOK /\ ClaimsAreHeld /\ ClaimedOnce
  /\ CheckpointCoversClaims /\ PollsCover /\ LeadsAreHeld /\ OptOutsAreSeen

-----------------------------------------------------------------------------
(* Operations on copies                                                       *)

LEMMA StatusSorts ==
  /\ {"PENDING", "CLASSIFIED", "OPTED_OUT", "CLOSED"} \subseteq Statuses
  /\ \A status \in Statuses : Transitions[status] \subseteq Statuses
  BY DEF Statuses, Transitions

LEMMA ClassifySorts == \A k \in Kinds : Classify[k] \in Intents /\ "UNCERTAIN" \in Intents
  BY DEF Classify, Kinds, Intents

LEMMA MovedTyped ==
  ASSUME NEW c \in Conversations, NEW to \in Statuses
  PROVE  /\ MovedTo(c, to) \in Conversations /\ MovedTo(c, to).optedOut = c.optedOut
         /\ TryMove(c, to) \in Conversations /\ TryMove(c, to).optedOut = c.optedOut
  <1>1. PICK version \in Nat : version = c.version + 1  BY DEF Conversations
  <1>2. MovedTo(c, to) = [c EXCEPT !.status = to, !.version = version]  BY <1>1 DEF MovedTo
  <1>3. MovedTo(c, to) \in Conversations /\ MovedTo(c, to).optedOut = c.optedOut
    BY <1>2 DEF Conversations
  <1> QED  BY <1>3 DEF TryMove

LEMMA ReplyTyped ==
  ASSUME NEW c \in Conversations, NEW k \in Kinds
  PROVE  /\ RecordReply(c, k) \in Conversations
         /\ RecordReply(c, k).optedOut <=> c.optedOut \/ k = "UNSUBSCRIBE"
  <1> DEFINE out   == TryMove(c, "OPTED_OUT")
             heard == MovedTo(c, "CLASSIFIED")
  <1>1. out \in Conversations /\ heard \in Conversations /\ heard.optedOut = c.optedOut
    BY StatusSorts, MovedTyped
  <1> HIDE DEF out, heard
  <1>2. CASE c.optedOut
    <2>1. RecordReply(c, k) = c  BY <1>2 DEF RecordReply
    <2> QED  BY <1>2, <2>1
  <1>3. CASE ~c.optedOut /\ k = "UNSUBSCRIBE"
    <2>1. RecordReply(c, k) = [out EXCEPT !.optedOut = TRUE, !.last = k]
      BY <1>3 DEF RecordReply, out
    <2> QED  BY <1>1, <1>3, <2>1 DEF Conversations
  <1>4. CASE ~c.optedOut /\ k # "UNSUBSCRIBE"
    <2>1. RecordReply(c, k) = [heard EXCEPT !.last = k] \/ RecordReply(c, k) = c
      BY <1>4 DEF RecordReply, heard
    <2>2. [heard EXCEPT !.last = k] \in Conversations /\ [heard EXCEPT !.last = k].optedOut = c.optedOut
      BY <1>1 DEF Conversations
    <2> QED  BY <1>4, <2>1, <2>2
  <1> QED  BY <1>2, <1>3, <1>4

LEMMA ClassifyTyped ==
  ASSUME NEW c \in Conversations
  PROVE  ClassifyIntent(c) \in Conversations /\ ClassifyIntent(c).optedOut = c.optedOut
  <1>1. PICK d \in Conversations : d = MovedTo(c, "CLASSIFIED") /\ d.optedOut = c.optedOut
    BY StatusSorts, MovedTyped
  <1>2. PICK intent \in Intents : ClassifyIntent(c) = [d EXCEPT !.intent = intent]
    BY <1>1, ClassifySorts DEF ClassifyIntent, Conversations, Kinds, Intents
  <1> QED  BY <1>1, <1>2 DEF Conversations

LEMMA DecideTyped ==
  ASSUME NEW c \in Conversations, NEW action, CanDecide(c, action)
  PROVE  /\ DecideAction(c, action) \in Conversations /\ ~DecideAction(c, action).optedOut
         /\ Close(DecideAction(c, action)) \in Conversations /\ ~Close(DecideAction(c, action)).optedOut
  <1>1. StatusOf[action] \in Statuses /\ ~c.optedOut
    BY StatusSorts DEF CanDecide, CanMove, Conversations
  <1>2. DecideAction(c, action) \in Conversations /\ ~DecideAction(c, action).optedOut
    BY <1>1, MovedTyped DEF DecideAction
  <1> QED  BY <1>2, StatusSorts, MovedTyped DEF Close

LEMMA LoadedTyped ==
  ASSUME rows \in [Handlers -> Conversations], NEW i \in Handlers
  PROVE  Loaded(i) \in Conversations /\ Loaded(i).optedOut = rows[i].optedOut
  <1>1. rows[i] \in Conversations /\ rows[i].version \in Nat  BY DEF Conversations
  <1> QED  BY <1>1 DEF Loaded, Conversations

-----------------------------------------------------------------------------
(* Types                                                                      *)

LEMMA StageSorts ==
  /\ HandlerStages = {"idle", "claim", "refused", "fetch", "find", "saveReply", "suppress", "decide", "loadLead",
                      "saveLead", "saveDecision", "signal", "done", "lost"}
  /\ Routes = {"webhook", "workflow"}
  BY DEF HandlerStages, Routes

\* What a step may use of its handler.
LEMMA HandlerIs ==
  ASSUME InboundTypeOK, NEW h \in Handlers
  PROVE  /\ at \in [Handlers -> HandlerStages] /\ via \in [Handlers -> Routes]
         /\ mail \in [Handlers -> Messages \cup {0}] /\ conv \in [Handlers -> Handlers]
         /\ held \in [Handlers -> Conversations] /\ heldLead \in [Handlers -> Leads]
         /\ at[h] # "idle" => mail[h] \in Messages
         /\ at[h] = "idle" => via[h] = "webhook"
         /\ conv[h] \in Handlers /\ held[h] \in Conversations /\ heldLead[h] \in Leads
         /\ rows \in [Handlers -> Conversations] /\ lead \in Leads
  BY DEF InboundTypeOK, HandlersTyped, StoresTyped

\* A handler takes or leaves a mail and moves; what it holds stays.
LEMMA HandlerMoves ==
  ASSUME InboundTypeOK, NEW h \in Handlers, NEW stage \in HandlerStages \ {"idle"}, at[h] # "idle",
         Move(h, stage), UNCHANGED <<via, mail, conv, held, heldLead>>
  PROVE  HandlersTyped'
  BY HandlerIs DEF Move, HandlersTyped, InboundTypeOK

LEMMA ReplyHandled ==
  ASSUME InboundTypeOK, NEW h \in Handlers, HandleReply(h)
  PROVE  /\ HandlersTyped'
         /\ \A g \in Handlers \ {h} : held'[g] = held[g]
         /\ held'[h].optedOut =>
              says[mail[h]] = "UNSUBSCRIBE" \/ \E i \in Handlers : rows[i].optedOut
         /\ says[mail[h]] = "UNSUBSCRIBE" => held'[h].optedOut
  <1>1. PICK i \in Handlers :
          /\ conv' = [conv EXCEPT ![h] = i]
          /\ held' = [held EXCEPT ![h] =
                        RecordReply(IF Exists(i) THEN Loaded(i) ELSE NewConversation, says[mail[h]])]
    BY DEF HandleReply
  <1>2. at[h] = "find" /\ mail[h] \in Messages /\ says[mail[h]] \in Kinds
    BY HandlerIs DEF HandleReply, InboundTypeOK, StoresTyped
  <1>3. NewConversation \in Conversations /\ ~NewConversation.optedOut
    BY StatusSorts DEF NewConversation, Conversations
  <1>4. PICK c \in Conversations : /\ c = IF Exists(i) THEN Loaded(i) ELSE NewConversation
                                   /\ c.optedOut => rows[i].optedOut
    BY <1>3, HandlerIs, LoadedTyped
  <1>5. PICK d \in Conversations : /\ d = RecordReply(c, says[mail[h]])
                                   /\ d.optedOut <=> c.optedOut \/ says[mail[h]] = "UNSUBSCRIBE"
    BY <1>2, ReplyTyped
  <1>6. held' = [held EXCEPT ![h] = d]  BY <1>1, <1>4, <1>5
  <1>7. held' \in [Handlers -> Conversations] /\ held'[h] = d /\ conv' \in [Handlers -> Handlers]
        /\ \A g \in Handlers \ {h} : held'[g] = held[g]
    BY <1>1, <1>6, HandlerIs
  <1>8. /\ at' \in [Handlers -> HandlerStages] /\ at'[h] = "saveReply"
        /\ \A g \in Handlers \ {h} : at'[g] = at[g]
        /\ UNCHANGED <<via, mail, heldLead>>
    BY HandlerIs, StageSorts DEF HandleReply, Move
  <1>9. HandlersTyped'  BY <1>2, <1>7, <1>8, HandlerIs DEF HandlersTyped
  <1> QED  BY <1>4, <1>5, <1>7, <1>9

LEMMA DecisionTaken ==
  ASSUME InboundTypeOK, NEW h \in Handlers, ClassifyAndAct(h)
  PROVE  /\ HandlersTyped'
         /\ \A g \in Handlers \ {h} : held'[g] = held[g]
         /\ at[h] = "decide" /\ at'[h] \in {"signal", "done", "saveDecision", "loadLead"}
         /\ at'[h] \in {"saveDecision", "loadLead"} => ~held'[h].optedOut
  <1> DEFINE c == Loaded(conv[h])
             d == IF NeedsIntent(c) THEN ClassifyIntent(c) ELSE c
  <1>1. c \in Conversations  BY HandlerIs, LoadedTyped
  <1>2. d \in Conversations
    <2> HIDE DEF c
    <2> QED  BY <1>1, ClassifyTyped
  <1>3. CASE Move(h, AfterDecision(h)) /\ UNCHANGED held
    <2>1. AfterDecision(h) \in {"signal", "done"}  BY DEF AfterDecision
    <2>2. at' = [at EXCEPT ![h] = AfterDecision(h)] /\ at'[h] \in {"signal", "done"}
      BY <1>3, <2>1, HandlerIs DEF Move
    <2>3. UNCHANGED <<via, mail, conv, held, heldLead>> /\ at[h] = "decide"  BY <1>3 DEF ClassifyAndAct
    <2>4. HandlersTyped'  BY <1>3, <2>1, <2>3, HandlerMoves, StageSorts
    <2> QED  BY <2>2, <2>3, <2>4
  <1>4. CASE Move(h, "done") /\ UNCHANGED held
    <2>1. at'[h] = "done"  BY <1>4, HandlerIs DEF Move
    <2>2. UNCHANGED <<via, mail, conv, held, heldLead>> /\ at[h] = "decide"  BY <1>4 DEF ClassifyAndAct
    <2>3. HandlersTyped'  BY <1>4, <2>2, HandlerMoves, StageSorts
    <2> QED  BY <2>1, <2>2, <2>3
  <1>5. ASSUME NEW action, CanDecide(d, action),
               held' = [held EXCEPT ![h] = IF action = "DISQUALIFY" THEN Close(DecideAction(d, action))
                                           ELSE DecideAction(d, action)],
               Move(h, IF OutcomeFor(action, d) = "none" THEN "saveDecision" ELSE "loadLead")
        PROVE  /\ HandlersTyped'
               /\ \A g \in Handlers \ {h} : held'[g] = held[g]
               /\ at[h] = "decide" /\ at'[h] \in {"saveDecision", "loadLead"} /\ ~held'[h].optedOut
    <2> HIDE DEF c, d
    <2>1. PICK e \in Conversations : /\ held' = [held EXCEPT ![h] = e] /\ ~e.optedOut
      BY <1>2, <1>5, DecideTyped
    <2>2. PICK stage \in {"saveDecision", "loadLead"} : Move(h, stage)  BY <1>5
    <2>3. /\ held' \in [Handlers -> Conversations] /\ held'[h] = e
          /\ \A g \in Handlers \ {h} : held'[g] = held[g]
      BY <2>1, HandlerIs
    <2>4. /\ at' \in [Handlers -> HandlerStages] /\ at'[h] = stage
          /\ \A g \in Handlers \ {h} : at'[g] = at[g]
      BY <2>2, HandlerIs, StageSorts DEF Move
    <2>5. UNCHANGED <<via, mail, conv, heldLead>> /\ at[h] = "decide"  BY DEF ClassifyAndAct
    <2>6. HandlersTyped'  BY <2>3, <2>4, <2>5, HandlerIs DEF HandlersTyped
    <2> QED  BY <2>1, <2>3, <2>4, <2>5, <2>6
  <1> QED  BY <1>3, <1>4, <1>5 DEF ClassifyAndAct

LEMMA LeadUpdated ==
  ASSUME InboundTypeOK, NEW h \in Handlers, UpdateLead(h)
  PROVE  /\ HandlersTyped'
         /\ at[h] = "loadLead" /\ at'[h] \in {"saveLead", "saveDecision"}
         /\ \A g \in Handlers \ {h} : heldLead'[g] = heldLead[g]
         /\ at'[h] = "saveLead" =>
              /\ heldLead'[h].base = lead.version /\ heldLead'[h].version = lead.version + 1
              /\ lead.status = "NOT_QUALIFIED" => heldLead'[h].status = "NOT_QUALIFIED"
  <1>1. UNCHANGED <<via, mail, conv, held>> /\ at[h] = "loadLead"  BY DEF UpdateLead
  <1> DEFINE copy == [lead EXCEPT !.base = lead.version]
  <1>2. lead.version \in Nat /\ copy \in Leads /\ copy.base = lead.version /\ copy.version = lead.version
        /\ copy.status = lead.status
    BY HandlerIs DEF Leads
  <1>3. CASE CanRecordOutcome(copy, OutcomeOf(h))
    <2>1. PICK outcome \in {"NOT_QUALIFIED", "QUALIFIED"} : outcome = OutcomeOf(h)  BY DEF OutcomeOf
    <2>2. PICK version \in Nat : version = copy.version + 1  BY <1>2
    <2>3. heldLead' = [heldLead EXCEPT ![h] = RecordOutcome(copy, outcome)] /\ Move(h, "saveLead")
      BY <1>3, <2>1 DEF UpdateLead
    <2>4. PICK new \in Leads : /\ new = RecordOutcome(copy, outcome) /\ new.base = copy.base
                               /\ new.version = version /\ new.status = outcome
      <3> HIDE DEF copy
      <3>1. RecordOutcome(copy, outcome) = [copy EXCEPT !.status = outcome, !.version = version]
        BY <2>2 DEF RecordOutcome
      <3>2. [copy EXCEPT !.status = outcome, !.version = version] \in Leads  BY <1>2 DEF Leads, LeadStatuses
      <3> QED  BY <1>2, <3>1, <3>2 DEF Leads
    <2>5. lead.status = "NOT_QUALIFIED" => outcome = "NOT_QUALIFIED"
      BY <1>2, <1>3, <2>1 DEF CanRecordOutcome
    <2>6. /\ heldLead' = [heldLead EXCEPT ![h] = new] /\ heldLead' \in [Handlers -> Leads]
          /\ heldLead'[h] = new /\ \A g \in Handlers \ {h} : heldLead'[g] = heldLead[g]
      BY <2>3, <2>4, HandlerIs
    <2>7. /\ at' \in [Handlers -> HandlerStages] /\ at'[h] = "saveLead"
          /\ \A g \in Handlers \ {h} : at'[g] = at[g]
      BY <2>3, HandlerIs, StageSorts DEF Move
    <2>8. HandlersTyped'  BY <1>1, <2>6, <2>7, HandlerIs DEF HandlersTyped
    <2> QED  BY <1>1, <1>2, <2>2, <2>4, <2>5, <2>6, <2>7, <2>8
  <1>4. CASE ~CanRecordOutcome(copy, OutcomeOf(h))
    <2>1. Move(h, "saveDecision") /\ UNCHANGED heldLead  BY <1>4 DEF UpdateLead
    <2>2. HandlersTyped'  BY <1>1, <2>1, HandlerMoves, StageSorts
    <2>3. at'[h] = "saveDecision"  BY <2>1, HandlerIs DEF Move
    <2> QED  BY <1>1, <2>1, <2>2, <2>3
  <1> QED  BY <1>3, <1>4

\* A copy is saved, as one without a base.
LEMMA SavedTyped ==
  ASSUME InboundTypeOK, NEW h \in Handlers, SaveConversation(h)
  PROVE  /\ rows' \in [Handlers -> Conversations]
         /\ \A i \in Handlers : rows'[i].optedOut = rows[i].optedOut \/ rows'[i].optedOut = held[h].optedOut
  <1> DEFINE new == [held[h] EXCEPT !.base = 0]
  <1>1. new \in Conversations /\ new.optedOut = held[h].optedOut
    <2>1. held[h] \in Conversations  BY HandlerIs
    <2> QED  BY <2>1 DEF Conversations
  <1>2. rows' = [rows EXCEPT ![conv[h]] = new]  BY DEF SaveConversation
  <1> HIDE DEF new
  <1> QED  BY <1>1, <1>2, HandlerIs

\* What a handler's step leaves alone.
HandlerLeaves(h) ==
  /\ UNCHANGED <<mailVars, pollKey, pollVars>>
  /\ \A g \in Handlers \ {h} : /\ at'[g] = at[g] /\ via'[g] = via[g] /\ mail'[g] = mail[g]
                               /\ held'[g] = held[g] /\ heldLead'[g] = heldLead[g]
  /\ at[h] # "idle" => via'[h] = via[h] /\ mail'[h] = mail[h]
  /\ at'[h] # "idle"

LEMMA HandlerStepTyped ==
  ASSUME InboundTypeOK, NEW h \in Handlers, Handle(h)
  PROVE  HandlersTyped' /\ StoresTyped' /\ HandlerLeaves(h)
  <1> USE DEF HandlerLeaves
  <1>1. ASSUME NEW m \in Messages, Receive(h, m)  PROVE HandlersTyped' /\ StoresTyped' /\ HandlerLeaves(h)
    <2>1. UNCHANGED <<mailVars, claimVars, storeVars, via, conv, held, heldLead, pollVars>> /\ at[h] = "idle"
      BY <1>1 DEF Receive
    <2>2. PICK stage \in {"claim", "refused"} : at' = [at EXCEPT ![h] = stage]  BY <1>1 DEF Receive, Move
    <2>3. mail' = [mail EXCEPT ![h] = m]  BY <1>1 DEF Receive
    <2>4. /\ at' \in [Handlers -> HandlerStages] /\ at'[h] = stage
          /\ mail' \in [Handlers -> Messages \cup {0}] /\ mail'[h] = m
          /\ \A g \in Handlers \ {h} : at'[g] = at[g] /\ mail'[g] = mail[g]
      BY <2>2, <2>3, HandlerIs, StageSorts
    <2>5. HandlersTyped'  BY <2>1, <2>4, HandlerIs DEF HandlersTyped
    <2>6. StoresTyped'  BY <2>1 DEF InboundTypeOK, StoresTyped, mailVars, claimVars, storeVars
    <2> QED  BY <2>1, <2>4, <2>5, <2>6 DEF claimVars
  <1>2. ASSUME NEW m \in Messages, Interpret(h, m)  PROVE HandlersTyped' /\ StoresTyped' /\ HandlerLeaves(h)
    <2>1. /\ UNCHANGED <<mailVars, claimVars, rows, lead, suppressed, optOuts, conv, held, heldLead, pollVars>>
          /\ at[h] = "idle" /\ signalled' \subseteq signalled
          /\ at' = [at EXCEPT ![h] = "find"] /\ mail' = [mail EXCEPT ![h] = m]
          /\ via' = [via EXCEPT ![h] = "workflow"]
      BY <1>2 DEF Interpret, Move
    <2>2. /\ at' \in [Handlers -> HandlerStages] /\ at'[h] = "find"
          /\ mail' \in [Handlers -> Messages \cup {0}] /\ mail'[h] = m
          /\ via' \in [Handlers -> Routes]
          /\ \A g \in Handlers \ {h} : at'[g] = at[g] /\ mail'[g] = mail[g] /\ via'[g] = via[g]
      BY <2>1, HandlerIs, StageSorts
    <2>3. HandlersTyped'  BY <2>1, <2>2, HandlerIs DEF HandlersTyped
    <2>4. StoresTyped'  BY <2>1 DEF InboundTypeOK, StoresTyped, mailVars, claimVars
    <2> QED  BY <2>1, <2>2, <2>3, <2>4 DEF claimVars
  <1>3. ASSUME NEW stage \in HandlerStages \ {"idle"}, at[h] # "idle", Move(h, stage),
               UNCHANGED <<mailVars, pollKey, pollVars, via, mail, conv, held, heldLead>>
        PROVE  HandlersTyped' /\ HandlerLeaves(h)
    <2>1. HandlersTyped'  BY <1>3, HandlerMoves
    <2> QED  BY <1>3, <2>1, HandlerIs DEF Move
  <1>4. CASE ClaimMail(h)
    <2>1. /\ UNCHANGED <<mailVars, pollKey, storeVars, via, mail, conv, held, heldLead, pollVars>>
          /\ at[h] = "claim" /\ \E stage \in {"fetch", "refused"} : Move(h, stage)
          /\ key' = [key EXCEPT ![mail[h]] = "PENDING"] \/ key' = key
      BY <1>4 DEF ClaimMail
    <2>2. key' \in [Messages -> {"FREE", "PENDING"}]  BY <2>1 DEF InboundTypeOK, StoresTyped
    <2>3. StoresTyped'  BY <2>1, <2>2 DEF InboundTypeOK, StoresTyped, mailVars, storeVars
    <2> QED  BY <1>3, <2>1, <2>3, StageSorts
  <1>5. CASE FetchAndCorrelate(h) \/ HandlerCrashes(h)
    <2>1. /\ UNCHANGED <<mailVars, claimVars, storeVars, via, mail, conv, held, heldLead, pollVars>>
          /\ at[h] # "idle" /\ \E stage \in {"find", "done", "refused", "lost"} : Move(h, stage)
      BY <1>5 DEF FetchAndCorrelate, HandlerCrashes
    <2>2. StoresTyped'  BY <2>1 DEF InboundTypeOK, StoresTyped, mailVars, claimVars, storeVars
    <2> QED  BY <1>3, <2>1, <2>2, StageSorts DEF claimVars
  <1>6. CASE HandleReply(h)
    <2>1. UNCHANGED <<mailVars, claimVars, storeVars, via, mail, heldLead, pollVars>> /\ at[h] = "find"
          /\ Move(h, "saveReply")
      BY <1>6 DEF HandleReply
    <2>2. StoresTyped'  BY <2>1 DEF InboundTypeOK, StoresTyped, mailVars, claimVars, storeVars
    <2> QED  BY <1>6, <2>1, <2>2, ReplyHandled, HandlerIs DEF claimVars, Move
  <1>7. CASE SaveReply(h) \/ SaveDecision(h)
    <2>1. /\ UNCHANGED <<mailVars, claimVars, lead, suppressed, signalled, via, mail, conv, held, heldLead, pollVars>>
          /\ at[h] # "idle" /\ (SaveConversation(h) \/ UNCHANGED rows)
      BY <1>7 DEF SaveReply, SaveDecision
    <2>2. PICK stage \in {"decide", "suppress", "signal", "done"} : Move(h, stage)
      <3>1. AfterReply(h) \in {"decide", "suppress", "done"}  BY HandlerIs, StageSorts DEF AfterReply
      <3>2. AfterDecision(h) \in {"signal", "done"}  BY DEF AfterDecision
      <3> QED  BY <1>7, <3>1, <3>2 DEF SaveReply, SaveDecision
    <2>3. StoresTyped'
      BY <2>1, SavedTyped DEF InboundTypeOK, StoresTyped, mailVars, claimVars
    <2> QED  BY <1>3, <2>1, <2>2, <2>3, StageSorts DEF claimVars
  <1>8. CASE Suppress(h) \/ SignalReply(h)
    <2>1. /\ UNCHANGED <<mailVars, claimVars, rows, lead, via, mail, conv, held, heldLead, pollVars>>
          /\ at[h] \in {"suppress", "signal"} /\ Move(h, "done")
          /\ signalled' \subseteq signalled \cup {mail[h]}
      BY <1>8 DEF Suppress, SignalReply
    <2>2. mail[h] \in Messages  BY <2>1, HandlerIs
    <2>3. StoresTyped'  BY <2>1, <2>2 DEF InboundTypeOK, StoresTyped, mailVars, claimVars
    <2> QED  BY <1>3, <2>1, <2>3, StageSorts DEF claimVars
  <1>9. CASE ClassifyAndAct(h)
    <2>1. UNCHANGED <<mailVars, claimVars, storeVars, via, mail, conv, heldLead, pollVars>>
      BY <1>9 DEF ClassifyAndAct
    <2>2. \E stage \in HandlerStages : Move(h, stage)
      BY <1>9, StageSorts DEF ClassifyAndAct, AfterDecision
    <2>3. StoresTyped'  BY <2>1 DEF InboundTypeOK, StoresTyped, mailVars, claimVars, storeVars
    <2> QED  BY <1>9, <2>1, <2>2, <2>3, DecisionTaken, HandlerIs DEF claimVars, Move
  <1>10. CASE UpdateLead(h)
    <2>1. UNCHANGED <<mailVars, claimVars, storeVars, via, mail, conv, held, pollVars>>
          /\ \E stage \in {"saveLead", "saveDecision"} : Move(h, stage)
      BY <1>10 DEF UpdateLead
    <2>2. StoresTyped'  BY <2>1 DEF InboundTypeOK, StoresTyped, mailVars, claimVars, storeVars
    <2> QED  BY <1>10, <2>1, <2>2, LeadUpdated, HandlerIs DEF claimVars, Move
  <1>11. CASE SaveLead(h)
    <2>1. /\ UNCHANGED <<mailVars, claimVars, rows, suppressed, signalled, via, mail, conv, held, heldLead, pollVars>>
          /\ at[h] = "saveLead" /\ lead' \in {lead, heldLead[h]}
          /\ \E stage \in {"saveDecision", "done"} : Move(h, stage)
      BY <1>11 DEF SaveLead
    <2>2. StoresTyped'  BY <2>1, HandlerIs DEF InboundTypeOK, StoresTyped, mailVars, claimVars
    <2> QED  BY <1>3, <2>1, <2>2, StageSorts DEF claimVars
  <1> QED
    BY <1>1, <1>2, <1>4, <1>5, <1>6, <1>7, <1>8, <1>9, <1>10, <1>11 DEF Handle

-----------------------------------------------------------------------------
(* The steps of a handler                                                     *)

LEMMA ClaimsStep ==
  ASSUME InboundTypeOK, ClaimsAreHeld, ClaimedOnce, NEW h \in Handlers, Handle(h)
  PROVE  ClaimsAreHeld' /\ ClaimedOnce'
  <1>1. HandlersTyped' /\ HandlerLeaves(h)  BY HandlerStepTyped
  <1>2. \A g \in Handlers \ {h} : (Owns(g)' <=> Owns(g)) /\ mail'[g] = mail[g]
    BY <1>1 DEF Owns, HandlerLeaves
  <1>3. CASE ClaimMail(h)
    <2>1. /\ at[h] = "claim" /\ mail[h] \in Messages /\ mail' = mail /\ via' = via
          /\ key \in [Messages -> {"FREE", "PENDING"}]
      BY <1>3, HandlerIs DEF ClaimMail, InboundTypeOK, StoresTyped
    <2>2. CASE Claimable(key[mail[h]])
      <3>1. /\ key' = [key EXCEPT ![mail[h]] = "PENDING"] /\ key[mail[h]] = "FREE"
        BY <1>3, <2>2 DEF ClaimMail, Claimable
      <3>2. \A g \in Handlers : Owns(g) => mail[g] # mail[h]  BY <3>1 DEF ClaimsAreHeld
      <3>3. \A g \in Handlers : Owns(g) => mail[g] \in Messages  BY HandlerIs DEF Owns
      <3>4. \A m \in Messages \ {mail[h]} : key'[m] = key[m]  BY <2>1, <3>1
      <3>5. key'[mail[h]] = "PENDING"  BY <2>1, <3>1
      <3>6. ClaimsAreHeld'  BY <1>2, <2>1, <3>3, <3>4, <3>5 DEF ClaimsAreHeld
      <3>7. ClaimedOnce'  BY <1>2, <2>1, <3>2 DEF ClaimedOnce
      <3> QED  BY <3>6, <3>7
    <2>3. CASE ~Claimable(key[mail[h]])
      <3>1. key' = key /\ at'[h] = "refused"  BY <1>3, <2>3, HandlerIs DEF ClaimMail, Move
      <3>2. ~Owns(h)'  BY <3>1 DEF Owns
      <3> QED  BY <1>2, <3>1, <3>2 DEF ClaimsAreHeld, ClaimedOnce
    <2> QED  BY <2>2, <2>3
  <1>4. CASE ~ClaimMail(h)
    <2>1. key' = key
      BY <1>4 DEF Handle, Receive, Interpret, FetchAndCorrelate, HandleReply, SaveReply, Suppress,
                  ClassifyAndAct, UpdateLead, SaveLead, SaveDecision, SignalReply, HandlerCrashes, claimVars
    <2>2. Owns(h)' => Owns(h) /\ mail'[h] = mail[h]
      <3>1. ASSUME NEW m \in Messages, Receive(h, m)  PROVE ~Owns(h)'
        <4>1. at'[h] \in {"claim", "refused"}  BY <3>1, HandlerIs DEF Receive, Move
        <4> QED  BY <4>1 DEF Owns
      <3>2. ASSUME NEW m \in Messages, Interpret(h, m)  PROVE ~Owns(h)'
        <4>1. via'[h] = "workflow"  BY <3>2, HandlerIs DEF Interpret
        <4> QED  BY <4>1 DEF Owns
      <3>3. CASE HandlerCrashes(h)
        <4>1. at[h] # "idle" /\ at[h] # "refused" /\ (at[h] = "claim" => at'[h] = "refused")
          BY <3>3, HandlerIs DEF HandlerCrashes, Move
        <4> QED  BY <1>1, <4>1 DEF Owns, HandlerLeaves
      <3>4. CASE \/ FetchAndCorrelate(h) \/ HandleReply(h) \/ SaveReply(h) \/ Suppress(h)
                 \/ ClassifyAndAct(h) \/ UpdateLead(h) \/ SaveLead(h) \/ SaveDecision(h) \/ SignalReply(h)
        <4>1. at[h] \notin {"idle", "claim", "refused"}
          BY <3>4 DEF FetchAndCorrelate, HandleReply, SaveReply, Suppress, ClassifyAndAct, UpdateLead, SaveLead,
                      SaveDecision, SignalReply
        <4> QED  BY <1>1, <4>1 DEF Owns, HandlerLeaves
      <3> QED  BY <1>4, <3>1, <3>2, <3>3, <3>4 DEF Handle
    <2> QED  BY <1>2, <2>1, <2>2 DEF ClaimsAreHeld, ClaimedOnce
  <1> QED  BY <1>3, <1>4

LEMMA LeadsStep ==
  ASSUME InboundTypeOK, LeadsAreHeld, NEW h \in Handlers, Handle(h)
  PROVE  /\ LeadsAreHeld'
         /\ lead.status = "NOT_QUALIFIED" => lead'.status = "NOT_QUALIFIED"
  <1>1. HandlersTyped' /\ HandlerLeaves(h)  BY HandlerStepTyped
  <1>2. /\ lead.version \in Nat /\ lead' \in Leads /\ lead'.version \in Nat
        /\ \A g \in Handlers : heldLead[g].base \in Nat /\ heldLead[g].version \in Nat
    BY HandlerStepTyped, HandlerIs DEF StoresTyped, Leads
  <1>3. CASE SaveLead(h)
    <2>1. at[h] = "saveLead" /\ at'[h] \in {"saveDecision", "done"} /\ heldLead' = heldLead
      BY <1>3, HandlerIs DEF SaveLead, Move
    <2>2. CASE FreshLead(h)
      <3>1. lead' = heldLead[h] /\ heldLead[h].base = lead.version  BY <1>3, <2>2 DEF SaveLead, FreshLead
      <3>2. lead'.version = lead.version + 1 /\ (lead.status = "NOT_QUALIFIED" => lead'.status = "NOT_QUALIFIED")
        BY <2>1, <3>1 DEF LeadsAreHeld
      <3>3. \A g \in Handlers \ {h} : at'[g] = "saveLead" => heldLead[g].base < lead'.version
        BY <1>1, <1>2, <3>2 DEF LeadsAreHeld, HandlerLeaves
      <3> QED  BY <1>1, <1>2, <2>1, <3>2, <3>3 DEF LeadsAreHeld, HandlerLeaves
    <2>3. CASE ~FreshLead(h)
      <3>1. lead' = lead  BY <1>3, <2>3 DEF SaveLead
      <3> QED  BY <1>1, <2>1, <3>1 DEF LeadsAreHeld, HandlerLeaves
    <2> QED  BY <2>2, <2>3
  <1>4. CASE UpdateLead(h)
    <2>1. lead' = lead  BY <1>4 DEF UpdateLead, storeVars
    <2> QED  BY <1>1, <1>2, <1>4, <2>1, LeadUpdated DEF LeadsAreHeld, HandlerLeaves
  <1>5. CASE ~SaveLead(h) /\ ~UpdateLead(h)
    <2>1. lead' = lead
      BY <1>5 DEF Handle, Receive, Interpret, ClaimMail, FetchAndCorrelate, HandleReply, SaveReply, Suppress,
                  ClassifyAndAct, SaveDecision, SignalReply, HandlerCrashes, storeVars
    <2>2. at'[h] # "saveLead"
      <3>1. AfterReply(h) # "saveLead" /\ AfterDecision(h) # "saveLead"
        BY HandlerIs, StageSorts DEF AfterReply, AfterDecision
      <3> QED
        BY <1>5, <3>1, HandlerIs, DecisionTaken
        DEF Handle, Receive, Interpret, ClaimMail, FetchAndCorrelate, HandleReply, SaveReply, Suppress,
            SaveDecision, SignalReply, HandlerCrashes, Move
    <2> QED  BY <1>1, <2>1, <2>2 DEF LeadsAreHeld, HandlerLeaves
  <1> QED  BY <1>3, <1>4, <1>5

LEMMA SeenStays ==
  ASSUME NEW h \in Handlers, Handle(h), OptOutSeen
  PROVE  OptOutSeen'
  <1>1. optOuts \subseteq optOuts'
    BY DEF Handle, Receive, Interpret, ClaimMail, FetchAndCorrelate, HandleReply, SaveReply, Suppress,
           ClassifyAndAct, UpdateLead, SaveLead, SaveDecision, SignalReply, HandlerCrashes, storeVars
  <1> QED  BY <1>1 DEF OptOutSeen

LEMMA SettledStays ==
  ASSUME InboundTypeOK, NEW h \in Handlers, Handle(h), NEW m, Settled(m)
  PROVE  Settled(m)'
  <1>1. HandlerLeaves(h) /\ sender' = sender  BY HandlerStepTyped DEF HandlerLeaves, mailVars
  <1>2. suppressed \subseteq suppressed'
    BY DEF Handle, Receive, Interpret, ClaimMail, FetchAndCorrelate, HandleReply, SaveReply, Suppress, SuppressSender,
           ClassifyAndAct, UpdateLead, SaveLead, SaveDecision, SignalReply, HandlerCrashes, storeVars
  <1>3. ASSUME NEW g \in Handlers \ {h}, mail[g] = m, at[g] \in {"suppress", "lost"}  PROVE Settled(m)'
    BY <1>1, <1>3 DEF HandlerLeaves, Settled
  <1>4. CASE mail[h] = m /\ at[h] \in {"suppress", "lost"}
    <2>1. Suppress(h) \/ (HandlerCrashes(h) /\ at[h] = "suppress")
      BY <1>4 DEF Handle, Receive, Interpret, ClaimMail, FetchAndCorrelate, HandleReply, SaveReply, ClassifyAndAct,
                  UpdateLead, SaveLead, SaveDecision, SignalReply, HandlerCrashes
    <2>2. CASE Suppress(h)  BY <1>1, <1>4, <2>2 DEF Suppress, SuppressSender, Settled
    <2>3. CASE HandlerCrashes(h) /\ at[h] = "suppress"
      <3>1. at'[h] = "lost" /\ mail'[h] = m  BY <1>1, <1>4, <2>3, HandlerIs DEF HandlerCrashes, Move, HandlerLeaves
      <3> QED  BY <3>1 DEF Settled
    <2> QED  BY <2>1, <2>2, <2>3
  <1> QED  BY <1>1, <1>2, <1>3, <1>4 DEF Settled

LEMMA OptOutsStep ==
  ASSUME InboundTypeOK, OptOutsAreSeen, NEW h \in Handlers, Handle(h)
  PROVE  OptOutsAreSeen'
  <1>1. HandlersTyped' /\ HandlerLeaves(h) /\ says' = says
    BY HandlerStepTyped DEF HandlerLeaves, mailVars
  <1>2. OptOutSeen => OptOutSeen'  BY SeenStays
  <1>a. \A m \in optOuts : Settled(m)'  BY SettledStays DEF OptOutsAreSeen
  <1>3. \A g \in Handlers \ {h} : UnsubscribesEnd(g)'
    BY <1>1, <1>2 DEF OptOutsAreSeen, UnsubscribesEnd, HandlerLeaves
  <1>4. UnsubscribesEnd(h)  BY DEF OptOutsAreSeen
  <1>5. SUFFICES ASSUME TRUE
                 PROVE  /\ \A m \in signalled' : says[m] # "UNSUBSCRIBE"
                        /\ UnsubscribesEnd(h)'
                        /\ \A i \in Handlers : rows'[i].optedOut => OptOutSeen'
                        /\ \A m \in optOuts' \ optOuts : Settled(m)'
    BY <1>a, <1>1, <1>3 DEF OptOutsAreSeen
  <1>6. ASSUME UNCHANGED <<rows, optOuts, signalled>>, UnsubscribesEnd(h)'
        PROVE  /\ \A m \in signalled' : says[m] # "UNSUBSCRIBE"
               /\ UnsubscribesEnd(h)'
               /\ \A i \in Handlers : rows'[i].optedOut => OptOutSeen'
               /\ \A m \in optOuts' \ optOuts : Settled(m)'
    BY <1>2, <1>6 DEF OptOutsAreSeen
  <1>7. ASSUME NEW m \in Messages, Receive(h, m)  PROVE UNCHANGED <<rows, optOuts, signalled>> /\ UnsubscribesEnd(h)'
    <2>1. at'[h] \in {"claim", "refused"} /\ via'[h] = "webhook" /\ UNCHANGED <<rows, optOuts, signalled>>
      BY <1>7, HandlerIs DEF Receive, Move, storeVars
    <2> QED  BY <2>1 DEF UnsubscribesEnd
  <1>8. ASSUME NEW m \in Messages, Interpret(h, m)
        PROVE  UNCHANGED <<rows, optOuts>> /\ signalled' \subseteq signalled /\ UnsubscribesEnd(h)'
    <2>1. /\ at'[h] = "find" /\ mail'[h] = m /\ m \in signalled
          /\ UNCHANGED <<rows, optOuts>> /\ signalled' \subseteq signalled
      BY <1>8, HandlerIs DEF Interpret, Move
    <2>2. says'[mail'[h]] # "UNSUBSCRIBE"  BY <1>1, <2>1 DEF OptOutsAreSeen
    <2> QED  BY <2>1, <2>2 DEF UnsubscribesEnd
  <1>9. CASE ClaimMail(h) \/ FetchAndCorrelate(h) \/ HandlerCrashes(h)
    <2>1. /\ at'[h] \in {"fetch", "refused", "find", "done", "lost"} /\ at[h] # "idle"
          /\ UNCHANGED <<rows, optOuts, signalled>>
      BY <1>9, HandlerIs DEF ClaimMail, FetchAndCorrelate, HandlerCrashes, Move, storeVars
    <2> QED  BY <1>1, <1>4, <1>6, <2>1 DEF UnsubscribesEnd, HandlerLeaves
  <1>10. CASE HandleReply(h)
    <2>1. at[h] = "find" /\ at'[h] = "saveReply" /\ UNCHANGED <<rows, optOuts, signalled>>
      BY <1>10, HandlerIs DEF HandleReply, Move, storeVars
    <2>2. says[mail[h]] # "UNSUBSCRIBE" /\ held'[h].optedOut => OptOutSeen
      BY <1>10, ReplyHandled DEF OptOutsAreSeen
    <2>3. says[mail[h]] = "UNSUBSCRIBE" => held'[h].optedOut  BY <1>10, ReplyHandled
    <2>4. UnsubscribesEnd(h)'
      BY <1>1, <1>2, <1>4, <2>1, <2>2, <2>3 DEF UnsubscribesEnd, HandlerLeaves
    <2> QED  BY <1>6, <2>1, <2>4
  <1>11. CASE SaveReply(h)
    <2>1. at[h] = "saveReply" /\ UNCHANGED signalled  BY <1>11 DEF SaveReply
    <2>2. CASE Fresh(h)
      <3>1. /\ SaveConversation(h) /\ at'[h] = AfterReply(h)
            /\ optOuts' = IF held[h].optedOut /\ via[h] = "webhook" THEN optOuts \cup {mail[h]} ELSE optOuts
        <4>1. SaveConversation(h) /\ Move(h, AfterReply(h))  BY <1>11, <2>2 DEF SaveReply
        <4>2. at'[h] = AfterReply(h)  BY <4>1, HandlerIs DEF Move
        <4> QED  BY <1>11, <2>2, <4>1, <4>2 DEF SaveReply
      <3>3. via[h] \in {"webhook", "workflow"}  BY HandlerIs, StageSorts
      <3>2. /\ ~held[h].optedOut => AfterReply(h) = "decide"
            /\ held[h].optedOut /\ via[h] = "webhook" /\ sender[mail[h]] # "none" => AfterReply(h) = "suppress"
            /\ held[h].optedOut => AfterReply(h) \in {"suppress", "done"}
            /\ held[h].optedOut /\ via[h] = "workflow" => AfterReply(h) = "done"
        BY <3>3 DEF AfterReply
      <3>4. held[h].optedOut => OptOutSeen'
        <4>1. CASE held[h].optedOut /\ via[h] = "webhook"  BY <3>1, <4>1 DEF OptOutSeen
        <4>2. CASE held[h].optedOut /\ via[h] = "workflow"  BY <1>2, <1>4, <2>1, <4>2 DEF UnsubscribesEnd
        <4> QED  BY <3>3, <4>1, <4>2
      <3>5. UnsubscribesEnd(h)'
        BY <1>1, <1>4, <2>1, <3>1, <3>2, <3>3 DEF UnsubscribesEnd, HandlerLeaves
      <3>6. \A i \in Handlers : rows'[i].optedOut => OptOutSeen'
        BY <1>2, <3>1, <3>4, SavedTyped DEF OptOutsAreSeen
      <3>7. \A m \in optOuts' \ optOuts : Settled(m)'
        <4> SUFFICES ASSUME NEW m \in optOuts' \ optOuts PROVE Settled(m)'
          OBVIOUS
        <4>1. m = mail[h] /\ held[h].optedOut /\ via[h] = "webhook"  BY <3>1
        <4>2. mail'[h] = m /\ sender' = sender  BY <1>1, <2>1, <4>1 DEF HandlerLeaves, mailVars
        <4>3. sender[m] = "none" \/ at'[h] = "suppress"  BY <3>1, <3>2, <4>1
        <4> QED  BY <4>2, <4>3 DEF Settled
      <3> QED  BY <2>1, <3>5, <3>6, <3>7 DEF OptOutsAreSeen
    <2>3. CASE ~Fresh(h)
      <3>1. at'[h] = "done" /\ UNCHANGED <<rows, optOuts>>  BY <1>11, <2>3, HandlerIs DEF SaveReply, Move
      <3> QED  BY <1>1, <1>4, <1>6, <2>1, <3>1 DEF UnsubscribesEnd, HandlerLeaves
    <2> QED  BY <2>2, <2>3
  <1>12. CASE Suppress(h)
    <2>1. at[h] = "suppress" /\ at'[h] = "done" /\ UNCHANGED <<rows, optOuts, signalled>>
      BY <1>12, HandlerIs DEF Suppress, Move
    <2> QED  BY <1>1, <1>4, <1>6, <2>1 DEF UnsubscribesEnd, HandlerLeaves
  <1>13. CASE ClassifyAndAct(h)
    <2>1. UNCHANGED <<rows, optOuts, signalled>>  BY <1>13 DEF ClassifyAndAct, storeVars
    <2>2. UnsubscribesEnd(h)'
      BY <1>1, <1>4, <1>13, DecisionTaken DEF UnsubscribesEnd, HandlerLeaves
    <2> QED  BY <1>6, <2>1, <2>2
  <1>14. CASE UpdateLead(h) \/ SaveLead(h)
    <2>1. /\ at[h] \in {"loadLead", "saveLead"} /\ at'[h] \in {"saveLead", "saveDecision", "done"}
          /\ held' = held /\ UNCHANGED <<rows, optOuts, signalled>>
      BY <1>14, HandlerIs DEF UpdateLead, SaveLead, Move, storeVars
    <2> QED  BY <1>1, <1>4, <1>6, <2>1 DEF UnsubscribesEnd, HandlerLeaves
  <1>15. CASE SaveDecision(h)
    <2>1. /\ at[h] = "saveDecision" /\ UNCHANGED <<optOuts, signalled>> /\ at'[h] \in {"signal", "done"}
          /\ SaveConversation(h) \/ UNCHANGED rows
      BY <1>15, HandlerIs, StageSorts DEF SaveDecision, Move, AfterDecision
    <2>2. ~held[h].optedOut /\ says[mail[h]] # "UNSUBSCRIBE"  BY <1>4, <2>1 DEF UnsubscribesEnd
    <2>3. UnsubscribesEnd(h)'  BY <1>1, <2>1, <2>2 DEF UnsubscribesEnd, HandlerLeaves
    <2>4. \A i \in Handlers : rows'[i].optedOut => OptOutSeen'
      <3>1. CASE SaveConversation(h)  BY <1>2, <2>2, <3>1, SavedTyped DEF OptOutsAreSeen
      <3>2. CASE UNCHANGED rows  BY <1>2, <3>2 DEF OptOutsAreSeen
      <3> QED  BY <2>1, <3>1, <3>2
    <2> QED  BY <2>1, <2>3, <2>4 DEF OptOutsAreSeen
  <1>16. CASE SignalReply(h)
    <2>1. /\ at[h] = "signal" /\ at'[h] = "done" /\ UNCHANGED <<rows, optOuts>>
          /\ signalled' \subseteq signalled \cup {mail[h]}
      BY <1>16, HandlerIs DEF SignalReply, Move
    <2>2. says[mail[h]] # "UNSUBSCRIBE"  BY <1>4, <2>1 DEF UnsubscribesEnd
    <2>3. UnsubscribesEnd(h)'  BY <1>1, <2>1, <2>2 DEF UnsubscribesEnd, HandlerLeaves
    <2> QED  BY <1>2, <2>1, <2>2, <2>3 DEF OptOutsAreSeen
  <1>17. CASE \E m \in Messages : Receive(h, m)  BY <1>6, <1>7, <1>17
  <1>18. CASE \E m \in Messages : Interpret(h, m)  BY <1>2, <1>8, <1>18 DEF OptOutsAreSeen
  <1> QED
    BY <1>9, <1>10, <1>11, <1>12, <1>13, <1>14, <1>15, <1>16, <1>17, <1>18 DEF Handle

-----------------------------------------------------------------------------
(* The steps of a poll and of the world                                       *)

PollsHold == PollsTyped /\ CheckpointCoversClaims /\ PollsCover

LEMMA PollIs ==
  ASSUME InboundTypeOK
  PROVE  /\ pollAt \in [Polls -> {"idle", "each", "done"}] /\ todo \in [Polls -> SUBSET Messages]
         /\ latest \in [Polls -> Nat] /\ checkpoint \in Nat /\ arrived \in Nat
         /\ pollKey \in [Messages -> {"FREE", "PENDING"}] /\ Messages \subseteq Nat
  BY MailAssumption DEF InboundTypeOK, PollsTyped, StoresTyped

LEMMA PollStep ==
  ASSUME InboundTypeOK, PollsHold, NEW p \in Polls, Poll(p)
  PROVE  /\ PollsHold' /\ pollKey' \in [Messages -> {"FREE", "PENDING"}]
         /\ UNCHANGED <<mailVars, key, storeVars, handlerVars>>
  <1>1. CASE ListMails(p)
    <2>1. /\ UNCHANGED <<mailVars, claimVars, storeVars, handlerVars, checkpoint>>
          /\ pollAt' = [pollAt EXCEPT ![p] = "each"]
      BY <1>1 DEF ListMails
    <2>2. PICK since \in Sinces, page \in SUBSET Messages :
            /\ page \subseteq {m \in Messages : since <= m /\ m <= arrived}
            /\ todo' = [todo EXCEPT ![p] = page] /\ latest' = [latest EXCEPT ![p] = since]
            /\ unlisted' = unlisted \cup ({m \in Messages : since <= m /\ m <= arrived} \ page)
                                    \cup {m \in Messages : checkpoint = 0 /\ m < since}
      BY <1>1 DEF ListMails
    <2>3. since \in Nat /\ (checkpoint = 0 \/ since = checkpoint)  BY PollIs DEF Sinces
    <2>4. pollKey' = pollKey /\ unlisted \subseteq unlisted'  BY <2>1, <2>2 DEF claimVars
    <2>5. /\ todo' \in [Polls -> SUBSET Messages] /\ todo'[p] = page
          /\ latest' \in [Polls -> Nat] /\ latest'[p] = since
          /\ pollAt' \in [Polls -> {"idle", "each", "done"}]
          /\ \A q \in Polls \ {p} : todo'[q] = todo[q] /\ latest'[q] = latest[q] /\ pollAt'[q] = pollAt[q]
      BY <2>1, <2>2, <2>3, PollIs
    <2>6. PollsTyped'  BY <2>1, <2>5, PollIs DEF PollsTyped
    <2>7. CheckpointCoversClaims'  BY <2>1, <2>4 DEF PollsHold, CheckpointCoversClaims
    <2>8. ASSUME NEW m \in Messages, m < since \/ \E n \in page : m < n
          PROVE  pollKey[m] = "PENDING" \/ m \in page \/ m \in unlisted'
      <3>1. CASE m < since /\ checkpoint = 0  BY <2>2, <3>1
      <3>2. CASE m < since /\ since = checkpoint  BY <2>4, <3>2 DEF PollsHold, CheckpointCoversClaims
      <3>3. CASE ~(m < since)
        <4>1. PICK n \in page : m < n  BY <2>8, <3>3
        <4>2. n \in Nat /\ n <= arrived /\ m \in Nat  BY <2>2, <4>1, PollIs
        <4>3. since <= m /\ m <= arrived  BY <2>3, <3>3, <4>1, <4>2, PollIs
        <4> QED  BY <2>2, <4>3
      <3> QED  BY <2>3, <3>1, <3>2, <3>3
    <2>9. PollsCover'  BY <2>4, <2>5, <2>8 DEF PollsHold, PollsCover
    <2> QED  BY <2>1, <2>4, <2>6, <2>7, <2>9, PollIs DEF PollsHold, claimVars
  <1>2. ASSUME NEW m \in Messages, PollMail(p, m)
        PROVE  /\ PollsHold' /\ pollKey' \in [Messages -> {"FREE", "PENDING"}]
               /\ UNCHANGED <<mailVars, key, storeVars, handlerVars>>
    <2>1. /\ UNCHANGED <<mailVars, key, storeVars, handlerVars, pollAt, checkpoint, unlisted>>
          /\ pollAt[p] = "each" /\ m \in todo[p] /\ todo' = [todo EXCEPT ![p] = @ \ {m}]
      BY <1>2 DEF PollMail
    <2>2. /\ pollKey' \in [Messages -> {"FREE", "PENDING"}] /\ pollKey'[m] = "PENDING"
          /\ \A n \in Messages \ {m} : pollKey'[n] = pollKey[n]
      <3>1. CASE Claimable(pollKey[m])
        <4>1. pollKey' = [pollKey EXCEPT ![m] = "PENDING"]  BY <1>2, <3>1 DEF PollMail
        <4> QED  BY <4>1, PollIs
      <3>2. CASE ~Claimable(pollKey[m])
        <4>1. pollKey' = pollKey /\ pollKey[m] = "PENDING"
          BY <1>2, <3>2, PollIs DEF PollMail, Claimable
        <4> QED  BY <4>1, PollIs
      <3> QED  BY <3>1, <3>2
    <2>3. /\ latest' \in [Polls -> Nat] /\ latest'[p] \in {latest[p], m}
          /\ \A q \in Polls \ {p} : latest'[q] = latest[q]
      <3>1. latest' = latest \/ latest' = [latest EXCEPT ![p] = IF m > @ THEN m ELSE @]
        BY <1>2 DEF PollMail
      <3> QED  BY <3>1, PollIs
    <2>4. /\ todo' \in [Polls -> SUBSET Messages] /\ todo'[p] = todo[p] \ {m}
          /\ \A q \in Polls \ {p} : todo'[q] = todo[q]
      BY <2>1, PollIs
    <2>5. PollsTyped'  BY <2>1, <2>3, <2>4, PollIs DEF PollsTyped
    <2>6. CheckpointCoversClaims'  BY <2>1, <2>2 DEF PollsHold, CheckpointCoversClaims
    <2>7. ASSUME NEW k \in Messages, k < latest'[p] \/ \E n \in todo'[p] : k < n
          PROVE  pollKey'[k] = "PENDING" \/ k \in todo'[p] \/ k \in unlisted
      <3>1. k < latest[p] \/ \E n \in todo[p] : k < n  BY <2>1, <2>3, <2>4, <2>7
      <3>2. pollKey[k] = "PENDING" \/ k \in todo[p] \/ k \in unlisted  BY <2>1, <3>1 DEF PollsHold, PollsCover
      <3> QED  BY <2>2, <2>4, <3>2
    <2>8. ASSUME NEW q \in Polls \ {p}, pollAt[q] = "each", NEW k \in Messages,
                 k < latest[q] \/ \E n \in todo[q] : k < n
          PROVE  pollKey'[k] = "PENDING" \/ k \in todo[q] \/ k \in unlisted
      BY <2>2, <2>8 DEF PollsHold, PollsCover
    <2>9. PollsCover'  BY <2>1, <2>3, <2>4, <2>7, <2>8 DEF PollsCover
    <2> QED  BY <2>1, <2>2, <2>5, <2>6, <2>9 DEF PollsHold
  <1>3. CASE FinishPoll(p)
    <2>1. /\ UNCHANGED <<mailVars, claimVars, storeVars, handlerVars, todo, latest, unlisted>>
          /\ pollAt[p] = "each" /\ todo[p] = {} /\ checkpoint' = latest[p]
          /\ pollAt' = [pollAt EXCEPT ![p] = "done"]
      BY <1>3 DEF FinishPoll, Reached
    <2>2. pollKey' = pollKey  BY <2>1 DEF claimVars
    <2>3. /\ pollAt' \in [Polls -> {"idle", "each", "done"}] /\ pollAt'[p] = "done"
          /\ \A q \in Polls \ {p} : pollAt'[q] = pollAt[q]
      BY <2>1, PollIs
    <2>4. PollsTyped'  BY <2>1, <2>3, PollIs DEF PollsTyped
    <2>5. CheckpointCoversClaims'  BY <2>1, <2>2 DEF PollsHold, PollsCover, CheckpointCoversClaims
    <2>6. PollsCover'  BY <2>1, <2>2, <2>3 DEF PollsHold, PollsCover
    <2> QED  BY <2>1, <2>2, <2>4, <2>5, <2>6, PollIs DEF PollsHold, claimVars
  <1>4. CASE PollThrows(p)
    <2>1. /\ UNCHANGED <<mailVars, claimVars, storeVars, handlerVars, todo, latest, checkpoint, unlisted>>
          /\ pollAt' = [pollAt EXCEPT ![p] = "done"]
      BY <1>4 DEF PollThrows
    <2>2. pollKey' = pollKey  BY <2>1 DEF claimVars
    <2>3. /\ pollAt' \in [Polls -> {"idle", "each", "done"}]
          /\ \A q \in Polls : pollAt'[q] = "each" => pollAt[q] = "each"
      BY <2>1, PollIs
    <2>4. PollsTyped'  BY <2>1, <2>3, PollIs DEF PollsTyped
    <2>5. CheckpointCoversClaims'  BY <2>1, <2>2 DEF PollsHold, CheckpointCoversClaims
    <2>6. PollsCover'  BY <2>1, <2>2, <2>3 DEF PollsHold, PollsCover
    <2> QED  BY <2>1, <2>2, <2>4, <2>5, <2>6, PollIs DEF PollsHold, claimVars
  <1> QED  BY <1>1, <1>2, <1>3, <1>4 DEF Poll

LEMMA RestartStep ==
  ASSUME InboundTypeOK, PollsHold, PollerRestarts
  PROVE  /\ PollsHold' /\ UNCHANGED <<mailVars, claimVars, storeVars, handlerVars>>
  <1>1. /\ UNCHANGED <<mailVars, claimVars, storeVars, handlerVars, todo, latest>> /\ checkpoint' = 0
        /\ pollAt' = [p \in Polls |-> IF Lost(p) THEN "done" ELSE pollAt[p]]
    BY DEF PollerRestarts
  <1>2. pollAt' \in [Polls -> {"idle", "each", "done"}] /\ \A p \in Polls : pollAt'[p] # "each"
    BY <1>1, PollIs DEF Lost
  <1>3. PollsTyped'  BY <1>1, <1>2, PollIs DEF PollsTyped
  <1>4. CheckpointCoversClaims'  BY <1>1, PollIs DEF CheckpointCoversClaims
  <1>5. PollsCover'  BY <1>2 DEF PollsCover
  <1> QED  BY <1>1, <1>3, <1>4, <1>5 DEF PollsHold

LEMMA WorldStep ==
  ASSUME InboundInvariant, MailArrives \/ SendIsRecorded \/ AdministerSubscription
  PROVE  InboundInvariant' /\ UNCHANGED lead
  <1>1. /\ UNCHANGED <<says, sender, claimVars, storeVars, handlerVars, pollVars>>
        /\ arrived' \in {arrived, arrived + 1}
    BY DEF MailArrives, SendIsRecorded, AdministerSubscription, CreateSubscription, SaveSubscription,
           DeleteSubscription, DeleteRow, AdministrationCrashes
  <1> QED
    BY <1>1 DEF InboundInvariant, InboundTypeOK, HandlersTyped, StoresTyped, PollsTyped, ClaimsAreHeld, ClaimedOnce,
                Owns, CheckpointCoversClaims, PollsCover, LeadsAreHeld, OptOutsAreSeen, UnsubscribesEnd, OptOutSeen, Settled,
                claimVars, storeVars, handlerVars, pollVars

-----------------------------------------------------------------------------
(* The invariant                                                              *)

LEMMA InboundInit == Init => InboundInvariant
  <1> SUFFICES ASSUME Init PROVE InboundInvariant
    OBVIOUS
  <1>1. NoRow \in Conversations /\ NoRow.optedOut = FALSE
    BY StatusSorts DEF NoRow, NewConversation, Conversations
  <1>2. [status |-> "QUALIFIED", version |-> 1, base |-> 1] \in Leads  BY DEF Leads, LeadStatuses
  <1>3. HandlersTyped  BY <1>1, <1>2, StageSorts DEF Init, HandlersTyped
  <1>4. StoresTyped  BY <1>1, <1>2, MailAssumption DEF Init, StoresTyped
  <1>5. PollsTyped  BY DEF Init, PollsTyped
  <1>6. ClaimsAreHeld /\ ClaimedOnce /\ LeadsAreHeld  BY DEF Init, ClaimsAreHeld, ClaimedOnce, Owns, LeadsAreHeld
  <1>7. CheckpointCoversClaims /\ PollsCover
    BY MailAssumption DEF Init, CheckpointCoversClaims, PollsCover
  <1>8. OptOutsAreSeen  BY <1>1 DEF Init, OptOutsAreSeen, UnsubscribesEnd
  <1> QED  BY <1>3, <1>4, <1>5, <1>6, <1>7, <1>8 DEF InboundInvariant, InboundTypeOK

LEMMA InboundNext ==
  ASSUME InboundInvariant, [Next]_vars
  PROVE  /\ InboundInvariant'
         /\ lead.status = "NOT_QUALIFIED" => lead'.status = "NOT_QUALIFIED"
  <1>1. ASSUME NEW h \in Handlers, Handle(h)
        PROVE  /\ InboundInvariant'
               /\ lead.status = "NOT_QUALIFIED" => lead'.status = "NOT_QUALIFIED"
    <2>1. HandlersTyped' /\ StoresTyped' /\ HandlerLeaves(h)  BY <1>1, HandlerStepTyped DEF InboundInvariant
    <2>2. PollsTyped' /\ CheckpointCoversClaims' /\ PollsCover'
      BY <2>1 DEF InboundInvariant, InboundTypeOK, PollsTyped, CheckpointCoversClaims, PollsCover, HandlerLeaves,
                  pollVars
    <2>3. ClaimsAreHeld' /\ ClaimedOnce'  BY <1>1, ClaimsStep DEF InboundInvariant
    <2>4. LeadsAreHeld' /\ (lead.status = "NOT_QUALIFIED" => lead'.status = "NOT_QUALIFIED")
      BY <1>1, LeadsStep DEF InboundInvariant
    <2>5. OptOutsAreSeen'  BY <1>1, OptOutsStep DEF InboundInvariant
    <2> QED  BY <2>1, <2>2, <2>3, <2>4, <2>5 DEF InboundInvariant, InboundTypeOK
  <1>2. ASSUME NEW p \in Polls, Poll(p)  PROVE InboundInvariant' /\ UNCHANGED lead
    <2>1. /\ PollsHold' /\ pollKey' \in [Messages -> {"FREE", "PENDING"}]
          /\ UNCHANGED <<mailVars, key, storeVars, handlerVars>>
      BY <1>2, PollStep DEF InboundInvariant, InboundTypeOK, PollsHold
    <2>2. HandlersTyped' /\ StoresTyped'
      BY <2>1 DEF InboundInvariant, InboundTypeOK, HandlersTyped, StoresTyped, mailVars, storeVars, handlerVars
    <2>3. ClaimsAreHeld' /\ ClaimedOnce' /\ LeadsAreHeld'
      BY <2>1 DEF InboundInvariant, ClaimsAreHeld, ClaimedOnce, Owns, LeadsAreHeld, storeVars, handlerVars
    <2>4. OptOutsAreSeen'
      BY <2>1 DEF InboundInvariant, OptOutsAreSeen, UnsubscribesEnd, OptOutSeen, Settled, mailVars, storeVars, handlerVars
    <2> QED  BY <2>1, <2>2, <2>3, <2>4 DEF InboundInvariant, InboundTypeOK, PollsHold, storeVars
  <1>3. CASE UNCHANGED vars
    BY <1>3 DEF vars, InboundInvariant, InboundTypeOK, HandlersTyped, StoresTyped, PollsTyped, ClaimsAreHeld,
                ClaimedOnce, Owns, CheckpointCoversClaims, PollsCover, LeadsAreHeld, OptOutsAreSeen, UnsubscribesEnd,
                OptOutSeen, Settled, mailVars, claimVars, storeVars, handlerVars, pollVars
  <1>4. CASE MailArrives \/ SendIsRecorded \/ AdministerSubscription  BY <1>4, WorldStep
  <1>5. CASE PollerRestarts
    <2>1. PollsHold' /\ UNCHANGED <<mailVars, claimVars, storeVars, handlerVars>>
      BY <1>5, RestartStep DEF InboundInvariant, InboundTypeOK, PollsHold
    <2>2. HandlersTyped' /\ StoresTyped'
      BY <2>1 DEF InboundInvariant, InboundTypeOK, HandlersTyped, StoresTyped, mailVars, claimVars, storeVars,
                  handlerVars
    <2>3. ClaimsAreHeld' /\ ClaimedOnce' /\ LeadsAreHeld'
      BY <2>1 DEF InboundInvariant, ClaimsAreHeld, ClaimedOnce, Owns, LeadsAreHeld, claimVars, storeVars, handlerVars
    <2>4. OptOutsAreSeen'
      BY <2>1 DEF InboundInvariant, OptOutsAreSeen, UnsubscribesEnd, OptOutSeen, Settled, mailVars, storeVars,
                  handlerVars
    <2> QED  BY <2>1, <2>2, <2>3, <2>4 DEF InboundInvariant, InboundTypeOK, PollsHold, storeVars
  <1> QED  BY <1>1, <1>2, <1>3, <1>4, <1>5 DEF Next

\* The inductive invariant, for any number of handlers, polls and mails: beside the claims and
\* the leads, a poll accounts for every mail before the one it reached (claimed, still to look
\* at, or not in what Graph gave it), and the sender of every mail that left a conversation
\* opted out is suppressed, about to be, or not known.
THEOREM InboundIsSound == Spec => []InboundInvariant
  <1>1. InboundInvariant /\ [Next]_vars => InboundInvariant'  BY InboundNext
  <1> QED  BY InboundInit, <1>1, PTL DEF Spec

\* Of all the handlers that are notified of a mail, however often, at most one takes it on.
THEOREM MailsAreClaimedOnce == Spec => []ClaimedOnce
  <1>1. InboundInvariant => ClaimedOnce  BY DEF InboundInvariant
  <1> QED  BY InboundIsSound, <1>1, PTL

\* Polls that overlap, throw or meet mails they cannot use, and restarts that forget the
\* checkpoint, leave no mail before the checkpoint that a poll was given and none claimed; what
\* a page did not hold, and what a restarted poller no longer asks for, stays behind.
THEOREM CheckpointsCover == Spec => []CheckpointCoversClaims
  <1>1. InboundInvariant => CheckpointCoversClaims  BY DEF InboundInvariant
  <1> QED  BY InboundIsSound, <1>1, PTL

\* A conversation opts out only by a mail of the webhook, and the sender of each mail that
\* leaves it so is suppressed, or will be by the handler on its way, unless that handler died
\* there or the mail had no sender.
THEOREM OptOutsAreSuppressed == Spec => []OptOutReachesSuppression
  <1>1. InboundInvariant => OptOutReachesSuppression
    BY DEF InboundInvariant, OptOutsAreSeen, OptOutSeen, Settled, OptOutReachesSuppression
  <1> QED  BY InboundIsSound, <1>1, PTL

\* A lead that declined is never qualified again by a reply.
THEOREM DeclinedStays == Spec => DisqualifiedStays
  <1>1. InboundInvariant /\ [Next]_vars => [lead.status = "NOT_QUALIFIED" => lead'.status = "NOT_QUALIFIED"]_vars
    BY InboundNext
  <1> QED  BY InboundIsSound, <1>1, PTL DEF Spec, DisqualifiedStays
=============================================================================
