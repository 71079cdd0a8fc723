------------------------ MODULE InboundMailProperties -----------------------
(* What must hold of replies on their way into conversations, leads and the   *)
(* suppression list.                                                          *)
EXTENDS InboundMail

-----------------------------------------------------------------------------
(* Safety *)

\* The handlers of the webhook that own a claim, or owned it.
Owns(h) == via[h] = "webhook" /\ at[h] \notin {"idle", "claim", "refused"}

\* Graph repeats notifications, and handlers race, crash and fail: a mail goes on to
\* its conversation from at most one of them (ingest's atomic claim).
ClaimedOnce ==
  \A g, h \in Handlers : Owns(g) /\ Owns(h) /\ mail[g] = mail[h] => g = h

\* The next poll asks for what came since the checkpoint, so a mail before it that is not
\* claimed is lost to the polls.  That happens only to a mail missing from a page that was
\* asked for it, or older than the look-back of a restarted poller: overlapping polls, polls
\* that throw and mails that are of no use leave no other behind (pollMailbox).
CheckpointCoversClaims ==
  \A m \in Messages : m < checkpoint => pollKey[m] = "PENDING" \/ m \in unlisted

\* A conversation opts out only because of a mail from the webhook, and the sender of every
\* mail of the webhook that leaves it so, if Graph gave one, is suppressed, unless the
\* process was lost in between: the send path's gate reads the suppression, not the
\* conversation (persistReplyBasedOptOut).
OptOutReachesSuppression ==
  /\ (\E i \in Handlers : rows[i].optedOut) => optOuts # {}
  /\ \A m \in optOuts :
       \/ sender[m] = "none" \/ sender[m] \in suppressed
       \/ \E h \in Handlers : mail[h] = m /\ at[h] \in {"suppress", "lost"}

-----------------------------------------------------------------------------
(* Action properties *)

\* A prospect who declined stays declined: no later, or stale, positive reply qualifies
\* the lead again (recordConversationOutcome; the version check of the lead's row).
DisqualifiedStays ==
  [][lead.status = "NOT_QUALIFIED" => lead'.status = "NOT_QUALIFIED"]_vars

\* persist-reply-opt-out.ts: the opt-out is still honored within the conversation itself
\* via conversation.optedOut - so a conversation must not lose it.
OptOutKept ==
  [][\A i \in Handlers : rows[i].optedOut => rows'[i].optedOut]_vars
=============================================================================
