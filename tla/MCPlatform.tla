----------------------------- MODULE MCPlatform ----------------------------
(* Instance for TLC of the components that share no state: in each behaviour  *)
(* one of them, the subject, runs and the others stay as they start.          *)
EXTENDS SequenceRun, AgentRun, KnowledgeStore, ResearchRun,
        ControlPlane, OperatorRun, Identity, ContactChannels, GraphMail, TLC

CONSTANT Subjects  \* the components that run

VARIABLE subject

platformVars ==
  <<subject, sequenceVars, agentVars, storeVars, researchVars, controlVars, operatorVars,
    identityVars, contactVars, mailVars>>

TwoContents == {{}, {1}}
\* Ann signs in as anybody may; Bob's token claims workspace 1, in Ann's tenant.
AnnAndBob == {[id |-> "ann", email |-> "ann@", workspace |-> 0, tenant |-> "none"],
              [id |-> "bob", email |-> "bob@", workspace |-> 1, tenant |-> "ann"]}
\* The components name their processes and rows alike, so that one swap of two names is
\* a symmetry of all of them.
PlatformSymmetry == Permutations(Callers)

\* At most so many of S have left their first state.
AtMost(n, S, Idle(_)) == Cardinality({s \in S : ~Idle(s)}) <= n

\* A component that does not run starts in one of its initial states.
FirstOnly ==
  /\ subject # "sequence" => ~bounded
  /\ subject # "agent"    => /\ \A c \in Callers : kind[c] = "agent"
                             /\ \A m \in Models : catalog[m] = [status |-> "ready", price |-> 1]
                             /\ ~wired
  /\ subject # "policy"   => ~stopped
  /\ subject \notin {"contacts", "keys"} => \A r \in Rings : keyring[r].published = {}
  /\ subject # "mail"     => \A d \in Dispatches : dispatch[d].key = CHOOSE k \in Keys : TRUE

PlatformInit ==
  /\ subject \in Subjects
  /\ SequenceInit /\ AgentInit /\ StoreInit /\ ResearchInit /\ ControlInit
  /\ OperatorInit /\ IdentityInit /\ ContactInit /\ MailInit
  /\ FirstOnly

\* Where a component's own instance is too large, the subjects split or bound it.
\* Each caller has a budget of its own: one that gets answers without their usage is alone.
AgentMoves ==
  /\ AgentNext
  /\ AtMost(1, Callers, LAMBDA c : caller'[c].pc = "idle") \/ \A c \in Callers : unreported'[c] = {}
StoreMoves ==
  \/ subject = "memory" /\ (ProfileStep \/ MemoryNext)
  \/ /\ subject = "knowledge" /\ (ProfileStep \/ KnowledgeNext)
     /\ AtMost(2, Attempts, LAMBDA t : attempt'[t].pc = "idle")
\* One run to the end of its quota, or two that ask four questions between them.
ResearchMoves ==
  /\ ResearchNext
  /\ AtMost(1, Researches, LAMBDA r : research'[r].pc = "idle") \/ usage' <= 4
ControlMoves ==
  \/ subject = "versions" /\ VersionNext
  \/ subject = "policy" /\ PolicyNext
OperatorMoves ==
  /\ OperatorNext
  /\ \/ subject = "prepares" /\ AtMost(2, Scripts, LAMBDA s : script'[s].pc = "idle")
     \/ subject = "plans" /\ AtMost(1, Prepares, LAMBDA p : script'[p].pc = "idle")
\* All four sign-ins and requests on the first keys, three of them around their rotation.
OnFirstKeys == secrets' = [first |-> "old", retired |-> FALSE] /\ \A v \in Servers : ring'[v] = Ring(1)
IdentityMoves ==
  /\ IdentityNext
  /\ Cardinality({s \in SignIns : signIn'[s].pc # "idle"})
       + Cardinality({c \in Guarded : guarded'[c].pc # "idle"}) <= IF OnFirstKeys THEN 4 ELSE 3
ContactMoves ==
  /\ ContactNext
  /\ \/ subject = "contacts" /\ UNCHANGED keyring
     \/ /\ subject = "keys" /\ \A k \in Keepers \ Callers : keeper'[k].pc = "idle"
        /\ \E r \in Rings : keyring'[r].version = 1 /\ keyring'[r].alias = 1

PlatformNext ==
  /\ UNCHANGED subject
  /\ IF subject = "sequence" THEN SequenceNext ELSE UNCHANGED sequenceVars
  /\ IF subject = "agent" THEN AgentMoves ELSE UNCHANGED agentVars
  /\ IF subject \in {"memory", "knowledge"} THEN StoreMoves ELSE UNCHANGED storeVars
  /\ IF subject = "research" THEN ResearchMoves ELSE UNCHANGED researchVars
  /\ IF subject \in {"versions", "policy"} THEN ControlMoves ELSE UNCHANGED controlVars
  /\ IF subject \in {"prepares", "plans"} THEN OperatorMoves ELSE UNCHANGED operatorVars
  /\ IF subject = "identity" THEN IdentityMoves ELSE UNCHANGED identityVars
  /\ IF subject \in {"contacts", "keys"} THEN ContactMoves ELSE UNCHANGED contactVars
  /\ IF subject = "mail" THEN MailNext ELSE UNCHANGED mailVars

PlatformSpec == PlatformInit /\ [][PlatformNext]_platformVars
=============================================================================
