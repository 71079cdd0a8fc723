----------------------------- MODULE ResearchRun -----------------------------
(* ResearchEngine.run: accounts are discovered, each is enriched, its contact *)
(* found and a lead evaluated, over a provider behind a cache and a quota,    *)
(* with every row a transaction of its own.  Runs of a workspace overlap.     *)
EXTENDS Naturals, FiniteSets

CONSTANTS
  Researches,     \* runs of the engine
  AccountCount,   \* the accounts the provider finds, each with one contact
  Facts,          \* what the provider may answer of an account; "unknown" is nothing
  Scores,         \* how leads may score: of "high", "middle", "low", and "refused"
  ResearchQuota,  \* the provider's quota
  ResearchFaults  \* "provider": a call throws; "database": so does one of ours;
                  \* "crash": the process dies; "expiry": cached answers expire

ASSUME AccountCountAssumption == AccountCount \in Nat \ {0}
ASSUME ResearchQuotaAssumption == ResearchQuota \in Nat
ASSUME ScoresAssumption == Scores \subseteq {"high", "middle", "low", "refused"}

VARIABLES
  research,     \* where each run is
  runRow,       \* intelligence.research_runs
  accountRow,   \* intelligence.accounts: the status, the run that wrote it, and whether
                \* its evidence_references name a claim
  contactRows,  \* intelligence.contacts
  leadRows,     \* intelligence.leads
  evidence,     \* intelligence.research_evidence
  signalRow,    \* intelligence.signals: <<account, fact>>
  cached,       \* intelligence.research_cache
  usage         \* what the provider was asked, as the quota counts it

rows         == <<accountRow, contactRows, leadRows, evidence, signalRow>>
researchVars == <<research, runRow, rows, cached, usage>>

Found == 1..AccountCount
NoRow == [status |-> "NONE", by |-> "none", refers |-> FALSE]
NewResearch == [pc |-> "idle", stage |-> "accounts", at |-> 0, fact |-> "none", skipped |-> {}]

ResearchInit ==
  /\ research = [r \in Researches |-> NewResearch]
  /\ runRow = [r \in Researches |-> "NONE"]
  /\ accountRow = [a \in Found |-> NoRow]
  /\ contactRows = [a \in Found |-> NoRow]
  /\ leadRows = [a \in Found |-> NoRow]
  /\ evidence = {} /\ signalRow = {}
  /\ cached = [k \in {} |-> "none"] /\ usage = 0

GoOn(r, pc) == research' = [research EXCEPT ![r].pc = pc]
Fetch(r, stage) == research' = [research EXCEPT ![r].pc = "lookup", ![r].stage = stage]
Fails(r) == GoOn(r, "catch")

-----------------------------------------------------------------------------
\* The profile and a provider are found, and the request and the run are saved; or not,
\* and nothing is.
StartResearch(r) ==
  /\ research[r].pc = "idle"
  /\ \/ runRow' = [runRow EXCEPT ![r] = "RUNNING"] /\ Fetch(r, "accounts")
     \/ GoOn(r, "thrown") /\ UNCHANGED runRow
  /\ UNCHANGED <<rows, cached, usage>>

-----------------------------------------------------------------------------
(* A question to the provider, the same way in every stage *)

Question(r) == <<research[r].stage, research[r].at>>
Then == [accounts |-> "next", intelligence |-> "insert", contacts |-> "contact",
         enriched |-> "role", signals |-> "signal"]

LookUpCache(r) ==
  /\ research[r].pc = "lookup"
  /\ IF Question(r) \in DOMAIN cached
       THEN research' = [research EXCEPT ![r].pc = Then[research[r].stage],
                                         ![r].fact = cached[Question(r)]]
       ELSE GoOn(r, "quota")
  /\ UNCHANGED <<runRow, rows, cached, usage>>

CheckQuota(r) ==
  /\ research[r].pc = "quota"
  /\ IF usage < ResearchQuota THEN GoOn(r, "count") ELSE Fails(r)
  /\ UNCHANGED <<runRow, rows, cached, usage>>

RecordUsage(r) ==
  /\ research[r].pc = "count"
  /\ usage' = usage + 1
  /\ GoOn(r, "ask")
  /\ UNCHANGED <<runRow, rows, cached>>

\* The answer is cached for the tenant's workspace before anything is made of it.
AskProvider(r) ==
  /\ research[r].pc = "ask"
  /\ \/ \E fact \in Facts :
          /\ cached' = [k \in DOMAIN cached \cup {Question(r)} |->
                          IF k = Question(r) THEN fact ELSE cached[k]]
          /\ research' = [research EXCEPT ![r].pc = Then[research[r].stage], ![r].fact = fact]
     \/ "provider" \in ResearchFaults /\ Fails(r) /\ UNCHANGED cached
  /\ UNCHANGED <<runRow, rows, usage>>

CacheExpires ==
  /\ "expiry" \in ResearchFaults /\ DOMAIN cached # {}
  /\ cached' = [k \in {} |-> "none"]
  /\ UNCHANGED <<research, runRow, rows, usage>>

-----------------------------------------------------------------------------
(* Accounts *)

NextAccount(r) ==
  /\ research[r].pc = "next"
  /\ research' = [research EXCEPT ![r].at = @ + 1,
       ![r].pc = IF research[r].at = AccountCount THEN "succeed" ELSE "account"]
  /\ UNCHANGED <<runRow, rows, cached, usage>>

\* save inserts an aggregate that was never loaded, and its key is the provider's name
\* for it: a row that is there already is an error.
Exists(table, r) == table[research[r].at].status # "NONE"
Inserts(table, r, status) ==
  /\ ~Exists(table, r)
  /\ table' = [table EXCEPT ![research[r].at].status = status, ![research[r].at].by = r]

\* The business system's duplicates are saved as such and passed over.
MatchAccount(r) ==
  /\ research[r].pc = "account"
  /\ \/ Inserts(accountRow, r, "DUPLICATE") /\ GoOn(r, "next")
     \/ Exists(accountRow, r) /\ Fails(r) /\ UNCHANGED accountRow
     \/ Fetch(r, "intelligence") /\ UNCHANGED accountRow
  /\ UNCHANGED <<runRow, contactRows, leadRows, evidence, signalRow, cached, usage>>

InsertAccount(r) ==
  /\ research[r].pc = "insert"
  /\ \/ Inserts(accountRow, r, "DISCOVERED") /\ GoOn(r, "claim")
     \/ Exists(accountRow, r) /\ Fails(r) /\ UNCHANGED accountRow
  /\ UNCHANGED <<runRow, contactRows, leadRows, evidence, signalRow, cached, usage>>

\* A fingerprint is made of the claim, its value and its source, without the account.
Observation(r, type) == [type |-> type, fact |-> research[r].fact, of |-> research[r].at, by |-> r]
AlreadyKnown(claim) == \E e \in evidence : e.type = claim.type /\ e.fact = claim.fact

\* Variant: evidence that is there already is passed over.
SavesEvidence_Ignoring(r, type, pc) ==
  evidence' = (IF AlreadyKnown(Observation(r, type)) THEN evidence ELSE evidence \cup {Observation(r, type)})
  /\ GoOn(r, pc)
SavesEvidence(r, type, pc) ==
  IF AlreadyKnown(Observation(r, type)) THEN Fails(r) /\ UNCHANGED evidence
  ELSE evidence' = evidence \cup {Observation(r, type)} /\ GoOn(r, pc)

\* The claims of an account, of which one stands for all; none if nothing is known.
Known(r) == research[r].fact # "unknown"
SaveClaims(r) ==
  /\ research[r].pc = "claim"
  /\ \/ Known(r) /\ SavesEvidence(r, "INDUSTRY", "enrich")
     \/ ~Known(r) /\ GoOn(r, "enrich") /\ UNCHANGED evidence
  /\ UNCHANGED <<runRow, accountRow, contactRows, leadRows, signalRow, cached, usage>>

EnrichAccount(r) ==
  /\ research[r].pc = "enrich"
  /\ accountRow' = [accountRow EXCEPT ![research[r].at].status = "ENRICHED",
                                       ![research[r].at].refers = Known(r)]
  /\ Fetch(r, "contacts")
  /\ UNCHANGED <<runRow, contactRows, leadRows, evidence, signalRow, cached, usage>>

-----------------------------------------------------------------------------
(* Contacts and leads *)

\* A contact the business system has is passed over, without a row.
MatchContact(r) ==
  /\ research[r].pc = "contact"
  /\ \/ Fetch(r, "enriched")
     \/ research' = [research EXCEPT ![r].pc = "next", ![r].skipped = @ \cup {research[r].at}]
  /\ UNCHANGED <<runRow, rows, cached, usage>>

SaveRole(r) ==
  /\ research[r].pc = "role"
  /\ SavesEvidence(r, "CONTACT_ROLE", "person")
  /\ UNCHANGED <<runRow, accountRow, contactRows, leadRows, signalRow, cached, usage>>

\* Whether the provider validated the contact is left out.
\* Without a provider of signals the lead is evaluated on what there is.
InsertFoundContact(r) ==
  /\ research[r].pc = "person"
  /\ \/ /\ Inserts(contactRows, r, "ENRICHED")
        /\ (Fetch(r, "signals") \/ GoOn(r, "lead"))
     \/ Exists(contactRows, r) /\ Fails(r) /\ UNCHANGED contactRows
  /\ UNCHANGED <<runRow, accountRow, leadRows, evidence, signalRow, cached, usage>>

\* The evidence of a signal is looked up, and may be another account's.
FindSignalEvidence(r) ==
  /\ research[r].pc = "signal"
  /\ GoOn(r, IF AlreadyKnown(Observation(r, "BUYING_SIGNAL")) THEN "detect" ELSE "proof")
  /\ UNCHANGED <<runRow, rows, cached, usage>>

SaveSignalEvidence(r) ==
  /\ research[r].pc = "proof"
  /\ SavesEvidence(r, "BUYING_SIGNAL", "detect")
  /\ UNCHANGED <<runRow, accountRow, contactRows, leadRows, signalRow, cached, usage>>

\* A signal is known by its account and what was observed; one that is there stays.
SignalOf(r) == <<research[r].at, research[r].fact>>
DetectSignal(r) ==
  /\ research[r].pc = "detect"
  /\ signalRow' = signalRow \cup {SignalOf(r)}
  /\ GoOn(r, "lead")
  /\ UNCHANGED <<runRow, accountRow, contactRows, leadRows, evidence, cached, usage>>

\* A failed filter disqualifies whatever the score; an evaluation that is refused is not
\* noticed, and the lead is saved as it was created.
Outcome(passed, score) ==
  IF ~passed THEN "NOT_QUALIFIED"
  ELSE [high |-> "QUALIFIED", middle |-> "NEEDS_REVIEW", low |-> "NOT_QUALIFIED",
        refused |-> "PENDING"][score]

\* The score is of the profile's filters, the signals and the evidence.
LeadOutcomes == {Outcome(passed, score) : passed \in BOOLEAN, score \in Scores}

\* The events are published after the save: one that fails fails the run.
SaveScoredLead(r) ==
  /\ research[r].pc = "lead"
  /\ \/ /\ \E outcome \in LeadOutcomes : Inserts(leadRows, r, outcome)
        /\ \/ GoOn(r, "next")
           \/ "database" \in ResearchFaults /\ Fails(r)
     \/ Exists(leadRows, r) /\ Fails(r) /\ UNCHANGED leadRows
  /\ UNCHANGED <<runRow, accountRow, contactRows, evidence, signalRow, cached, usage>>

-----------------------------------------------------------------------------
(* The end of a run *)

\* The run has succeeded in memory when it is saved: if that fails the catch cannot fail
\* it any more, and the row stays RUNNING.
Succeed(r) ==
  /\ research[r].pc = "succeed"
  /\ \/ runRow' = [runRow EXCEPT ![r] = "SUCCEEDED"] /\ GoOn(r, "done")
     \/ "database" \in ResearchFaults /\ GoOn(r, "thrown") /\ UNCHANGED runRow
  /\ UNCHANGED <<rows, cached, usage>>

CatchFailure(r) ==
  /\ research[r].pc = "catch"
  /\ \/ runRow' = [runRow EXCEPT ![r] = "FAILED"]
     \/ "database" \in ResearchFaults /\ UNCHANGED runRow
  /\ GoOn(r, "thrown")
  /\ UNCHANGED <<rows, cached, usage>>

Awaits(r) == research[r].pc \notin {"idle", "next", "catch", "succeed", "done", "thrown"}

DatabaseThrows(r) ==
  /\ "database" \in ResearchFaults /\ Awaits(r)
  /\ Fails(r)
  /\ UNCHANGED <<runRow, rows, cached, usage>>

CrashResearch(r) ==
  /\ "crash" \in ResearchFaults /\ Awaits(r)
  /\ GoOn(r, "thrown")
  /\ UNCHANGED <<runRow, rows, cached, usage>>

ResearchNext ==
  \/ CacheExpires
  \/ \E r \in Researches :
       \/ StartResearch(r) \/ LookUpCache(r) \/ CheckQuota(r) \/ RecordUsage(r) \/ AskProvider(r)
       \/ NextAccount(r) \/ MatchAccount(r) \/ InsertAccount(r) \/ SaveClaims(r)
       \/ EnrichAccount(r) \/ MatchContact(r) \/ SaveRole(r) \/ InsertFoundContact(r)
       \/ FindSignalEvidence(r) \/ SaveSignalEvidence(r) \/ DetectSignal(r) \/ SaveScoredLead(r)
       \/ Succeed(r) \/ CatchFailure(r) \/ DatabaseThrows(r) \/ CrashResearch(r)

ResearchSpec == ResearchInit /\ [][ResearchNext]_researchVars

-----------------------------------------------------------------------------
\* A run that SUCCEEDED wrote every account it found: a duplicate, or an enriched account
\* whose references lead to evidence of its own and, unless its contact was passed over, a
\* contact and a lead, all of this run, whatever other runs did meanwhile.
SucceededRunIsWhole ==
  \A r \in Researches, a \in Found : runRow[r] = "SUCCEEDED" =>
    /\ accountRow[a].by = r
    /\ accountRow[a].status = "ENRICHED" =>
         /\ accountRow[a].refers => \E e \in evidence : e.type = "INDUSTRY" /\ e.of = a /\ e.by = r
         /\ a \in research[r].skipped \/ (contactRows[a].by = r /\ leadRows[a].by = r)
    /\ accountRow[a].status \in {"ENRICHED", "DUPLICATE"}
=============================================================================
