--------------------------- MODULE KnowledgeStore ----------------------------
(* Durable memory and knowledge: the write gate of memories, the ingestion of *)
(* a source, the embedding profile both embed with, and retrieval.  Writes    *)
(* and ingestions are Temporal activities: an attempt that fails, dies or     *)
(* takes too long is followed by another.  A database call is a transaction.  *)
EXTENDS Naturals, FiniteSets

CONSTANTS
  Writes,        \* memory writes; each has its idempotency key
  Ingestions,    \* ingestions of one source
  Contents,      \* contents of that source: of each, the chunks that may be kept
  ChunkCount,    \* the chunks a content is cut into
  Profiles,      \* embedding profiles, numbered
  MaxAttempts,   \* maximumAttempts of the activities
  StoreFaults    \* "database", "embedding": a call throws; "blank": an embedding comes back
                 \* without a vector; "crash": the worker dies

ASSUME ChunksAssumption ==
  ChunkCount \in Nat \ {0} /\ Contents \subseteq SUBSET (1..ChunkCount)
ASSUME ProfilesAssumption == Profiles \subseteq Nat \ {0}
ASSUME AttemptsAssumption == MaxAttempts \in Nat \ {0}

VARIABLES
  profile,       \* the lifecycle of each profile
  serves,        \* the profile the worker's embedding provider was built for, or 0
  memory,        \* what each write asks for: the name of its entry, and whether it is fit
  material,      \* what each ingestion asks for: its content and its key
  attempt,       \* the attempts of every activity
  entries,       \* memory.entries: <<name, the attempt that wrote it>>
  vectors,       \* memory.memory_embeddings: <<entry, profile>>
  audits,        \* memory.write_requests
  version,       \* the row of knowledge.source_versions
  chunks,        \* knowledge.chunks of that version
  chunkVectors,  \* knowledge.chunk_embeddings: <<chunk, profile>>
  ingestionRuns  \* knowledge.ingestion_runs

requested == <<memory, material>>
written   == <<entries, vectors, audits>>
ingested  == <<version, chunks, chunkVectors, ingestionRuns>>
storeVars == <<profile, serves, requested, attempt, written, ingested>>

Attempts  == (Writes \cup Ingestions) \X (1..MaxAttempts)
NoAttempt == [pc |-> "idle", seq |-> 0, kept |-> 0, profile |-> 0, blank |-> FALSE]
NoVersion == [content |-> {}, by |-> <<>>]
Ended     == {"done", "failed", "lost"}

\* One profile is ACTIVE and the others wait for their promotion.
StoreInit ==
  /\ profile = [p \in Profiles |-> IF \E q \in Profiles : q < p THEN "READY" ELSE "ACTIVE"]
  /\ serves = 0
  /\ memory = [w \in Writes |-> [name |-> "none", fit |-> TRUE]]
  /\ material = [j \in Ingestions |-> [content |-> {}, key |-> "none"]]
  /\ attempt = [t \in Attempts |-> NoAttempt]
  /\ entries = {} /\ vectors = {} /\ audits = {}
  /\ version = NoVersion /\ chunks = {} /\ chunkVectors = {}
  /\ ingestionRuns = [t \in {} |-> NoVersion]

Step(t, pc) == attempt' = [attempt EXCEPT ![t].pc = pc]

-----------------------------------------------------------------------------
(* Embedding profiles and the worker's provider *)

\* DRAFT and INDEXING come before READY, RETIRED after DRAINING: none of them embeds.
After == [READY |-> "ACTIVE", ACTIVE |-> "DRAINING"]
Active == {p \in Profiles : profile[p] = "ACTIVE"}

\* An operator's UPDATE, under the trigger and the unique index on the active row.
PromoteProfile(p) ==
  /\ profile[p] \in DOMAIN After
  /\ After[profile[p]] = "ACTIVE" => Active = {}
  /\ profile' = [profile EXCEPT ![p] = After[@]]
  /\ UNCHANGED <<serves, requested, attempt, written, ingested>>

\* validateEmbeddingRuntime: one active profile, and a provider for it; or no worker.
BootWorker ==
  /\ serves = 0 /\ Active # {}
  /\ serves' \in Active
  /\ UNCHANGED <<profile, requested, attempt, written, ingested>>

Running(t) == attempt[t].pc \notin Ended \cup {"idle"}

\* The worker dies: its attempts are lost, with no catch.
CrashWorker ==
  /\ "crash" \in StoreFaults /\ serves # 0
  /\ serves' = 0
  /\ attempt' = [t \in Attempts |-> IF Running(t) THEN [attempt[t] EXCEPT !.pc = "lost"]
                                                  ELSE attempt[t]]
  /\ UNCHANGED <<profile, requested, written, ingested>>

\* EmbeddingRouter.embed: the active profile is read, the provider must serve that one
\* and answers for it; the profile may change before the vector is stored.  An answer
\* without vectors passes, and the caller goes on without one.
Embed(t, pc, without) ==
  /\ serves # 0 /\ Active = {serves}
  /\ \E blank \in IF "blank" \in StoreFaults THEN BOOLEAN ELSE {FALSE} :
       attempt' = [attempt EXCEPT ![t].pc = IF blank THEN without ELSE pc,
                                  ![t].profile = serves, ![t].kept = @ + 1,
                                  ![t].blank = @ \/ blank]

-----------------------------------------------------------------------------
(* Activities *)

\* Temporal starts the next attempt when one has failed, was lost or is too slow;
\* a slow one goes on beside it.
MayStart(t) ==
  /\ serves # 0 /\ attempt[t].pc = "idle"
  /\ t[2] > 1 => attempt[<<t[1], t[2] - 1>>].pc \notin {"idle", "done"}

StartWrite(w, n) ==
  /\ MayStart(<<w, n>>)
  /\ Step(<<w, n>>, "gate")
  /\ IF n > 1 THEN UNCHANGED memory
     ELSE \E name \in {"new", "given"}, fit \in BOOLEAN :
            memory' = [memory EXCEPT ![w] = [name |-> name, fit |-> fit]]
  /\ UNCHANGED <<profile, serves, material, written, ingested>>

\* The attempt is part of the key from the second one on.
StartIngestion(j, n) ==
  /\ MayStart(<<j, n>>)
  /\ Step(<<j, n>>, "run")
  /\ IF n > 1 THEN UNCHANGED material
     ELSE \E content \in Contents, key \in Ingestions :
            material' = [material EXCEPT ![j] = [content |-> content, key |-> key]]
  /\ UNCHANGED <<profile, serves, memory, written, ingested>>

-----------------------------------------------------------------------------
(* MemoryWritePolicyService.write *)

Name(t) == IF memory[t[1]].name = "given" THEN <<"given">> ELSE t
Audited(t) == \E a \in audits : a.key = t[1]
Audit(t, decision) ==
  audits' = audits \cup {[key |-> t[1], decision |-> decision, by |-> t]}

\* The workspace, then secrets, reasoning and empty contents, audited as refused.
PassGate(t) ==
  /\ attempt[t].pc = "gate"
  /\ IF memory[t[1]].fit THEN Step(t, "entry") /\ UNCHANGED audits
     ELSE ~Audited(t) /\ Audit(t, "REJECTED") /\ Step(t, "done")
  /\ UNCHANGED <<profile, serves, requested, entries, vectors, ingested>>

\* Always version 1: a name that is there already is refused by its key.
InsertEntry(t) ==
  /\ attempt[t].pc = "entry" /\ Name(t) \notin entries
  /\ entries' = entries \cup {Name(t)}
  /\ Step(t, "embed")
  /\ UNCHANGED <<profile, serves, requested, vectors, audits, ingested>>

EmbedEntry(t) ==
  /\ attempt[t].pc = "embed" /\ Embed(t, "vector", "audit")
  /\ UNCHANGED <<profile, serves, requested, written, ingested>>

InsertEmbedding(t) ==
  /\ attempt[t].pc = "vector"
  /\ vectors' = vectors \cup {<<Name(t), attempt[t].profile>>}
  /\ Step(t, "audit")
  /\ UNCHANGED <<profile, serves, requested, entries, audits, ingested>>

\* Variant: the answer is audited before it is embedded.
AuditedAt_Early == "embed"
AuditedAt == "audit"

\* The key is unique among the audits, so a second attempt's audit is refused.
AuditWrite(t) ==
  /\ attempt[t].pc = AuditedAt /\ ~Audited(t)
  /\ Audit(t, "ACCEPTED")
  /\ Step(t, "done")
  /\ UNCHANGED <<profile, serves, requested, entries, vectors, ingested>>

WriteThrows(t) ==
  /\ \/ attempt[t].pc = "entry" /\ Name(t) \in entries
     \/ attempt[t].pc = "embed" /\ (Active # {serves} \/ "embedding" \in StoreFaults)
     \/ attempt[t].pc = "audit" /\ Audited(t)
     \/ attempt[t].pc = "gate" /\ ~memory[t[1]].fit /\ Audited(t)
     \/ attempt[t].pc \in {"gate", "entry", "vector", "audit"} /\ "database" \in StoreFaults
  /\ Step(t, "failed")
  /\ UNCHANGED <<profile, serves, requested, written, ingested>>

-----------------------------------------------------------------------------
(* KnowledgeIngestionService.ingest *)

RunKey(t) == <<material[t[1]].key, t[2]>>
SetRun(t, status, dedup) ==
  ingestionRuns' = [ingestionRuns EXCEPT ![t] = [@ EXCEPT !.status = status, !.dedup = dedup]]

\* A run with the key of another answers DEDUPED, whatever became of that one.
StartIngestionRun(t) ==
  /\ attempt[t].pc = "run"
  /\ IF \E u \in DOMAIN ingestionRuns : RunKey(u) = RunKey(t)
       THEN Step(t, "done") /\ UNCHANGED ingestionRuns
       ELSE /\ ingestionRuns' = [u \in DOMAIN ingestionRuns \cup {t} |->
                 IF u = t THEN [status |-> "RUNNING", dedup |-> FALSE] ELSE ingestionRuns[u]]
            /\ Step(t, "version")
  /\ UNCHANGED <<profile, serves, requested, written, version, chunks, chunkVectors>>

\* The content of an earlier ingestion is not stored again, and the run is complete.
\* The version is always 1, so another content of the source is refused.
InsertSourceVersion(t) ==
  /\ attempt[t].pc = "version"
  /\ \/ /\ version = NoVersion
        /\ version' = [content |-> material[t[1]].content, by |-> t]
        /\ Step(t, "chunk") /\ UNCHANGED ingestionRuns
     \/ /\ version # NoVersion /\ version.content = material[t[1]].content
        /\ SetRun(t, "COMPLETED", TRUE)
        /\ Step(t, "done") /\ UNCHANGED version
  /\ UNCHANGED <<profile, serves, requested, written, chunks, chunkVectors>>

\* The next chunk: kept ones are inserted, secrets and empty ones are not.
InsertChunk(t) ==
  /\ attempt[t].pc = "chunk" /\ attempt[t].seq < ChunkCount
  /\ LET seq == attempt[t].seq + 1
         keeps == seq \in material[t[1]].content
     IN /\ chunks' = IF keeps THEN chunks \cup {seq} ELSE chunks
        /\ attempt' = [attempt EXCEPT ![t].seq = seq,
                                        ![t].pc = IF keeps THEN "embedChunk" ELSE "chunk"]
  /\ UNCHANGED <<profile, serves, requested, written, version, chunkVectors, ingestionRuns>>

EmbedChunk(t) ==
  /\ attempt[t].pc = "embedChunk" /\ Embed(t, "chunkVector", "chunk")
  /\ UNCHANGED <<profile, serves, requested, written, ingested>>

InsertChunkEmbedding(t) ==
  /\ attempt[t].pc = "chunkVector"
  /\ chunkVectors' = chunkVectors \cup {<<attempt[t].seq, attempt[t].profile>>}
  /\ Step(t, "chunk")
  /\ UNCHANGED <<profile, serves, requested, written, version, chunks, ingestionRuns>>

CompleteIngestionRun(t) ==
  /\ attempt[t].pc = "chunk" /\ attempt[t].seq = ChunkCount
  /\ SetRun(t, IF attempt[t].kept = 0 THEN "PARTIAL" ELSE "COMPLETED", FALSE)
  /\ Step(t, "done")
  /\ UNCHANGED <<profile, serves, requested, written, version, chunks, chunkVectors>>

\* Variant: the catch completes the run.
Caught_Completed == "COMPLETED"
Caught == "FAILED"

VersionRefused(t) == version # NoVersion /\ version.content # material[t[1]].content
IngestionFails(t) ==
  /\ \/ attempt[t].pc = "version" /\ VersionRefused(t)
     \/ attempt[t].pc = "embedChunk" /\ (Active # {serves} \/ "embedding" \in StoreFaults)
     \/ attempt[t].pc \in {"version", "chunk", "chunkVector"} /\ "database" \in StoreFaults
  /\ SetRun(t, Caught, FALSE)
  /\ Step(t, "failed")
  /\ UNCHANGED <<profile, serves, requested, written, version, chunks, chunkVectors>>

\* The run row cannot be written, or the catch's own UPDATE fails too.
IngestionThrows(t) ==
  /\ "database" \in StoreFaults
  /\ attempt[t].pc \in {"run", "version", "chunk", "chunkVector"}
  /\ Step(t, "failed")
  /\ UNCHANGED <<profile, serves, requested, written, ingested>>

-----------------------------------------------------------------------------
WriteStep(t) ==
  \/ PassGate(t) \/ InsertEntry(t) \/ EmbedEntry(t) \/ InsertEmbedding(t) \/ AuditWrite(t)
  \/ WriteThrows(t)

IngestionStep(t) ==
  \/ StartIngestionRun(t) \/ InsertSourceVersion(t) \/ InsertChunk(t) \/ EmbedChunk(t)
  \/ InsertChunkEmbedding(t) \/ CompleteIngestionRun(t) \/ IngestionFails(t) \/ IngestionThrows(t)

ProfileStep == BootWorker \/ CrashWorker \/ \E p \in Profiles : PromoteProfile(p)
MemoryNext == \E w \in Writes, n \in 1..MaxAttempts : StartWrite(w, n) \/ WriteStep(<<w, n>>)
KnowledgeNext ==
  \E j \in Ingestions, n \in 1..MaxAttempts : StartIngestion(j, n) \/ IngestionStep(<<j, n>>)

StoreNext == ProfileStep \/ MemoryNext \/ KnowledgeNext
StoreSpec == StoreInit /\ [][StoreNext]_storeVars

-----------------------------------------------------------------------------
\* A write that was audited as accepted left its entry with a vector, so a search by
\* meaning can find it, unless the provider gave none (entry, embedding and audit are
\* three transactions, and attempts overlap).
AcceptedIsSearchable ==
  \A a \in audits : a.decision = "ACCEPTED"
    => /\ Name(a.by) \in entries
       /\ attempt[a.by].blank \/ \E p \in Profiles : <<Name(a.by), p>> \in vectors

\* A run that ended COMPLETED without a duplicate stored every chunk it may keep, each
\* with the vector the provider gave, whatever failed beside it (the catch, the attempts' own runs).
CompletedRunsAreWhole ==
  \A t \in DOMAIN ingestionRuns :
    ingestionRuns[t].status = "COMPLETED" /\ ~ingestionRuns[t].dedup
      => \A seq \in material[t[1]].content :
           /\ seq \in chunks
           /\ attempt[t].blank \/ \E p \in Profiles : <<seq, p>> \in chunkVectors
=============================================================================
