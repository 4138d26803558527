----------------------------- MODULE Extraction -----------------------------
(***************************************************************************)
(* ExtractionPipelineCoordinator.extract: one extraction asks the model    *)
(* for entities and then for content. A stage may read stored records      *)
(* through a tool gateway, which remembers what was read; before anything  *)
(* is planned the coordinator compares the reads with the store, and runs  *)
(* the stages again whose reads have changed. Meanwhile others write the   *)
(* store, and the user may cancel. The model is external: any turn may     *)
(* answer, call tools, answer in a broken format or fail.                  *)
(* A record stands for its revision; a read of several lists is one step.  *)
(***************************************************************************)
EXTENDS Naturals, Sequences, FiniteSets

CONSTANTS Records,       \* stored records the tools can read
          FactRecords,   \* the facts among them
          MaxStores,     \* bound on the writes of others
          MaxRounds      \* tool rounds of a stage

ASSUME FactsAreRecords == FactRecords \subseteq Records

VARIABLES stored,       \* the revision of each record
          extraction    \* the extraction in flight
extractionVars == <<stored, extraction>>

Stages == {"single", "repair", "entities", "content"}
Revisions == Nat \ {0}
NoRevisions == [r \in Records |-> 0]
(* issued: the revision a record was given out with; held: the one its     *)
(* contents were read at; shown: what the prefetched input of the gateway  *)
(* lists.                                                                  *)
Gateway(shown) == [seeded |-> FALSE, shown |-> shown, issued |-> NoRevisions, held |-> NoRevisions, reads |-> {}]
(* mode: the agent's two stages, the same with the tools turned off, or    *)
(* the one stage that single extraction, a stage retry or a repair runs.   *)
Asked(mode, stage, mentioned) ==
    [pc |-> "prefetch", mode |-> mode, stage |-> stage, mentioned |-> mentioned, gates |-> << >>,
     counts |-> [s \in Stages |-> 0], result |-> [s \in Stages |-> "none"], basis |-> [s \in Stages |-> {}],
     rounds |-> 0, told |-> FALSE, session |-> FALSE, open |-> FALSE, aborted |-> FALSE,
     rerun |-> {}, retried |-> {}, stale |-> {}, compared |-> NoRevisions]

ExtractionTypeOK ==
    /\ stored \in [Records -> Revisions]
    /\ extraction.pc \in {"prefetch", "model", "tools", "check", "refresh", "recheck", "plan", "planned", "thrown"}
    /\ Len(extraction.gates) <= 2 /\ extraction.stale \subseteq Stages
    /\ \A s \in Stages : /\ extraction.result[s] \in {"none", "completed", "failed"}
                         /\ extraction.basis[s] \subseteq Records \X Revisions

ExtractionInit ==
    /\ stored = [r \in Records |-> 1]
    /\ \E mentioned \in {{}, Records} :   \* by the sources
         \/ extraction \in {Asked("agent", "entities", mentioned), Asked("untooled", "entities", mentioned)}
         \/ \E s \in Stages : extraction = Asked("alone", s, mentioned)

-----------------------------------------------------------------------------
(* The stages, as functions of the extraction.                             *)
canRetry(x, s) == x.counts[s] < 2

Throws(x) == [x EXCEPT !.pc = "thrown", !.gates = << >>]
(* The runner refuses an agent stage without tools before it calls the     *)
(* model.                                                                  *)
Enter(x, s) == [x EXCEPT !.pc = "model", !.stage = s, !.counts[s] = @ + 1,
                         !.rounds = 0, !.told = FALSE, !.session = FALSE]
NextStage(x) ==
    IF x.mode = "alone" THEN [x EXCEPT !.pc = "check"]
    ELSE IF x.retried = {}
         THEN IF x.stage = "entities" THEN Enter(x, "content") ELSE [x EXCEPT !.pc = "check"]
         ELSE IF x.stage = "entities" /\ "content" \in x.retried THEN Enter(x, "content")
              ELSE [x EXCEPT !.pc = "recheck"]
(* safeRun: a failed stage of the agent is a result, unless it was         *)
(* cancelled.                                                              *)
Failed(x, cancelled) ==
    IF x.mode = "alone" \/ x.aborted \/ cancelled THEN Throws(x)
    ELSE NextStage([x EXCEPT !.result[x.stage] = "failed", !.basis[x.stage] = {}])
Closed(x) == [x EXCEPT !.session = FALSE, !.open = @ /\ ~x.session, !.rounds = 0, !.told = FALSE]
(* runStage: only a broken format is asked for again.                      *)
AttemptFails(x, format, cancelled) ==
    LET y == Closed(x)
    IN  IF format /\ ~y.aborted /\ canRetry(y, y.stage) THEN Enter(y, y.stage) ELSE Failed(y, cancelled)
Gate(x) == x.gates[Len(x.gates)]   \* the gateway in use
Held(x, s) == {<<r, Gate(x).held[r]>> : r \in {q \in Records : <<s, q>> \in Gate(x).reads}}
(* Content names the people and places of the entities stage.              *)
Completed(x) ==
    LET s == x.stage
    IN  NextStage([x EXCEPT !.result[s] = "completed", !.session = FALSE, !.open = FALSE, !.rounds = 0, !.told = FALSE,
                            !.basis[s] = Held(x, s) \cup IF s = "content" THEN x.basis["entities"] ELSE {}])

-----------------------------------------------------------------------------
(* DeterministicContextPrefetcher: the records that the sources mention.   *)
Prefetched(x) == Append(x.gates, Gateway([r \in Records |-> IF r \in x.mentioned THEN stored[r] ELSE 0]))
Prefetch ==
    /\ extraction.pc = "prefetch"
    /\ LET x == [extraction EXCEPT !.gates = Prefetched(extraction)]
       IN  extraction' = IF x.aborted THEN Throws(x) ELSE Enter(x, x.stage)
    /\ UNCHANGED stored

Turn(x) == x.pc = "model" /\ x.mode # "untooled"
RefuseUntooled ==
    /\ extraction.pc = "model" /\ extraction.mode = "untooled"
    /\ extraction' = AttemptFails(extraction, FALSE, FALSE) /\ UNCHANGED stored
TurnAnswers == Turn(extraction) /\ extraction' = Completed(extraction) /\ UNCHANGED stored
TurnFails(format, cancelled) ==
    /\ Turn(extraction) /\ ~(format /\ cancelled)
    /\ extraction' = AttemptFails(extraction, format, cancelled) /\ UNCHANGED stored
TurnCallsTools ==
    /\ Turn(extraction) /\ extraction.mode = "agent"
    /\ LET x == [extraction EXCEPT !.rounds = @ + 1, !.session = TRUE, !.open = TRUE]
       IN  extraction' = IF x.rounds > MaxRounds THEN AttemptFails(x, FALSE, FALSE) ELSE [x EXCEPT !.pc = "tools"]
    /\ UNCHANGED stored

(* The gateway gives out what the prompt lists with the revision of the    *)
(* prompt, anything else with its revision at the first query, and         *)
(* remembers who read it.                                                  *)
Issue(g, rs) ==
    LET listed(r) == ~g.seeded /\ g.shown[r] > 0
        fresh(r) == g.issued[r] = 0 /\ (listed(r) \/ r \in rs)
    IN  [g EXCEPT !.seeded = TRUE, !.shown = NoRevisions,
                  !.issued = [r \in Records |-> IF ~fresh(r) THEN @[r] ELSE IF listed(r) THEN g.shown[r] ELSE stored[r]],
                  !.held = [r \in Records |-> IF fresh(r) THEN stored[r] ELSE @[r]]]
executeBatch(rs) ==
    /\ extraction.pc = "tools"
    /\ LET x == extraction
           g == Issue(Gate(x), rs)
       IN  extraction' = IF x.aborted THEN AttemptFails(x, FALSE, TRUE)
                         ELSE [x EXCEPT !.pc = "model",
                                        !.gates[Len(x.gates)] = [g EXCEPT !.reads = @ \cup ({x.stage} \X rs)]]
    /\ UNCHANGED stored
(* The first call with bad arguments is answered with the complaint.       *)
RejectArguments ==
    /\ extraction.pc = "tools" /\ ~extraction.aborted
    /\ extraction' = IF extraction.told THEN AttemptFails(extraction, FALSE, FALSE)
                     ELSE [extraction EXCEPT !.told = TRUE, !.pc = "model"]
    /\ UNCHANGED stored

-----------------------------------------------------------------------------
(* verifyReadSet and the reruns.                                           *)
StaleReads(g, ignored) == {e \in g.reads : e[1] \notin ignored /\ g.issued[e[2]] # stored[e[2]]}
ReadersOf(entries) == {e[1] : e \in entries}
\* Mutant: content may rest on entities of another run.
ReadersAlone(entries) == ReadersOf({e \in entries : e[2] \notin FactRecords})
stagesRequiringRerun(entries) ==
    LET readers == ReadersOf({e \in entries : e[2] \notin FactRecords})
    IN  readers \cup IF "entities" \in readers THEN {"content"} ELSE {}
CheckReads ==
    /\ extraction.pc = "check"
    /\ LET entries == StaleReads(extraction.gates[1], {})
           rerun == stagesRequiringRerun(entries)
       IN  extraction' = [extraction EXCEPT !.pc = IF rerun = {} THEN "plan" ELSE "refresh", !.rerun = rerun,
                                            !.stale = rerun \cup ReadersOf(entries), !.compared = stored]
    /\ UNCHANGED stored
Refresh ==
    /\ extraction.pc = "refresh"
    /\ LET retried == {s \in extraction.rerun : canRetry(extraction, s)}
           x == [extraction EXCEPT !.gates = Prefetched(extraction), !.retried = retried]
       IN  extraction' = IF "entities" \in retried THEN Enter(x, "entities")
                         ELSE IF "content" \in retried THEN Enter(x, "content") ELSE [x EXCEPT !.pc = "recheck"]
    /\ UNCHANGED stored
RecheckReads ==
    /\ extraction.pc = "recheck"
    /\ LET entries == StaleReads(extraction.gates[1], extraction.retried) \cup StaleReads(extraction.gates[2], {})
       IN  extraction' = [extraction EXCEPT !.pc = "plan", !.compared = stored,
                            !.stale = stagesRequiringRerun(entries) \cup ReadersOf(entries)
                                      \cup (extraction.rerun \ extraction.retried)]
    /\ UNCHANGED stored
(* One failed stage leaves the output of the other; two leave none.        *)
Plan ==
    /\ extraction.pc = "plan"
    /\ extraction' = IF extraction.mode # "alone" /\ \A s \in {"entities", "content"} : extraction.result[s] = "failed"
                     THEN Throws(extraction) ELSE [extraction EXCEPT !.pc = "planned", !.gates = << >>]
    /\ UNCHANGED stored
(* planUpdates: the claims of a stage with stale reads wait for a review.  *)
ClaimsAccepted(x) == x.pc = "planned" /\ x.result["content"] = "completed" /\ "content" \notin x.stale

-----------------------------------------------------------------------------
Ended == extraction.pc \in {"planned", "thrown"}
StoreRecord(r) ==
    /\ ~Ended /\ Cardinality(UNION {{q} \X (2..stored[q]) : q \in Records}) < MaxStores
    /\ stored' = [stored EXCEPT ![r] = @ + 1] /\ UNCHANGED extraction
CancelExtraction ==
    /\ ~extraction.aborted /\ ~Ended
    /\ extraction' = [extraction EXCEPT !.aborted = TRUE] /\ UNCHANGED stored

ExtractionNext ==
    \/ Prefetch \/ RefuseUntooled \/ TurnAnswers \/ TurnCallsTools \/ RejectArguments
    \/ \E format, cancelled \in BOOLEAN : TurnFails(format, cancelled)
    \/ \E rs \in SUBSET Records : executeBatch(rs)
    \/ CheckReads \/ Refresh \/ RecheckReads \/ Plan
    \/ \E r \in Records : StoreRecord(r)
    \/ CancelExtraction
ExtractionSpec == ExtractionInit /\ [][ExtractionNext]_extractionVars

-----------------------------------------------------------------------------
(* Properties.                                                             *)
\* Claims that go on without a review rest on records that had not changed when
\* they were compared: those that content read, and those behind the entities it
\* names. Facts are read again by the planner (extraction-pipeline.ts:140-142).
ClaimsRestOnCurrentReads ==
    ClaimsAccepted(extraction) =>
        \A read \in extraction.basis["content"] :
            read[1] \in FactRecords \/ read[2] = extraction.compared[read[1]]

\* A stage is sent to the model twice at most, for a broken format and for changed
\* reads together.
StageBudget == \A s \in Stages : extraction.counts[s] <= 2

\* The provider holds a tool session only while a stage uses it: whatever ends the
\* attempt, too many rounds, bad arguments or a cancel, closes it.
SessionsClosed == extraction.open => extraction.pc \in {"model", "tools"} /\ extraction.session

\* One extraction, from its prefetched context to its plan: what it accepts rests
\* on current reads, it asks the model no more often than it may, and it leaves no
\* tool session behind.
ExtractionSound == ExtractionTypeOK /\ ClaimsRestOnCurrentReads /\ StageBudget /\ SessionsClosed
=============================================================================
