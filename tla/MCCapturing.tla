---------------------------- MODULE MCCapturing ----------------------------
(* What one capture is made of: the job and its batches, the extraction of *)
(* a batch, the checks of its answer, who knows its claims, and the         *)
(* directory of people it writes. They are kept apart, so a behaviour       *)
(* follows one of them (part) and leaves the others as they are.            *)
EXTENDS MCCaptureWorkflow, Extraction, Knowledge, MCValidation, ActorRegistry

VARIABLE part
capturingVars == <<vars, setting, extractionVars, knowledgeVars, validationVars, registryVars, part>>

Claim(id, m, e, f, source, mode, privacy, speaker, own, observe, present, named) ==
    [id |-> id, message |-> m, excerpt |-> e, fact |-> f, source |-> source, mode |-> mode, privacy |-> privacy,
     speaker |-> speaker, subject |-> IF f = "f" THEN "a" ELSE Nobody,
     owners |-> own, observers |-> observe, present |-> present, named |-> named]
A == {"a"}
B == {"b"}
AB == {"a", "b"}
MCClaims == {
    Claim("c", 1, 1, "f", "message", "self_reported", "private", "a", AB, B, AB, AB),
    Claim("c", 1, 2, "f", "message", "self_reported", "public", "a", A, B, AB, AB),
    Claim("d", 1, 1, "f", "message", "heard", "public", "a", A, {}, AB, AB),
    Claim("d", 2, 1, "f", "message", "believed", "limited", "b", {}, A, {}, AB),
    Claim("e", 2, 2, "f", "message", "asserted", "private", Nobody, B, {}, B, AB),
    Claim("c", 2, 1, "f", "world", "asserted", "public", Nobody, {}, {}, {}, A),
    Claim("c", 2, 2, "f", "state", "asserted", "public", Nobody, {}, {}, {}, AB),
    Claim("e", 1, 1, "g", "state", "experienced", "secret", "b", AB, A, AB, AB),
    Claim("d", 2, 1, "g", "message", "experienced", "limited", Nobody, B, A, AB, A),
    Claim("e", 2, 1, "g", "message", "inferred", "public", "a", {}, B, {}, AB),
    Claim("c", 1, 1, "g", "message", "asserted", "public", Nobody, {}, {}, AB, AB),
    Claim("f", 1, 1, "g", "state", "asserted", "public", "a", {}, {}, {}, AB),
    Claim("e", 2, 2, "g", "message", "believed", "public", Nobody, {}, {}, {}, AB)}

\* What befalls the directory of people: one discovery, one correction and its undo
\* with writes that overlap and of which one may fail; two discoveries and two writes
\* at a time; or two corrections after one discovery and one write at a time.
Within == \/ Len(trail) <= 1 /\ discoveries <= 1
          \/ Len(trail) <= 1 /\ registryFaults = 0 /\ Cardinality(inflight) <= 2
          \/ discoveries <= 1 /\ registryFaults = 0 /\ Cardinality(inflight) <= 1

MCInit == /\ part \in {"job", "extraction", "knowledge", "checks", "people"}
          /\ Init /\ setting \in Settings /\ ExtractionInit /\ KnowledgeInit /\ RegistryInit
          /\ part # "job" => setting = CHOOSE s \in Settings : TRUE
          /\ part # "extraction" => extraction = Asked("alone", "single", {})
          /\ IF part = "checks" THEN ValidationInit ELSE asked = NotYet /\ sifted = NotYet /\ records = NotYet
MCNext == \/ part = "job" /\ Next /\ UNCHANGED <<setting, extractionVars, knowledgeVars, validationVars, registryVars, part>>
          \/ part = "extraction" /\ ExtractionNext /\ UNCHANGED <<vars, setting, knowledgeVars, validationVars, registryVars, part>>
          \/ part = "knowledge" /\ KnowledgeNext /\ UNCHANGED <<vars, setting, extractionVars, validationVars, registryVars, part>>
          \/ part = "checks" /\ ValidationNext /\ UNCHANGED <<vars, setting, extractionVars, knowledgeVars, registryVars, part>>
          \/ /\ part = "people" /\ RegistryNext /\ Within'
             /\ UNCHANGED <<vars, setting, extractionVars, knowledgeVars, validationVars, part>>
MCSpec == MCInit /\ [][MCNext]_capturingVars
=============================================================================
