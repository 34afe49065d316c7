------------------------------- MODULE Importer -------------------------------
(***************************************************************************)
(* The import of provider wallets from a file, lib/importerCli.ts with     *)
(* lib/importProviderHelper.ts: batches of lines, each tried several       *)
(* times, a ten-second guard that leaves the import it gave up on running, *)
(* a checkpoint file, and runs that are killed and resumed from it.        *)
(***************************************************************************)
EXTENDS Naturals, FiniteSets

CONSTANTS
    Lines,          \* number of lines (CSV, NDJSON) or items (JSON array) of the file
    Malformed,      \* the lines that do not parse: no batch holds them (an array is
                    \* parsed as a whole)
    Direct,         \* the lines with an address and a providerId
    Named,          \* those with an address and the name or an alias of a provider
    Loose,          \* those with an address and only part of such a name
    BatchSize,
    Attempts        \* retryAttempts + 1

VARIABLES
    stored,         \* the lines that have their ProviderWallet document
    unresolved,     \* the lines of Named a batch left out: their look-ups failed
    checkpoint,     \* lastIndex in the checkpoint file (0: no file), and is it honest
    run,            \* the process that imports, if there is one
    late            \* the lines that imports which timed out, and go on in it, may write

importerVars == <<stored, unresolved, checkpoint, run, late>>

File == 1 .. Lines
Importable == Direct \cup Named
Formats == {"lines", "array"}
NotRunning == [phase |-> "idle", format |-> "lines", dry |-> FALSE, honest |-> TRUE,
               skip |-> 0, read |-> 0, batch |-> {}, tries |-> 0]

ImporterInit ==
    /\ stored = {}
    /\ unresolved = {}
    /\ checkpoint = [at |-> 0, honest |-> TRUE]
    /\ run = NotRunning
    /\ late = {}

(* honest is not in the file: it says that no dry run wrote the checkpoint, nor a
   run resumed from one that a dry run wrote - a dry run writes it like any other. *)
Start(format, dry, resume) ==
    /\ run.phase = "idle"
    /\ run' = [NotRunning EXCEPT
                  !.phase = "read", !.format = format, !.dry = dry,
                  !.honest = ~dry /\ (resume => checkpoint.honest),
                  !.skip = IF resume THEN checkpoint.at ELSE 0]
    /\ UNCHANGED <<stored, unresolved, checkpoint, late>>

SkippedByIndex(i) == i <= run.skip + (IF run.format = "array" THEN 1 ELSE 0)
Skipped(i) == i <= run.skip

(* One more line; a full batch is flushed.  After the last one there is a flush too. *)
Read ==
    LET i == run.read + 1
        unread == Skipped(i) \/ (run.format = "lines" /\ i \in Malformed)
        more == IF unread THEN run.batch ELSE run.batch \cup {i}
    IN /\ run.phase = "read" /\ run.read < Lines
       /\ run' = [run EXCEPT !.read = i, !.batch = more,
                             !.phase = IF more # run.batch /\ Cardinality(more) >= BatchSize
                                       THEN "flush" ELSE "read"]
       /\ UNCHANGED <<stored, unresolved, checkpoint, late>>

ReadAll ==
    /\ run.phase = "read" /\ run.read = Lines
    /\ run' = [run EXCEPT !.phase = IF run.batch = {} THEN "finish" ELSE "flush"]
    /\ UNCHANGED <<stored, unresolved, checkpoint, late>>

-----------------------------------------------------------------------------
(* flushBatch and importItems. *)

(* A provider's name is looked up in the list of providers.  When that list cannot be
   read, each name is looked up by itself, in part too, and a look-up that fails is one
   that found nothing: the line is left out, and the import goes on. *)
Found(batch) ==
    IF run.dry THEN {batch \cap Named}
    ELSE {batch \cap Named} \cup SUBSET (batch \cap (Named \cup Loose))

ToStore(batch, found) == IF run.dry THEN {} ELSE (batch \cap Direct) \cup found

(* All a batch may store. *)
Reach(batch) == ToStore(batch, batch \cap (Named \cup Loose))

(* The index of the line read last: it counts from 1 for lines, from 0 in an array. *)
Mark == IF run.format = "lines" THEN run.read ELSE run.read - 1

(* A checkpoint that cannot be written is ignored. *)
WriteCheckpoint(at) == checkpoint' \in {[at |-> at, honest |-> run.honest], checkpoint}

Flush ==
    /\ run.phase = "flush"
    /\ \E found \in Found(run.batch) :
          /\ stored' = stored \cup ToStore(run.batch, found)
          /\ unresolved' = unresolved \cup ((run.batch \cap Named) \ found)
    /\ WriteCheckpoint(Mark)
    /\ run' = [run EXCEPT !.batch = {}, !.tries = 0, !.phase = "read"]
    /\ UNCHANGED late

FlushAgain == run' = [run EXCEPT !.tries = (@ + 1) % Attempts]

(* After the last attempt the error ends the run. *)
GiveUpOrTryAgain ==
    run' = IF run.tries + 1 = Attempts THEN NotRunning ELSE [run EXCEPT !.tries = @ + 1]

(* The unordered bulk write fails after any part of it. *)
FlushFails ==
    /\ run.phase = "flush"
    /\ \E part \in SUBSET Reach(run.batch) : stored' = stored \cup part
    /\ GiveUpOrTryAgain
    /\ UNCHANGED <<unresolved, checkpoint, late>>

(* Ten seconds pass. *)
FlushTimesOut ==
    /\ run.phase = "flush"
    /\ late' = IF run.tries + 1 = Attempts THEN {} ELSE late \cup Reach(run.batch)
    /\ GiveUpOrTryAgain
    /\ UNCHANGED <<stored, unresolved, checkpoint>>

(* What the guard gave up on goes on writing, line by line, or fails. *)
LateImport(i) ==
    /\ i \in late
    /\ stored' = stored \cup {i}
    /\ UNCHANGED <<unresolved, checkpoint, run, late>>

Finish ==
    /\ run.phase = "finish"
    /\ WriteCheckpoint(Lines)
    /\ run' = NotRunning
    /\ late' = {}
    /\ UNCHANGED <<stored, unresolved>>

(* The process is killed. *)
Kill ==
    /\ run.phase # "idle"
    /\ run' = NotRunning
    /\ late' = {}
    /\ UNCHANGED <<stored, unresolved, checkpoint>>

-----------------------------------------------------------------------------
RunStep == Read \/ ReadAll \/ Flush \/ FlushFails \/ FlushTimesOut \/ Finish

ImporterNext ==
    \/ \E format \in Formats, dry, resume \in BOOLEAN : Start(format, dry, resume)
    \/ RunStep
    \/ \E i \in File : LateImport(i)
    \/ Kill

-----------------------------------------------------------------------------
(* Properties. *)

(* Every variable has its type. *)
ImporterTypeOK ==
    /\ stored \subseteq Importable \cup Loose /\ unresolved \subseteq Named
    /\ checkpoint \in [at : 0 .. Lines, honest : BOOLEAN]
    /\ run \in [phase : {"idle", "read", "flush", "finish"}, format : Formats,
                dry : BOOLEAN, honest : BOOLEAN, skip : 0 .. Lines, read : 0 .. Lines,
                batch : SUBSET File, tries : 0 .. Attempts]
    /\ late \subseteq Importable \cup Loose

(* A run that is resumed skips no line that is to be imported and is not, whatever
   was killed, timed out or half written before - as long as no dry run wrote the
   checkpoint it resumes from.  The exception are lines that only name their provider
   and whose look-up failed in a batch that ended well: those the checkpoint has passed,
   and no resumed run tries them again. *)
CheckpointSound ==
    checkpoint.honest =>
        /\ 1 .. checkpoint.at \cap Direct \subseteq stored
        /\ 1 .. checkpoint.at \cap Named \subseteq stored \cup unresolved

(* A run that is not killed ends: it retries, but not for ever. *)
RunEnds == run.phase # "idle" ~> run.phase = "idle"
===============================================================================
