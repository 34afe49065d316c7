----------------------------- MODULE ImporterProofs -----------------------------
(***************************************************************************)
(* Theorems about Importer, for a file of any length, any batches and any   *)
(* number of attempts.  A checkpoint is sound because of what the run that  *)
(* writes it knows: every line it has read is settled or still in its batch. *)
(***************************************************************************)
EXTENDS Importer, TLAPS

ImporterSpec == ImporterInit /\ [][ImporterNext]_importerVars

FileAssumption ==
    /\ Lines \in Nat /\ BatchSize \in Nat /\ Attempts \in Nat \ {0}
    /\ Direct \cup Named \cup Loose \subseteq File
    /\ Malformed \cap Importable = {}

(* A line to import that needs nothing more, as far as a checkpoint knows. *)
Settled(i) ==
    /\ i \in Direct => i \in stored
    /\ i \in Named => i \in stored \cup unresolved

(* Of the lines a run has passed, those to import are settled or in its batch. *)
Passed(done) == \A i \in Importable : i <= done => Settled(i) \/ i \in run.batch

RunInv ==
    /\ run.phase # "idle" /\ run.honest =>
          /\ ~run.dry
          /\ Passed(run.read)
          /\ \A i \in Importable : i <= run.skip => Settled(i)
    /\ run.phase = "finish" => run.batch = {} /\ run.read = Lines
    /\ run.phase = "flush" => run.read > 0
    /\ run.tries < Attempts

CheckpointSettled ==
    checkpoint.honest => \A i \in Importable : i <= checkpoint.at => Settled(i)

ImportInv == ImporterTypeOK /\ CheckpointSettled /\ RunInv

-----------------------------------------------------------------------------
LEMMA RunType ==
    ASSUME ImporterTypeOK
    PROVE  /\ run.phase \in {"idle", "read", "flush", "finish"}
           /\ run.format \in Formats /\ run.dry \in BOOLEAN /\ run.honest \in BOOLEAN
           /\ run.skip \in 0 .. Lines /\ run.read \in 0 .. Lines
           /\ run.batch \in SUBSET File /\ run.tries \in 0 .. Attempts
BY DEF ImporterTypeOK

LEMMA NotRunningType ==
    ASSUME FileAssumption, run' = NotRunning,
           stored' \subseteq Importable \cup Loose, unresolved' \subseteq Named,
           late' \subseteq Importable \cup Loose,
           checkpoint' \in [at : 0 .. Lines, honest : BOOLEAN]
    PROVE  ImporterTypeOK' /\ RunInv'
<1>1. /\ NotRunning.phase = "idle" /\ NotRunning.tries = 0
      /\ NotRunning \in [phase : {"idle", "read", "flush", "finish"}, format : Formats,
                dry : BOOLEAN, honest : BOOLEAN, skip : 0 .. Lines, read : 0 .. Lines,
                batch : SUBSET File, tries : 0 .. Attempts]
  BY DEF NotRunning, Formats, FileAssumption
<1> HIDE DEF NotRunning
<1>2. ImporterTypeOK'
  BY <1>1 DEF ImporterTypeOK
<1>3. RunInv'
  BY <1>1 DEF RunInv, FileAssumption
<1> QED
  BY <1>2, <1>3

(* An attempt fails: the run ends, or it only counts the attempt. *)
LEMMA GiveUpStep ==
    ASSUME FileAssumption, ImportInv, run.phase = "flush", GiveUpOrTryAgain,
           stored \subseteq stored', UNCHANGED <<unresolved, checkpoint>>,
           stored' \subseteq Importable \cup Loose, late' \subseteq Importable \cup Loose
    PROVE  ImportInv'
<1>1. ImporterTypeOK /\ CheckpointSettled /\ RunInv
  BY DEF ImportInv
<1>2. CheckpointSettled'
  BY <1>1 DEF CheckpointSettled, Settled
<1>3. CASE run' = NotRunning
  BY <1>1, <1>2, <1>3, NotRunningType DEF ImportInv, ImporterTypeOK
<1>4. CASE run.tries + 1 # Attempts /\ run' = [run EXCEPT !.tries = @ + 1]
  <2>1. run.tries + 1 \in 0 .. Attempts /\ run.tries + 1 < Attempts
    BY <1>1, <1>4, RunType DEF RunInv, FileAssumption
  <2>2. ImporterTypeOK'
    BY <1>1, <1>4, <2>1 DEF ImporterTypeOK
  <2>3. RunInv'
    <3>1. /\ run'.phase = run.phase /\ run'.honest = run.honest /\ run'.dry = run.dry
          /\ run'.read = run.read /\ run'.skip = run.skip /\ run'.batch = run.batch
          /\ run'.tries = run.tries + 1
      BY <1>1, <1>4 DEF ImporterTypeOK
    <3> QED
      BY <1>1, <2>1, <3>1 DEF RunInv, Passed, Settled
  <2> QED
    BY <1>2, <2>2, <2>3 DEF ImportInv
<1> QED
  BY <1>3, <1>4 DEF GiveUpOrTryAgain

LEMMA FlushStep ==
    ASSUME FileAssumption, ImportInv, Flush
    PROVE  ImportInv'
<1>1. ImporterTypeOK /\ CheckpointSettled /\ RunInv
  BY DEF ImportInv
<1>2. PICK found \in Found(run.batch) :
          /\ stored' = stored \cup ToStore(run.batch, found)
          /\ unresolved' = unresolved \cup ((run.batch \cap Named) \ found)
  BY DEF Flush
<1>3. /\ run.phase = "flush"
      /\ checkpoint' \in {[at |-> Mark, honest |-> run.honest], checkpoint}
      /\ run' = [run EXCEPT !.batch = {}, !.tries = 0, !.phase = "read"]
      /\ UNCHANGED late
  BY DEF Flush, WriteCheckpoint
<1>4. /\ run'.phase = "read" /\ run'.honest = run.honest /\ run'.dry = run.dry
      /\ run'.read = run.read /\ run'.skip = run.skip /\ run'.batch = {} /\ run'.tries = 0
  BY <1>1, <1>3 DEF ImporterTypeOK
<1>5. /\ stored' \subseteq Importable \cup Loose /\ stored \subseteq stored'
      /\ unresolved' \subseteq Named /\ unresolved \subseteq unresolved'
  BY <1>1, <1>2 DEF ImporterTypeOK, ToStore, Found, Importable
<1>6. Mark \in 0 .. Lines /\ Mark <= run.read
  BY <1>1, <1>3, RunType DEF Mark, RunInv, FileAssumption
<1>7. [at |-> Mark, honest |-> run.honest] \in [at : 0 .. Lines, honest : BOOLEAN]
  BY <1>1, <1>6, RunType
<1>8. checkpoint' \in [at : 0 .. Lines, honest : BOOLEAN]
  BY <1>1, <1>3, <1>7 DEF ImporterTypeOK
<1>9. ImporterTypeOK'
  <2>1. 0 \in 0 .. Attempts /\ {} \in SUBSET File
    BY DEF FileAssumption
  <2> QED
    BY <1>1, <1>3, <1>5, <1>8, <2>1 DEF ImporterTypeOK
<1>10. \A i : Settled(i) => Settled(i)'
  BY <1>5 DEF Settled
(* What the batch held is stored now, or left out because its look-up failed. *)
<1>11. run.honest => \A i \in run.batch : Settled(i)'
  BY <1>1, <1>2, <1>3 DEF RunInv, Settled, ToStore
<1>12. run.honest => \A i \in Importable : i <= run.read => Settled(i)'
  BY <1>1, <1>3, <1>10, <1>11 DEF RunInv, Passed
<1>13. CheckpointSettled'
  <2>1. CASE checkpoint' = checkpoint
    BY <1>1, <1>10, <2>1 DEF CheckpointSettled
  <2>2. CASE checkpoint' = [at |-> Mark, honest |-> run.honest]
    <3> SUFFICES ASSUME run.honest, NEW i \in Importable, i <= Mark
                 PROVE  Settled(i)'
      BY <2>2 DEF CheckpointSettled
    <3>1. i \in Nat
      BY DEF FileAssumption, Importable, File
    <3>2. i <= run.read
      BY <1>1, <1>6, <3>1, RunType
    <3> QED
      BY <1>12, <3>2
  <2> QED
    BY <1>3, <2>1, <2>2
<1>14. RunInv'
  BY <1>1, <1>3, <1>4, <1>10, <1>12 DEF RunInv, Passed, FileAssumption
<1> QED
  BY <1>9, <1>13, <1>14 DEF ImportInv

LEMMA ReadStep ==
    ASSUME FileAssumption, ImportInv, Read
    PROVE  ImportInv'
<1> DEFINE i == run.read + 1
           unread == Skipped(i) \/ (run.format = "lines" /\ i \in Malformed)
           more == IF unread THEN run.batch ELSE run.batch \cup {i}
           next == IF more # run.batch /\ Cardinality(more) >= BatchSize
                   THEN "flush" ELSE "read"
<1>1. ImporterTypeOK /\ CheckpointSettled /\ RunInv
  BY DEF ImportInv
<1>2. /\ run.phase = "read" /\ run.read < Lines
      /\ run' = [run EXCEPT !.read = i, !.batch = more, !.phase = next]
      /\ UNCHANGED <<stored, unresolved, checkpoint, late>>
  BY DEF Read
<1>3. i \in 1 .. Lines /\ i \in 0 .. Lines /\ i = run.read + 1 /\ run.read \in Nat
  BY <1>1, <1>2, RunType DEF FileAssumption
<1>4. more \in SUBSET File /\ run.batch \subseteq more /\ next \in {"flush", "read"}
  BY <1>1, <1>3, RunType DEF File
<1>5. i \in more \/ Skipped(i) \/ i \in Malformed
  OBVIOUS
<1> HIDE DEF i, more, next
<1>6. /\ run'.phase = next /\ run'.honest = run.honest /\ run'.dry = run.dry
      /\ run'.read = i /\ run'.skip = run.skip /\ run'.batch = more
      /\ run'.tries = run.tries
  BY <1>1, <1>2 DEF ImporterTypeOK
<1>7. ImporterTypeOK'
  BY <1>1, <1>2, <1>3, <1>4 DEF ImporterTypeOK
<1>8. CheckpointSettled'
  BY <1>1, <1>2 DEF CheckpointSettled, Settled
<1>9. ASSUME run.honest PROVE Passed(run.read)'
  <2> SUFFICES ASSUME NEW j \in Importable, j <= i PROVE Settled(j) \/ j \in more
    BY <1>2, <1>6 DEF Passed, Settled
  <2>1. j \in Nat
    BY DEF FileAssumption, Importable, File
  <2>2. CASE j <= run.read
    BY <1>1, <1>2, <1>4, <1>9, <2>2 DEF RunInv, Passed
  <2>3. CASE j = i
    BY <1>1, <1>2, <1>5, <1>9, <2>3 DEF RunInv, Skipped, FileAssumption
  <2> QED
    BY <1>3, <2>1, <2>2, <2>3
<1>10. RunInv'
  BY <1>1, <1>2, <1>3, <1>4, <1>6, <1>9 DEF RunInv, Settled
<1> QED
  BY <1>7, <1>8, <1>10 DEF ImportInv

LEMMA ReadAllStep ==
    ASSUME FileAssumption, ImportInv, ReadAll
    PROVE  ImportInv'
<1>1. ImporterTypeOK /\ CheckpointSettled /\ RunInv
  BY DEF ImportInv
<1> DEFINE next == IF run.batch = {} THEN "finish" ELSE "flush"
<1>2. /\ run.phase = "read" /\ run.read = Lines
      /\ run' = [run EXCEPT !.phase = next]
      /\ UNCHANGED <<stored, unresolved, checkpoint, late>>
  BY DEF ReadAll
<1>3. next \in {"finish", "flush"} /\ (next = "finish" => run.batch = {})
  OBVIOUS
<1>4. next = "flush" => Lines > 0
  <2> SUFFICES ASSUME run.batch # {} PROVE Lines > 0
    OBVIOUS
  <2> QED
    BY <1>1, RunType DEF File, FileAssumption
<1> HIDE DEF next
<1>5. /\ run'.phase = next /\ run'.honest = run.honest /\ run'.dry = run.dry
      /\ run'.read = run.read /\ run'.skip = run.skip /\ run'.batch = run.batch
      /\ run'.tries = run.tries
  BY <1>1, <1>2 DEF ImporterTypeOK
<1>6. ImporterTypeOK'
  BY <1>1, <1>2, <1>3 DEF ImporterTypeOK
<1>7. CheckpointSettled'
  BY <1>1, <1>2 DEF CheckpointSettled, Settled
<1>8. RunInv'
  BY <1>1, <1>2, <1>3, <1>4, <1>5 DEF RunInv, Passed, Settled
<1> QED
  BY <1>6, <1>7, <1>8 DEF ImportInv

LEMMA FinishStep ==
    ASSUME FileAssumption, ImportInv, Finish
    PROVE  ImportInv'
<1>1. ImporterTypeOK /\ CheckpointSettled /\ RunInv
  BY DEF ImportInv
<1>2. /\ run.phase = "finish" /\ run' = NotRunning /\ late' = {}
      /\ stored' = stored /\ unresolved' = unresolved
      /\ checkpoint' \in {[at |-> Lines, honest |-> run.honest], checkpoint}
  BY DEF Finish, WriteCheckpoint
<1>3. [at |-> Lines, honest |-> run.honest] \in [at : 0 .. Lines, honest : BOOLEAN]
  BY <1>1, RunType DEF FileAssumption
<1>4. checkpoint' \in [at : 0 .. Lines, honest : BOOLEAN]
  BY <1>1, <1>2, <1>3 DEF ImporterTypeOK
<1>5. ImporterTypeOK' /\ RunInv'
  BY <1>1, <1>2, <1>4, NotRunningType DEF ImporterTypeOK
<1>6. CheckpointSettled'
  <2>1. CASE checkpoint' = checkpoint
    BY <1>1, <1>2, <2>1 DEF CheckpointSettled, Settled
  <2>2. CASE checkpoint' = [at |-> Lines, honest |-> run.honest]
    <3>1. \A i \in Importable : i <= Lines
      BY DEF FileAssumption, Importable, File
    <3> QED
      BY <1>1, <1>2, <2>2, <3>1 DEF CheckpointSettled, RunInv, Passed, Settled
  <2> QED
    BY <1>2, <2>1, <2>2
<1> QED
  BY <1>5, <1>6 DEF ImportInv

LEMMA StartStep ==
    ASSUME FileAssumption, ImportInv, NEW format \in Formats, NEW dry \in BOOLEAN,
           NEW resume \in BOOLEAN, Start(format, dry, resume)
    PROVE  ImportInv'
<1>1. ImporterTypeOK /\ CheckpointSettled /\ RunInv
  BY DEF ImportInv
<1> DEFINE honest == ~dry /\ (resume => checkpoint.honest)
           skip == IF resume THEN checkpoint.at ELSE 0
<1>2. /\ run' = [NotRunning EXCEPT !.phase = "read", !.format = format, !.dry = dry,
                                   !.honest = honest, !.skip = skip]
      /\ UNCHANGED <<stored, unresolved, checkpoint, late>>
  BY DEF Start
<1>3. checkpoint.at \in 0 .. Lines /\ checkpoint.honest \in BOOLEAN
  BY <1>1 DEF ImporterTypeOK
<1>4. honest \in BOOLEAN /\ skip \in 0 .. Lines /\ (honest => ~dry)
  BY <1>3 DEF FileAssumption
<1>5. honest => \A i \in Importable : i <= skip => Settled(i)
  <2> SUFFICES ASSUME honest, NEW i \in Importable, i <= skip PROVE Settled(i)
    OBVIOUS
  <2>1. i \in Nat /\ i > 0
    BY DEF FileAssumption, Importable, File
  <2>2. resume /\ checkpoint.honest /\ i <= checkpoint.at
    BY <1>3, <2>1
  <2> QED
    BY <1>1, <2>2 DEF CheckpointSettled
<1> HIDE DEF honest, skip
<1>6. /\ run'.phase = "read" /\ run'.honest = honest /\ run'.dry = dry /\ run'.read = 0
      /\ run'.skip = skip /\ run'.batch = {} /\ run'.tries = 0
  BY <1>2 DEF NotRunning
<1>7. ImporterTypeOK'
  <2>1. /\ NotRunning \in [phase : {"idle", "read", "flush", "finish"}, format : Formats,
                dry : BOOLEAN, honest : BOOLEAN, skip : 0 .. Lines, read : 0 .. Lines,
                batch : SUBSET File, tries : 0 .. Attempts]
    BY DEF NotRunning, Formats, FileAssumption
  <2> QED
    BY <1>1, <1>2, <1>4, <2>1 DEF ImporterTypeOK
<1>8. CheckpointSettled'
  BY <1>1, <1>2 DEF CheckpointSettled, Settled
<1>9. RunInv'
  <2>1. \A i \in Importable : ~(i <= 0)
    BY DEF FileAssumption, Importable, File
  <2> QED
    BY <1>2, <1>4, <1>5, <1>6, <2>1 DEF RunInv, Passed, Settled, FileAssumption
<1> QED
  BY <1>7, <1>8, <1>9 DEF ImportInv

LEMMA ImportStep ==
    ASSUME FileAssumption
    PROVE  ImportInv /\ [ImporterNext]_importerVars => ImportInv'
<1> SUFFICES ASSUME ImportInv, [ImporterNext]_importerVars PROVE ImportInv'
  OBVIOUS
<1>1. ImporterTypeOK /\ CheckpointSettled /\ RunInv /\ Reach(run.batch) \subseteq Importable \cup Loose
  BY DEF ImportInv, Reach, ToStore, Importable
<1>2. CASE Read
  BY <1>2, ReadStep
<1>3. CASE ReadAll
  BY <1>3, ReadAllStep
<1>4. CASE Flush
  BY <1>4, FlushStep
<1>5. CASE FlushFails
  BY <1>1, <1>5, GiveUpStep DEF FlushFails, ImporterTypeOK
<1>6. CASE FlushTimesOut
  BY <1>1, <1>6, GiveUpStep DEF FlushTimesOut, ImporterTypeOK
<1>7. CASE Finish
  BY <1>7, FinishStep
<1>8. ASSUME NEW format \in Formats, NEW dry \in BOOLEAN, NEW resume \in BOOLEAN,
             Start(format, dry, resume)
      PROVE  ImportInv'
  BY <1>8, StartStep
<1>9. ASSUME NEW i \in File, LateImport(i) PROVE ImportInv'
  <2>1. stored \subseteq stored' /\ stored' \subseteq Importable \cup Loose
        /\ UNCHANGED <<unresolved, checkpoint, run, late>>
    BY <1>1, <1>9 DEF LateImport, ImporterTypeOK
  <2>2. ImporterTypeOK'
    BY <1>1, <2>1 DEF ImporterTypeOK
  <2> QED
    BY <1>1, <2>1, <2>2 DEF ImportInv, CheckpointSettled, RunInv, Passed, Settled
<1>10. CASE Kill
  <2>1. ImporterTypeOK' /\ RunInv'
    BY <1>1, <1>10, NotRunningType DEF Kill, ImporterTypeOK
  <2> QED
    BY <1>1, <1>10, <2>1 DEF Kill, ImportInv, CheckpointSettled, Settled
<1>11. CASE UNCHANGED importerVars
  BY <1>1, <1>11 DEF importerVars, ImportInv, ImporterTypeOK, CheckpointSettled, RunInv,
                     Passed, Settled
<1> QED
  BY <1>2, <1>3, <1>4, <1>5, <1>6, <1>7, <1>8, <1>9, <1>10, <1>11 DEF ImporterNext, RunStep

LEMMA ImportInit == ASSUME FileAssumption PROVE ImporterInit => ImportInv
<1> SUFFICES ASSUME ImporterInit PROVE ImportInv
  OBVIOUS
<1>1. checkpoint = [at |-> 0, honest |-> TRUE] /\ stored = {} /\ unresolved = {} /\ late = {}
  BY DEF ImporterInit
<1>2. checkpoint \in [at : 0 .. Lines, honest : BOOLEAN]
  BY <1>1 DEF FileAssumption
<1>3. /\ run.phase = "idle" /\ run.tries = 0
      /\ run \in [phase : {"idle", "read", "flush", "finish"}, format : Formats,
                dry : BOOLEAN, honest : BOOLEAN, skip : 0 .. Lines, read : 0 .. Lines,
                batch : SUBSET File, tries : 0 .. Attempts]
  BY DEF ImporterInit, NotRunning, Formats, FileAssumption
<1>4. ImporterTypeOK /\ CheckpointSettled
  <2>1. \A i \in Importable : ~(i <= 0)
    BY DEF FileAssumption, Importable, File
  <2> QED
    BY <1>1, <1>2, <1>3, <2>1 DEF ImporterTypeOK, CheckpointSettled
<1>5. RunInv
  BY <1>3 DEF RunInv, FileAssumption
<1> QED
  BY <1>4, <1>5 DEF ImportInv

LEMMA ImportAlways == ASSUME FileAssumption PROVE ImporterSpec => []ImportInv
BY ImportInit, ImportStep, PTL DEF ImporterSpec

-----------------------------------------------------------------------------
(* The types: in particular, an import that the ten-second guard gave up on writes
   nothing but lines with an address and a provider, and only lines that name their
   provider are ever left out for a failed look-up. *)
THEOREM ImporterTypes == ASSUME FileAssumption PROVE ImporterSpec => []ImporterTypeOK
<1>1. ImportInv => ImporterTypeOK
  BY DEF ImportInv
<1> QED
  BY <1>1, ImportAlways, PTL

(* A run resumed from a checkpoint that no dry run wrote skips no line that is to
   be imported and is not, but for lines whose provider's name a batch that ended well
   had failed to look up: for every file, batch size and number of attempts, whatever
   was killed, timed out or written in part. *)
THEOREM CheckpointIsSound == ASSUME FileAssumption PROVE ImporterSpec => []CheckpointSound
<1>1. ImportInv => CheckpointSound
  <2> SUFFICES ASSUME ImportInv, checkpoint.honest,
                      NEW i \in Importable, i \in 1 .. checkpoint.at
               PROVE  Settled(i)
    BY DEF CheckpointSound, Settled, Importable
  <2> QED
    BY DEF ImportInv, ImporterTypeOK, CheckpointSettled
<1> QED
  BY <1>1, ImportAlways, PTL
===============================================================================
