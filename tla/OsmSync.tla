------------------------------ MODULE OsmSync ------------------------------
(* The OSM run of the worker: executeOsm of sync.service.ts with the files of
   tasks/osm-sync.task.ts and the flags of tasks/flags-sync.task.ts.  The
   artefacts lie on a volume that outlives runs, retries and restarts; a retry
   skips the steps its run has already completed, a new run skips none.
   A file is known by how its writing ended, by the edition of the extract it
   comes from and by whether it tells of a part of that only: what is made of
   a file that was cut short is partial, however well its own command ended.
   Nothing ever removes the raw file or fetches it anew.  Each aerodrome stands
   for the points of interest around it.  `worked' is not a column: the step's
   work is done. *)
EXTENDS Naturals

CONSTANTS Field,        \* aerodromes
          MaxAttempts,  \* SYNC_RETRY_ATTEMPTS
          MaxEdition,   \* bound: editions of the extract Geofabrik publishes
          MaxKills      \* bound: deaths of the worker

ASSUME OsmAssumption == MaxAttempts \in Nat \ {0} /\ MaxEdition \in Nat /\ MaxKills \in Nat

VARIABLES published,  \* the edition Geofabrik serves
          file,       \* raw, filtered and export on the volume
          step,       \* rows of sync_run_steps of the current run
          osmPc,      \* the step executeOsm is at, "idle" or "retry"
          worked,     \* the work of the step at osmPc is done
          attempt,    \* SyncRun.attempt
          pois,       \* edition of the points of interest around each field
          copy,       \* rows of the flags query
          flags,      \* edition the flags of each field were computed from
          outcome,    \* status of the last run that ended
          kills

osmVars == <<published, file, step, osmPc, worked, attempt, pois, copy, flags, outcome, kills>>

Key == {"download", "filter", "export", "import", "sync_flags"}
Edition == 0 .. MaxEdition
Absent == [how |-> "absent", of |-> 0, part |-> FALSE]
Product == [download |-> "raw", filter |-> "filtered", export |-> "export"]
Input == [filter |-> "raw", export |-> "filtered"]
Following == [download |-> "filter", filter |-> "export", export |-> "import", import |-> "sync_flags"]

OsmInit ==
  /\ published = 0
  /\ file = [f \in {"raw", "filtered", "export"} |-> Absent]
  /\ step = [k \in Key |-> "none"]
  /\ osmPc = "idle" /\ worked = FALSE
  /\ attempt = 1
  /\ pois = [a \in Field |-> 0] /\ copy = pois /\ flags = pois
  /\ outcome = "none" /\ kills = 0

Data == <<pois, copy, flags>>
Run == <<attempt, outcome>>

(* Geofabrik publishes a new extract. *)
Publish ==
  /\ published < MaxEdition
  /\ published' = published + 1
  /\ UNCHANGED <<file, step, osmPc, worked, Run, Data, kills>>

(* A new run, with no steps yet. *)
StartRun ==
  /\ osmPc = "idle"
  /\ osmPc' = "download" /\ step' = [k \in Key |-> "none"]
  /\ attempt' = 1 /\ outcome' = "running"
  /\ UNCHANGED <<published, file, worked, Data, kills>>

(* The dispatcher picks the run whose retry time has come. *)
Resume ==
  /\ osmPc = "retry"
  /\ osmPc' = "download"
  /\ UNCHANGED <<published, file, step, worked, Run, Data, kills>>

(* wasStepSuccessful: the first three steps are not done twice in a run. *)
WasSuccessful(k) == k \in DOMAIN Product /\ step[k] = "SUCCESS"

SkipStep(k) ==
  /\ osmPc = k /\ WasSuccessful(k)
  /\ osmPc' = Following[k]
  /\ UNCHANGED <<published, file, step, worked, Run, Data, kills>>

(* Mutant: the flags of a retry are not queried again. *)
StartStepOnce(k) ==
  /\ osmPc = k /\ step[k] # "RUNNING" /\ ~WasSuccessful(k)
  /\ step' = [step EXCEPT ![k] = "RUNNING"]
  /\ copy' = IF k = "sync_flags" /\ attempt = 1 THEN pois ELSE copy
  /\ UNCHANGED <<published, file, osmPc, worked, Run, pois, flags, kills>>

StartStep(k) ==
  /\ osmPc = k /\ step[k] # "RUNNING" /\ ~WasSuccessful(k)
  /\ step' = [step EXCEPT ![k] = "RUNNING"]
  /\ copy' = IF k = "sync_flags" THEN pois ELSE copy
  /\ UNCHANGED <<published, file, osmPc, worked, Run, pois, flags, kills>>

At(k) == osmPc = k /\ step[k] = "RUNNING" /\ ~worked

(* Its contents are those of a part of the extract. *)
Partial(f) == f.part \/ f.how = "cut"

(* ensureFile accepts whatever is not empty. *)
Usable(f) == f.how \in {"cut", "whole"}

Done == worked' = TRUE /\ UNCHANGED <<published, step, osmPc, Run, kills>>

(* downloadFrancePbfIfMissing: a file that exists is not fetched again. *)
Download ==
  /\ At("download")
  /\ file' = IF file["raw"].how = "absent"
             THEN [file EXCEPT !["raw"] = [how |-> "whole", of |-> published, part |-> FALSE]]
             ELSE file
  /\ Usable(file'["raw"])
  /\ Done /\ UNCHANGED Data

(* Mutant: what is there is not made again. *)
OsmiumIfMissing(k) ==
  /\ k \in DOMAIN Input /\ At(k)
  /\ Usable(file[Input[k]])
  /\ file' = IF file[Product[k]].how = "absent"
             THEN [file EXCEPT ![Product[k]] = [how |-> "whole", of |-> file[Input[k]].of,
                                                part |-> Partial(file[Input[k]])]]
             ELSE file
  /\ Done /\ UNCHANGED Data

(* osmium ends well; of a cut input it may read what there is, or refuse it, which
   is FailStep. *)
Osmium(k) ==
  /\ k \in DOMAIN Input /\ At(k)
  /\ Usable(file[Input[k]])
  /\ file' = [file EXCEPT ![Product[k]] = [how |-> "whole", of |-> file[Input[k]].of,
                                            part |-> Partial(file[Input[k]])]]
  /\ Done /\ UNCHANGED Data

(* A batch of importOsmGeoJsonSeq: points of interest are upserted, never removed. *)
ImportPois(a) ==
  /\ At("import") /\ Usable(file["export"])
  /\ pois[a] # file["export"].of
  /\ pois' = [pois EXCEPT ![a] = file["export"].of]
  /\ UNCHANGED <<published, file, step, osmPc, worked, Run, copy, flags, kills>>

ImportEnds ==
  /\ At("import") /\ Usable(file["export"])
  /\ ~Partial(file["export"]) => \A a \in Field : pois[a] = file["export"].of
  /\ Done /\ UNCHANGED <<file, Data>>

(* runSyncAerodromeFlagsTask: one query, then an update per aerodrome. *)
WriteFlags(a) ==
  /\ At("sync_flags") /\ flags[a] # copy[a]
  /\ flags' = [flags EXCEPT ![a] = copy[a]]
  /\ UNCHANGED <<published, file, step, osmPc, worked, Run, pois, copy, kills>>

FlagsEnd ==
  /\ At("sync_flags") /\ flags = copy
  /\ Done /\ UNCHANGED <<file, Data>>

(* completeStep, and after the last one the status of the run. *)
CompleteStep(k) ==
  /\ osmPc = k /\ worked
  /\ step' = [step EXCEPT ![k] = "SUCCESS"]
  /\ worked' = FALSE
  /\ IF k = "sync_flags" THEN osmPc' = "idle" /\ outcome' = "SUCCESS"
                         ELSE osmPc' = Following[k] /\ outcome' = outcome
  /\ UNCHANGED <<published, file, attempt, Data, kills>>

(* What an interrupted writer leaves behind: for a download whose request
   failed, nothing; otherwise what was there before, emptied or cut short. *)
Leavings(k) ==
  IF k \notin DOMAIN Product \/ (k = "download" /\ file["raw"].how # "absent") THEN {file}
  ELSE {file} \cup
       {[file EXCEPT ![Product[k]] =
            [how |-> h, of |-> IF k = "download" THEN published ELSE file[Input[k]].of,
             part |-> k # "download" /\ Partial(file[Input[k]])]] : h \in {"empty", "cut"}}

(* The step throws, in its work or in a statement before or after it: failStep
   if it is RUNNING, then handleRunFailure. *)
FailStep(k) ==
  /\ osmPc = k
  /\ file' \in IF At(k) THEN Leavings(k) ELSE {file}
  /\ step' = [step EXCEPT ![k] = IF @ = "RUNNING" THEN "FAILED" ELSE @]
  /\ worked' = FALSE
  /\ IF attempt < MaxAttempts
     THEN osmPc' = "retry" /\ attempt' = attempt + 1 /\ outcome' = outcome
     ELSE osmPc' = "idle" /\ attempt' = attempt /\ outcome' = "FAILED"
  /\ UNCHANGED <<published, Data, kills>>

(* The worker dies, or cannot even write that the run failed and is restarted later:
   recoverInterruptedRuns replans the run. *)
Die ==
  /\ osmPc \in Key /\ kills < MaxKills
  /\ kills' = kills + 1
  /\ file' \in IF At(osmPc) THEN Leavings(osmPc) ELSE {file}
  /\ step' = [k \in Key |-> IF step[k] = "RUNNING" THEN "FAILED" ELSE step[k]]
  /\ osmPc' = "retry" /\ worked' = FALSE
  /\ UNCHANGED <<published, Run, Data>>

OsmNext ==
  \/ Publish
  \/ StartRun
  \/ Resume
  \/ \E k \in Key :
       (SkipStep(k) \/ StartStep(k) \/ Osmium(k) \/ CompleteStep(k) \/ FailStep(k))
  \/ Download
  \/ \E a \in Field : (ImportPois(a) \/ WriteFlags(a))
  \/ ImportEnds
  \/ FlagsEnd
  \/ Die

OsmSpec == OsmInit /\ [][OsmNext]_osmVars

-----------------------------------------------------------------------------
(* Whatever failed, was retried or died in between: the import reads an export
   whose command ended, made from a filtered file whose command ended, both of
   the extract that lies on the volume and of as much of it as lies there
   (executeOsm, wasStepSuccessful).  That is not always the whole: a download
   that was cut short stays, and downloadFrancePbfIfMissing takes it. *)
ImportReadsFinishedFiles ==
  At("import") => /\ file["export"].how = "whole" /\ file["filtered"].how = "whole"
                  /\ file["export"].of = file["filtered"].of
                  /\ file["filtered"].of = file["raw"].of
                  /\ file["export"].part <=> file["raw"].how = "cut"

(* A run that ended well leaves the flags of every aerodrome computed from the
   points of interest it imported, not from those of an attempt before
   (executeOsm, runSyncAerodromeFlagsTask). *)
FlagsFollowThePois ==
  outcome = "SUCCESS" => \A a \in Field : flags[a] = pois[a]

(* Retries, restarts and files left behind notwithstanding, points of interest
   come from finished files, which tell of the whole extract unless its download
   was cut short, and flags from those points. *)
FlagsAreSound == ImportReadsFinishedFiles /\ FlagsFollowThePois

=============================================================================
