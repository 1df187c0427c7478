------------------------------ MODULE AsrBatch ------------------------------
(***************************************************************************)
(* The batch speech recognizer: a timer starts main.py every three         *)
(* minutes.  A run lists the audio files of the bucket's input prefix and  *)
(* submits those without a status object; then it lists the status         *)
(* objects, asks for the operations not marked done, and stores the answer *)
(* (.json), its text (.txt) and the done mark, in this order.              *)
(*                                                                         *)
(* Runs may overlap and share nothing but the bucket.  Every exception but *)
(* those caught around a request ends the run.                             *)
(***************************************************************************)
EXTENDS Naturals, FiniteSets

CONSTANTS
  NumFiles,   \* audio files, in the order of their keys
  PageSize,   \* keys in an answer of list_objects_v2 (1000)
  Run,        \* slots for concurrent runs
  MaxOps,     \* bound: operations ever created
  MaxFaults,  \* bound: faults
  Nil         \* no operation

File == 1 .. NumFiles
Op == 1 .. MaxOps
Finished == {"chunks", "nothing"}   \* with a response or without
Status == [id : Op, done : BOOLEAN]

ASSUME SizesAssumption ==
  /\ NumFiles \in Nat /\ PageSize \in Nat
  /\ MaxOps \in Nat /\ MaxFaults \in Nat
ASSUME NilAssumption == Nil \notin Op /\ Nil \notin Status

VARIABLES
  input,   \* audio files uploaded so far
  task,    \* state of each operation
  status,  \* status object of a file: <log>/<file>.json
  json,    \* the operation whose answer is in <out>/<file>.json
  text,    \* the operation whose text is in <out>/<file>.txt
  pc,      \* where a run is
  todo,    \* what is left of the listing a run goes through
  op,      \* the operation a run has just created or asks for
  faults   \* faults so far

bucket == <<input, status, json, text>>
vars == <<bucket, task, pc, todo, op, faults>>

TypeOK ==
  /\ input \subseteq File
  /\ task \in [Op -> {"free", "running"} \cup Finished]
  /\ status \in [File -> Status \cup {Nil}]
  /\ json \in [File -> Op \cup {Nil}] /\ text \in [File -> Op \cup {Nil}]
  /\ pc \in [Run -> {"idle", "head", "submit", "write", "read", "poll",
                     "json", "text", "mark"}]
  /\ todo \in [Run -> SUBSET File]
  /\ op \in [Run -> Op \cup {Nil}]
  /\ faults \in 0 .. MaxFaults

Init ==
  /\ input = {}
  /\ task = [o \in Op |-> "free"]
  /\ status = [f \in File |-> Nil]
  /\ json = [f \in File |-> Nil] /\ text = [f \in File |-> Nil]
  /\ pc = [r \in Run |-> "idle"]
  /\ todo = [r \in Run |-> {}]
  /\ op = [r \in Run |-> Nil]
  /\ faults = 0

(* Nobody asks for a second page.                                          *)
FirstPage(files) ==
  {f \in files : Cardinality({g \in files : g < f}) < PageSize}

Goes(r, step) == pc' = [pc EXCEPT ![r] = step]
At(r, step, f) == pc[r] = step /\ f \in todo[r] /\ \A g \in todo[r] : f <= g

(* continue: on to the next object of the listing.                         *)
Continue(r, f, step) ==
  /\ todo' = [todo EXCEPT ![r] = @ \ {f}]
  /\ op' = [op EXCEPT ![r] = Nil]
  /\ Goes(r, step)

Fault == faults < MaxFaults /\ faults' = faults + 1
NoFault == UNCHANGED faults

-----------------------------------------------------------------------------
(* process_input_objects.                                                  *)

ListInput(r) ==
  /\ pc[r] = "idle"
  /\ todo' = [todo EXCEPT ![r] = FirstPage(input)]
  /\ Goes(r, "head")
  /\ NoFault /\ UNCHANGED <<bucket, task, op>>

(* Seeded: only a finished file counts as known.                           *)
KnownDone(f) == status[f] # Nil /\ status[f].done
Known(f) == status[f] # Nil

(* head_object: a status object keeps the file from being submitted.       *)
SkipKnown(r, f) ==
  /\ At(r, "head", f) /\ Known(f)
  /\ Continue(r, f, "head")
  /\ NoFault /\ UNCHANGED <<bucket, task>>

(* No status object; or head_object raised, which is taken for the same.   *)
ToSubmit(r, f) ==
  /\ At(r, "head", f)
  /\ IF Known(f) THEN Fault ELSE NoFault
  /\ Goes(r, "submit")
  /\ UNCHANGED <<bucket, task, todo, op>>

(* create_recognition_task.                                                *)
Submit(r, f) ==
  /\ At(r, "submit", f)
  /\ \E o \in Op : /\ task[o] = "free" /\ \A q \in Op : q < o => task[q] # "free"
                   /\ task' = [task EXCEPT ![o] = "running"]
                   /\ op' = [op EXCEPT ![r] = o]
  /\ Goes(r, "write")
  /\ NoFault /\ UNCHANGED <<bucket, todo>>

(* write_process_status.                                                   *)
WriteStatus(r, f) ==
  /\ At(r, "write", f)
  /\ status' = [status EXCEPT ![f] = [id |-> op[r], done |-> FALSE]]
  /\ Continue(r, f, "head")
  /\ NoFault /\ UNCHANGED <<input, task, json, text>>

(* Seeded: the result of a failed request is written all the same.         *)
SubmitFailsUnchecked(r, f) ==
  /\ At(r, "submit", f)
  /\ Fault
  /\ Goes(r, "write")
  /\ UNCHANGED <<bucket, task, todo, op>>

(* The request, or the upload after it, fails and is logged.               *)
SubmitFails(r, f) ==
  /\ At(r, "submit", f) \/ At(r, "write", f)
  /\ Fault
  /\ Continue(r, f, "head")
  /\ UNCHANGED <<bucket, task>>

-----------------------------------------------------------------------------
(* check_processing_objects.                                               *)

ListStatuses(r) ==
  /\ pc[r] = "head" /\ todo[r] = {}
  /\ todo' = [todo EXCEPT ![r] = FirstPage({f \in File : status[f] # Nil})]
  /\ Goes(r, "read")
  /\ NoFault /\ UNCHANGED <<bucket, task, op>>

SkipDone(r, f) ==
  /\ At(r, "read", f) /\ status[f].done
  /\ Continue(r, f, "read")
  /\ NoFault /\ UNCHANGED <<bucket, task>>

(* Seeded: a file with an answer in the output is not asked for again.     *)
ReadStatusOnce(r, f) ==
  /\ At(r, "read", f) /\ ~status[f].done /\ json[f] = Nil
  /\ op' = [op EXCEPT ![r] = status[f].id]
  /\ Goes(r, "poll")
  /\ NoFault /\ UNCHANGED <<bucket, task, todo>>

ReadStatus(r, f) ==
  /\ At(r, "read", f) /\ ~status[f].done
  /\ op' = [op EXCEPT ![r] = status[f].id]
  /\ Goes(r, "poll")
  /\ NoFault /\ UNCHANGED <<bucket, task, todo>>

Poll(r, f) ==
  /\ At(r, "poll", f)
  /\ IF task[op[r]] \in Finished
       THEN Goes(r, "json") /\ UNCHANGED <<todo, op>>
       ELSE Continue(r, f, "read")
  /\ NoFault /\ UNCHANGED <<bucket, task>>

(* An operation without chunks (it failed, say) has no text object.        *)
PutJson(r, f) ==
  /\ At(r, "json", f)
  /\ json' = [json EXCEPT ![f] = op[r]]
  /\ Goes(r, IF task[op[r]] = "chunks" THEN "text" ELSE "mark")
  /\ NoFault /\ UNCHANGED <<input, status, text, task, todo, op>>

PutText(r, f) ==
  /\ At(r, "text", f)
  /\ text' = [text EXCEPT ![f] = op[r]]
  /\ Goes(r, "mark")
  /\ NoFault /\ UNCHANGED <<input, status, json, task, todo, op>>

PutMark(r, f) ==
  /\ At(r, "mark", f)
  /\ status' = [status EXCEPT ![f] = [id |-> op[r], done |-> TRUE]]
  /\ Continue(r, f, "read")
  /\ NoFault /\ UNCHANGED <<input, json, text, task>>

(* Seeded: the continue after a failed upload of the text is missing.      *)
CheckFailsOn(r, f) ==
  /\ \E step \in {"read", "poll", "json", "text", "mark"} : At(r, step, f)
  /\ Fault
  /\ IF pc[r] = "text" THEN Goes(r, "mark") /\ UNCHANGED <<todo, op>>
                       ELSE Continue(r, f, "read")
  /\ UNCHANGED <<bucket, task>>

(* Reading, asking or one of the three uploads fails: log and continue.    *)
CheckFails(r, f) ==
  /\ \E step \in {"read", "poll", "json", "text", "mark"} : At(r, step, f)
  /\ Fault
  /\ Continue(r, f, "read")
  /\ UNCHANGED <<bucket, task>>

Rest(r) ==
  /\ Goes(r, "idle")
  /\ todo' = [todo EXCEPT ![r] = {}]
  /\ op' = [op EXCEPT ![r] = Nil]
  /\ UNCHANGED <<bucket, task>>

Return(r) == pc[r] = "read" /\ todo[r] = {} /\ NoFault /\ Rest(r)

(* The function runs into its timeout, or an exception nobody catches.     *)
Crash(r) == pc[r] # "idle" /\ Fault /\ Rest(r)

-----------------------------------------------------------------------------

Upload(f) ==
  /\ f \notin input
  /\ input' = input \cup {f}
  /\ NoFault /\ UNCHANGED <<status, json, text, task, pc, todo, op>>

Finish(o) ==
  /\ task[o] = "running"
  /\ \E end \in Finished : task' = [task EXCEPT ![o] = end]
  /\ NoFault /\ UNCHANGED <<bucket, pc, todo, op>>

InputStep(r, f) == SkipKnown(r, f) \/ ToSubmit(r, f) \/ Submit(r, f) \/ WriteStatus(r, f)

StatusStep(r, f) ==
  \/ SkipDone(r, f) \/ ReadStatus(r, f) \/ Poll(r, f)
  \/ PutJson(r, f) \/ PutText(r, f) \/ PutMark(r, f)

FailedStep(r, f) == SubmitFails(r, f) \/ CheckFails(r, f)

RunStep(r) ==
  \/ ListInput(r) \/ ListStatuses(r) \/ Return(r)
  \/ \E f \in File : InputStep(r, f) \/ StatusStep(r, f)

Next ==
  \/ \E r \in Run : RunStep(r) \/ Crash(r) \/ \E f \in File : FailedStep(r, f)
  \/ \E f \in File : Upload(f)
  \/ \E o \in Op : Finish(o)

Spec == Init /\ [][Next]_vars

(* The timer fires, runs go on, operations end.                            *)
FairSpec ==
  /\ Spec
  /\ \A r \in Run : WF_vars(RunStep(r))
  /\ \A o \in Op : WF_vars(Finish(o))

-----------------------------------------------------------------------------
(* Properties.                                                             *)

(* The results of a finished operation are in the output.                  *)
Stored(f, o) ==
  /\ task[o] \in Finished
  /\ json[f] # Nil
  /\ task[o] = "chunks" => text[f] # Nil

(* A done mark ends a file's treatment for good, so it must not be there   *)
(* before the results are, whichever uploads fail, wherever runs die and   *)
(* however they overlap.                                                   *)
DoneIsStored ==
  \A f \in File : (status[f] # Nil /\ status[f].done) => Stored(f, status[f].id)

(* Recognition is paid by the operation.  Overlapping runs may each submit *)
(* a file they found without a status object, and a fault may cost one     *)
(* more, but no file is submitted over and over.                           *)
SubmissionsBounded ==
  Cardinality({o \in Op : task[o] # "free"})
    <= Cardinality(input) * Cardinality(Run) + faults

(* The script "takes audio files from the bucket ..., sends them to        *)
(* recognition ... and saves the result" (README, line 3).                 *)
EveryFileEnds ==
  <>[](\A f \in input : status[f] # Nil /\ status[f].done /\ Stored(f, status[f].id))

=============================================================================
