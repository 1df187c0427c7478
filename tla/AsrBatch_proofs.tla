-------------------------- MODULE AsrBatch_proofs --------------------------
(* Theorems about the batch recognizer, for any number of files, runs,     *)
(* operations and faults.                                                  *)
EXTENDS AsrBatch, FiniteSetTheorems, TLAPS

Asking == {"poll", "json", "text", "mark"}

(* A run that has created or asks for an operation holds its id, and what  *)
(* the second pass goes through are files with a status object.            *)
Holding ==
  \A r \in Run :
    /\ pc[r] \in Asking \cup {"write"} => op[r] \in Op
    /\ pc[r] \in Asking \cup {"read"} => \A f \in todo[r] : status[f] # Nil

TypeInv == TypeOK /\ Holding

LEMMA TypeInit == Init => TypeInv
  BY SizesAssumption DEF Init, TypeInv, TypeOK, Holding, Asking

LEMMA FaultTyped == ASSUME TypeOK, Fault PROVE faults' \in 0 .. MaxFaults
  BY SizesAssumption DEF TypeOK, Fault

LEMMA ContinueTyped ==
  ASSUME TypeInv, NEW r \in Run, NEW f, Continue(r, f, "read"), pc[r] \in Asking \cup {"read"},
         status' = status
  PROVE  /\ pc' \in [Run -> {"idle", "head", "submit", "write", "read", "poll",
                             "json", "text", "mark"}]
         /\ todo' \in [Run -> SUBSET File]
         /\ op' \in [Run -> Op \cup {Nil}]
         /\ Holding'
  BY DEF TypeInv, TypeOK, Holding, Asking, Continue, Goes

(* The first pass.                                                         *)
LEMMA TypeInput ==
  ASSUME TypeInv, NEW r \in Run, NEW f \in File, InputStep(r, f) \/ SubmitFails(r, f)
  PROVE  TypeInv'
<1> USE DEF TypeInv, TypeOK, Holding, Asking, At, Goes, bucket
<1>1. CASE SkipKnown(r, f)
  BY <1>1 DEF SkipKnown, Continue, NoFault
<1>2. CASE ToSubmit(r, f)
  BY <1>2, FaultTyped DEF ToSubmit, NoFault
<1>3. CASE Submit(r, f)
  BY <1>3 DEF Submit, NoFault
<1>4. CASE WriteStatus(r, f)
  <2>1. op[r] \in Op
    BY <1>4 DEF WriteStatus
  <2>2. [id |-> op[r], done |-> FALSE] \in Status
    BY <2>1 DEF Status
  <2>3. [id |-> op[r], done |-> FALSE] # Nil
    BY <2>2, NilAssumption
  <2> QED BY <1>4, <2>2, <2>3 DEF WriteStatus, Continue, NoFault
<1>5. CASE SubmitFails(r, f)
  BY <1>5, FaultTyped DEF SubmitFails, Continue
<1> QED BY <1>1, <1>2, <1>3, <1>4, <1>5 DEF InputStep

(* The second pass.                                                        *)
LEMMA TypeStatus ==
  ASSUME TypeInv, NEW r \in Run, NEW f \in File, StatusStep(r, f) \/ CheckFails(r, f)
  PROVE  TypeInv'
<1> USE DEF TypeInv, TypeOK, Holding, Asking, At, Goes, bucket
<1>1. CASE SkipDone(r, f)
  BY <1>1, ContinueTyped DEF SkipDone, NoFault
<1>2. CASE ReadStatus(r, f)
  <2>1. status[f].id \in Op
    BY <1>2 DEF ReadStatus, Status
  <2> QED BY <1>2, <2>1 DEF ReadStatus, NoFault
<1>3. CASE Poll(r, f)
  <2>1. CASE task[op[r]] \in Finished
    BY <1>3, <2>1 DEF Poll, NoFault
  <2>2. CASE task[op[r]] \notin Finished
    BY <1>3, <2>2, ContinueTyped DEF Poll, NoFault
  <2> QED BY <2>1, <2>2
<1>4. CASE PutJson(r, f)
  BY <1>4 DEF PutJson, NoFault
<1>5. CASE PutText(r, f)
  BY <1>5 DEF PutText, NoFault
<1>6. CASE PutMark(r, f)
  <2>1. op[r] \in Op
    BY <1>6 DEF PutMark
  <2>2. [id |-> op[r], done |-> TRUE] \in Status
    BY <2>1 DEF Status
  <2>3. [id |-> op[r], done |-> TRUE] # Nil
    BY <2>2, NilAssumption
  <2> QED BY <1>6, <2>2, <2>3 DEF PutMark, Continue, NoFault
<1>7. CASE CheckFails(r, f)
  BY <1>7, FaultTyped, ContinueTyped DEF CheckFails
<1> QED BY <1>1, <1>2, <1>3, <1>4, <1>5, <1>6, <1>7 DEF StatusStep

LEMMA TypeRun ==
  ASSUME TypeInv, NEW r \in Run, ListInput(r) \/ ListStatuses(r) \/ Return(r) \/ Crash(r)
  PROVE  TypeInv'
<1> USE DEF TypeInv, TypeOK, Holding, Asking, Goes, bucket
<1>1. CASE ListInput(r)
  BY <1>1 DEF ListInput, FirstPage, NoFault
<1>2. CASE ListStatuses(r)
  BY <1>2 DEF ListStatuses, FirstPage, NoFault
<1>3. CASE Return(r)
  BY <1>3 DEF Return, Rest, NoFault
<1>4. CASE Crash(r)
  BY <1>4, FaultTyped DEF Crash, Rest
<1> QED BY <1>1, <1>2, <1>3, <1>4

LEMMA TypeStep == TypeInv /\ [Next]_vars => TypeInv'
<1> SUFFICES ASSUME TypeInv, [Next]_vars PROVE TypeInv'
  OBVIOUS
<1>1. ASSUME NEW r \in Run, RunStep(r) \/ Crash(r) \/ \E f \in File : FailedStep(r, f)
      PROVE  TypeInv'
  BY <1>1, TypeInput, TypeStatus, TypeRun DEF RunStep, FailedStep
<1>2. ASSUME NEW f \in File, Upload(f) PROVE TypeInv'
  BY <1>2 DEF TypeInv, TypeOK, Holding, Upload, NoFault
<1>3. ASSUME NEW o \in Op, Finish(o) PROVE TypeInv'
  BY <1>3 DEF TypeInv, TypeOK, Holding, Finish, NoFault, bucket
<1>4. CASE UNCHANGED vars
  BY <1>4 DEF TypeInv, TypeOK, Holding, vars, bucket
<1> QED BY <1>1, <1>2, <1>3, <1>4 DEF Next

(* Type correctness of main.py's state and of the objects in the bucket:   *)
(* every status object names an operation.                                 *)
THEOREM TypeCorrect == Spec => []TypeOK
<1>1. TypeInv => TypeOK
  BY DEF TypeInv
<1> QED BY <1>1, TypeInit, TypeStep, PTL DEF Spec

-----------------------------------------------------------------------------
(* DoneIsStored.  The invariant follows a run from the answer it has seen  *)
(* to the mark: an operation seen finished stays finished, an object once  *)
(* stored stays, so what a run has stored before its mark is still there   *)
(* at the mark, whatever other runs do meanwhile.                          *)

Used ==
  /\ \A f \in File : status[f] # Nil => task[status[f].id] # "free"
  /\ \A r \in Run : pc[r] \in Asking \cup {"write"} => task[op[r]] # "free"

Stage(r, f) ==
  /\ pc[r] \in {"json", "text", "mark"} => task[op[r]] \in Finished
  /\ At(r, "text", f) => json[f] # Nil
  /\ At(r, "mark", f) => Stored(f, op[r])

Staged == \A r \in Run, f \in File : Stage(r, f)

DoneInv == TypeInv /\ Used /\ Staged /\ DoneIsStored

(* What never goes back: used operations, finished ones, stored objects.   *)
Grows ==
  /\ \A o \in Op : task[o] # "free" => task'[o] # "free"
  /\ \A o \in Op : task[o] \in Finished => task'[o] = task[o]
  /\ \A f \in File : json[f] # Nil => json'[f] # Nil
  /\ \A f \in File : text[f] # Nil => text'[f] # Nil

LEMMA InputGrows ==
  ASSUME TypeInv, NEW r \in Run, NEW f \in File, InputStep(r, f) \/ SubmitFails(r, f)
  PROVE  Grows
<1>1. CASE SkipKnown(r, f) \/ ToSubmit(r, f) \/ WriteStatus(r, f) \/ SubmitFails(r, f)
  BY <1>1 DEF SkipKnown, ToSubmit, WriteStatus, SubmitFails, Grows, bucket
<1>2. CASE Submit(r, f)
  BY <1>2 DEF Submit, Grows, bucket, TypeInv, TypeOK, Finished
<1> QED BY <1>1, <1>2 DEF InputStep

LEMMA StatusGrows ==
  ASSUME TypeInv, NEW r \in Run, NEW f \in File, StatusStep(r, f) \/ CheckFails(r, f)
  PROVE  Grows
<1>1. CASE SkipDone(r, f) \/ ReadStatus(r, f) \/ Poll(r, f) \/ PutMark(r, f) \/ CheckFails(r, f)
  BY <1>1 DEF SkipDone, ReadStatus, Poll, PutMark, CheckFails, Grows, bucket
<1>2. CASE PutJson(r, f) \/ PutText(r, f)
  <2>1. op[r] \in Op /\ op[r] # Nil
    BY <1>2, NilAssumption DEF PutJson, PutText, At, TypeInv, Holding, Asking
  <2> QED BY <1>2, <2>1 DEF PutJson, PutText, Grows, TypeInv, TypeOK
<1> QED BY <1>1, <1>2 DEF StatusStep

LEMMA StoredStays ==
  ASSUME Grows, NEW f \in File, NEW o \in Op, Stored(f, o)
  PROVE  Stored(f, o)'
  BY DEF Grows, Stored

(* A run that does not move keeps its stage.                               *)
LEMMA OthersStage ==
  ASSUME DoneInv, Grows, NEW r \in Run, NEW f \in File,
         pc'[r] = pc[r], todo'[r] = todo[r], op'[r] = op[r]
  PROVE  /\ pc'[r] \in Asking \cup {"write"} => task'[op'[r]] # "free"
         /\ Stage(r, f)'
<1>1. pc[r] \in Asking \cup {"write"} => op[r] \in Op
  BY DEF DoneInv, TypeInv, Holding
<1>2. pc'[r] \in Asking \cup {"write"} => task'[op'[r]] # "free"
  BY <1>1 DEF DoneInv, Used, Grows
<1>3. pc'[r] \in {"json", "text", "mark"} => task'[op'[r]] \in Finished
  BY <1>1 DEF DoneInv, Staged, Stage, Grows, Asking
<1>4. At(r, "text", f)' => json'[f] # Nil
  BY DEF DoneInv, Staged, Stage, Grows, At
<1>5. At(r, "mark", f)' => Stored(f, op[r])'
  BY <1>1, StoredStays DEF DoneInv, Staged, Stage, At, Asking
<1> QED BY <1>2, <1>3, <1>4, <1>5 DEF Stage

(* Objects and operations that are not written keep their part.            *)
LEMMA BucketKept ==
  ASSUME DoneInv, Grows, status' = status
  PROVE  /\ \A f \in File : status'[f] # Nil => task'[status'[f].id] # "free"
         /\ DoneIsStored'
<1>1. ASSUME NEW f \in File, status[f] # Nil PROVE status[f].id \in Op
  BY <1>1 DEF DoneInv, TypeInv, TypeOK, Status
<1> QED BY <1>1, StoredStays DEF DoneInv, Used, DoneIsStored, Grows

Still(u) == pc'[u] = pc[u] /\ todo'[u] = todo[u] /\ op'[u] = op[u]

(* What is left to show of a step of one run.                              *)
LEMMA OneRun ==
  ASSUME DoneInv, TypeInv', Grows, NEW r \in Run,
         \A u \in Run \ {r} : Still(u),
         \A f \in File : status'[f] # Nil => task'[status'[f].id] # "free",
         DoneIsStored',
         pc'[r] \in Asking \cup {"write"} => task'[op'[r]] # "free",
         \A f \in File : Stage(r, f)'
  PROVE  DoneInv'
<1>1. ASSUME NEW u \in Run, u # r, NEW f \in File
      PROVE  Stage(u, f)'
  BY <1>1, OthersStage DEF Still
<1>2. ASSUME NEW u \in Run, u # r, NEW f \in File
      PROVE  pc'[u] \in Asking \cup {"write"} => task'[op'[u]] # "free"
  BY <1>2, OthersStage DEF Still
<1>3. CASE File # {}
  <2>1. Used'
    BY <1>2, <1>3 DEF Used
  <2>2. Staged'
    BY <1>1 DEF Staged
  <2> QED BY <2>1, <2>2 DEF DoneInv
<1>4. CASE File = {}
  <2>1. ASSUME NEW u \in Run, u # r
        PROVE  pc'[u] \in Asking \cup {"write"} => task'[op'[u]] # "free"
    BY <2>1 DEF Still, DoneInv, TypeInv, Holding, Used, Grows
  <2>2. Used' /\ Staged'
    BY <1>4, <2>1 DEF Used, Staged
  <2> QED BY <2>2 DEF DoneInv
<1> QED BY <1>3, <1>4

LEMMA FirstIsOne ==
  ASSUME TypeInv, NEW r \in Run, NEW f \in File, NEW step, At(r, step, f),
         NEW g \in todo[r], \A h \in todo[r] : g <= h
  PROVE  g = f
<1>1. f \in todo[r] /\ f <= g /\ g <= f
  BY DEF At
<1>2. f \in Nat /\ g \in Nat
  BY SizesAssumption DEF TypeInv, TypeOK, File
<1> QED BY <1>1, <1>2

LEMMA InputDone ==
  ASSUME DoneInv, NEW r \in Run, NEW f \in File, InputStep(r, f) \/ SubmitFails(r, f)
  PROVE  DoneInv'
<1>1. TypeInv /\ TypeInv' /\ Grows
  BY TypeInput, InputGrows DEF DoneInv
<1>2. \A u \in Run \ {r} : Still(u)
  BY <1>1 DEF InputStep, SkipKnown, ToSubmit, Submit, WriteStatus, SubmitFails,
              Continue, Goes, Still, TypeInv, TypeOK
<1>3. pc'[r] \in {"head", "submit", "write"}
  BY <1>1 DEF InputStep, SkipKnown, ToSubmit, Submit, WriteStatus, SubmitFails,
              Continue, Goes, TypeInv, TypeOK
<1>4. \A g \in File : Stage(r, g)'
  BY <1>3 DEF Stage, At
<1>5. pc'[r] \in Asking \cup {"write"} => task'[op'[r]] # "free"
  <2>1. CASE Submit(r, f)
    BY <1>1, <2>1 DEF Submit, TypeInv, TypeOK
  <2>2. CASE ~Submit(r, f)
    BY <1>1, <2>2 DEF InputStep, SkipKnown, ToSubmit, WriteStatus, SubmitFails,
                      Continue, Goes, Asking, TypeInv, TypeOK
  <2> QED BY <2>1, <2>2
<1>6. /\ \A g \in File : status'[g] # Nil => task'[status'[g].id] # "free"
      /\ DoneIsStored'
  <2>1. CASE WriteStatus(r, f)
    <3>1. /\ status' = [status EXCEPT ![f] = [id |-> op[r], done |-> FALSE]]
          /\ UNCHANGED <<task, json, text>>
      BY <2>1 DEF WriteStatus
    <3>2. task[op[r]] # "free"
      BY <2>1 DEF WriteStatus, At, DoneInv, Used
    <3>3. ASSUME NEW g \in File, g # f PROVE status'[g] = status[g]
      BY <1>1, <3>1, <3>3 DEF TypeInv, TypeOK
    <3>4. status'[f] = [id |-> op[r], done |-> FALSE]
      BY <1>1, <3>1 DEF TypeInv, TypeOK
    <3> QED BY <3>1, <3>2, <3>3, <3>4 DEF DoneInv, Used, DoneIsStored, Stored
  <2>2. CASE ~WriteStatus(r, f)
    <3>1. status' = status
      BY <2>2 DEF InputStep, SkipKnown, ToSubmit, Submit, SubmitFails, bucket
    <3> QED BY <1>1, <3>1, BucketKept
  <2> QED BY <2>1, <2>2
<1> QED BY <1>1, <1>2, <1>4, <1>5, <1>6, OneRun

LEMMA StatusDone ==
  ASSUME DoneInv, NEW r \in Run, NEW f \in File, StatusStep(r, f) \/ CheckFails(r, f)
  PROVE  DoneInv'
<1>1. TypeInv /\ TypeInv' /\ Grows
  BY TypeStatus, StatusGrows DEF DoneInv
<1>2. \A u \in Run \ {r} : Still(u)
  BY <1>1 DEF StatusStep, SkipDone, ReadStatus, Poll, PutJson, PutText, PutMark, CheckFails,
              Continue, Goes, Still, TypeInv, TypeOK
<1>3. ASSUME pc'[r] = "read"
      PROVE  /\ pc'[r] \in Asking \cup {"write"} => task'[op'[r]] # "free"
             /\ \A g \in File : Stage(r, g)'
  BY <1>3 DEF Asking, Stage, At
<1>4. ASSUME status' = status
      PROVE  /\ \A g \in File : status'[g] # Nil => task'[status'[g].id] # "free"
             /\ DoneIsStored'
  BY <1>1, <1>4, BucketKept
<1>5. CASE SkipDone(r, f) \/ CheckFails(r, f)
  <2>1. pc'[r] = "read" /\ status' = status
    BY <1>1, <1>5 DEF SkipDone, CheckFails, Continue, Goes, bucket, TypeInv, TypeOK
  <2> QED BY <1>1, <1>2, <1>3, <1>4, <2>1, OneRun
<1>6. CASE ReadStatus(r, f)
  <2>1. pc'[r] = "poll" /\ op'[r] = status[f].id /\ status' = status /\ task' = task
    BY <1>1, <1>6 DEF ReadStatus, Goes, bucket, TypeInv, TypeOK
  <2>2. status[f] # Nil
    BY <1>1, <1>6 DEF ReadStatus, At, TypeInv, Holding
  <2>3. task'[op'[r]] # "free"
    BY <2>1, <2>2 DEF DoneInv, Used
  <2>4. \A g \in File : Stage(r, g)'
    BY <2>1 DEF Stage, At
  <2> QED BY <1>1, <1>2, <1>4, <2>1, <2>3, <2>4, OneRun
<1>7. CASE Poll(r, f)
  <2>1. status' = status /\ task' = task
    BY <1>7 DEF Poll, bucket
  <2>2. CASE task[op[r]] \in Finished
    <3>1. pc'[r] = "json" /\ op'[r] = op[r]
      BY <1>1, <1>7, <2>2 DEF Poll, Goes, TypeInv, TypeOK
    <3>2. task'[op'[r]] # "free" /\ \A g \in File : Stage(r, g)'
      BY <2>1, <2>2, <3>1 DEF Stage, At, Finished
    <3> QED BY <1>1, <1>2, <1>4, <2>1, <3>2, OneRun
  <2>3. CASE task[op[r]] \notin Finished
    <3>1. pc'[r] = "read"
      BY <1>1, <1>7, <2>3 DEF Poll, Continue, Goes, TypeInv, TypeOK
    <3> QED BY <1>1, <1>2, <1>3, <1>4, <2>1, <3>1, OneRun
  <2> QED BY <2>2, <2>3
<1>8. CASE PutJson(r, f) \/ PutText(r, f)
  <2>1. /\ status' = status /\ task' = task /\ op' = op /\ todo' = todo
        /\ pc'[r] \in {"text", "mark"} /\ pc[r] \in {"json", "text"}
    BY <1>1, <1>8 DEF PutJson, PutText, At, Goes, TypeInv, TypeOK
  <2>2. op[r] \in Op /\ op[r] # Nil
    BY <1>1, <2>1, NilAssumption DEF TypeInv, Holding, Asking
  <2>3. task[op[r]] \in Finished
    BY <2>1 DEF DoneInv, Staged, Stage
  <2>4. json'[f] # Nil
    <3>1. CASE PutJson(r, f)
      BY <1>1, <2>2, <3>1 DEF PutJson, TypeInv, TypeOK
    <3>2. CASE PutText(r, f)
      BY <3>2 DEF PutText, DoneInv, Staged, Stage
    <3> QED BY <1>8, <3>1, <3>2
  <2>5. pc'[r] = "mark" /\ task[op[r]] = "chunks" => text'[f] # Nil
    <3>1. CASE PutJson(r, f)
      BY <1>1, <3>1 DEF PutJson, Goes, TypeInv, TypeOK
    <3>2. CASE PutText(r, f)
      BY <1>1, <2>2, <3>2 DEF PutText, TypeInv, TypeOK
    <3> QED BY <1>8, <3>1, <3>2
  <2>6. ASSUME NEW g \in File PROVE Stage(r, g)'
    <3>1. ASSUME At(r, "text", g)' \/ At(r, "mark", g)' PROVE g = f
      <4>1. g \in todo[r] /\ \A h \in todo[r] : g <= h
        BY <2>1, <3>1 DEF At
      <4>2. PICK step : At(r, step, f)
        BY <1>8 DEF PutJson, PutText
      <4> QED BY <1>1, <4>1, <4>2, FirstIsOne
    <3> QED BY <2>1, <2>3, <2>4, <2>5, <3>1 DEF Stage, Stored, At
  <2>7. task'[op'[r]] # "free"
    BY <2>1, <2>3 DEF Finished
  <2> QED BY <1>1, <1>2, <1>4, <2>1, <2>6, <2>7, OneRun
<1>9. CASE PutMark(r, f)
  <2>1. /\ status' = [status EXCEPT ![f] = [id |-> op[r], done |-> TRUE]]
        /\ UNCHANGED <<task, json, text>> /\ At(r, "mark", f) /\ pc'[r] = "read"
    BY <1>1, <1>9 DEF PutMark, Continue, Goes, TypeInv, TypeOK
  <2>2. Stored(f, op[r]) /\ task[op[r]] # "free"
    BY <2>1 DEF DoneInv, Staged, Stage, Stored, Finished
  <2>3. ASSUME NEW g \in File, g # f PROVE status'[g] = status[g]
    BY <1>1, <2>1, <2>3 DEF TypeInv, TypeOK
  <2>4. status'[f] = [id |-> op[r], done |-> TRUE]
    BY <1>1, <2>1 DEF TypeInv, TypeOK
  <2>5. \A g \in File : status'[g] # Nil => task'[status'[g].id] # "free"
    BY <2>1, <2>2, <2>3, <2>4 DEF DoneInv, Used
  <2>6. DoneIsStored'
    BY <2>1, <2>2, <2>3, <2>4 DEF DoneInv, DoneIsStored, Stored
  <2> QED BY <1>1, <1>2, <1>3, <2>1, <2>5, <2>6, OneRun
<1> QED BY <1>5, <1>6, <1>7, <1>8, <1>9 DEF StatusStep

LEMMA RunDone ==
  ASSUME DoneInv, NEW r \in Run, ListInput(r) \/ ListStatuses(r) \/ Return(r) \/ Crash(r)
  PROVE  DoneInv'
<1>1. TypeInv /\ TypeInv'
  BY TypeRun DEF DoneInv
<1>2. status' = status /\ Grows
  BY DEF ListInput, ListStatuses, Return, Crash, Rest, bucket, Grows
<1>3. (\A u \in Run \ {r} : Still(u)) /\ pc'[r] \in {"head", "read", "idle"}
  BY <1>1 DEF ListInput, ListStatuses, Return, Crash, Rest, Goes, Still, TypeInv, TypeOK
<1>4. /\ pc'[r] \in Asking \cup {"write"} => task'[op'[r]] # "free"
      /\ \A g \in File : Stage(r, g)'
  BY <1>3 DEF Asking, Stage, At
<1> QED BY <1>1, <1>2, <1>3, <1>4, BucketKept, OneRun

LEMMA OutsideDone ==
  ASSUME DoneInv, (\E f \in File : Upload(f)) \/ (\E o \in Op : Finish(o)) \/ UNCHANGED vars
  PROVE  DoneInv'
<1>1. TypeInv /\ TypeInv'
  BY TypeStep DEF DoneInv, Next
<1>2. status' = status /\ pc' = pc /\ todo' = todo /\ op' = op
  BY DEF Upload, Finish, vars, bucket
<1>3. Grows
  BY <1>1 DEF Upload, Finish, vars, bucket, Grows, TypeInv, TypeOK, Finished
<1>4. Used'
  BY <1>1, <1>2, <1>3, BucketKept DEF Used, DoneInv, TypeInv, Holding, Grows
<1>5. Staged'
  BY <1>2, <1>3, OthersStage DEF Staged
<1> QED BY <1>1, <1>2, <1>3, <1>4, <1>5, BucketKept DEF DoneInv

LEMMA DoneStep == DoneInv /\ [Next]_vars => DoneInv'
  BY InputDone, StatusDone, RunDone, OutsideDone DEF Next, RunStep, FailedStep

LEMMA DoneInit == Init => DoneInv
<1> SUFFICES ASSUME Init PROVE DoneInv
  OBVIOUS
<1>1. TypeInv
  BY TypeInit
<1>2. Used /\ Staged /\ DoneIsStored
  BY DEF Init, Used, Staged, Stage, At, DoneIsStored, Asking
<1> QED BY <1>1, <1>2 DEF DoneInv

(* A file whose status object is marked done has its .json, and its .txt   *)
(* if the operation had chunks: whichever uploads fail, wherever runs die  *)
(* and however many overlap.                                               *)
THEOREM DoneStored == Spec => []DoneIsStored
<1>1. DoneInv => DoneIsStored
  BY DEF DoneInv
<1> QED BY <1>1, DoneInit, DoneStep, PTL DEF Spec

-----------------------------------------------------------------------------
(* SubmissionsBounded.  Every operation is charged to a run slot and a     *)
(* file, or to a fault.  A slot has spent its submission of a file while   *)
(* the status object is to be written, and when the file has one, unless   *)
(* it is about to submit it all the same.                                  *)

Spent(r, f) == At(r, "write", f) \/ (status[f] # Nil /\ ~At(r, "submit", f))
Paid == {p \in Run \X File : Spent(p[1], p[2])}
Created == {o \in Op : task[o] # "free"}

Uploaded ==
  /\ \A f \in File : status[f] # Nil => f \in input
  /\ \A r \in Run : todo[r] \subseteq input

Charged == Cardinality(Created) <= Cardinality(Paid) + faults

(* What a step does to the account.                                        *)
Even == Created' = Created /\ Paid \subseteq Paid' /\ faults' >= faults
Buys ==
  \E o, p : /\ Created' = Created \cup {o} /\ faults' = faults
            /\ Paid \cup {p} \subseteq Paid' /\ p \notin Paid
Costs == \E p : Created' = Created /\ Paid \ {p} \subseteq Paid' /\ faults' = faults + 1

LEMMA AccountFinite ==
  ASSUME IsFiniteSet(Run)
  PROVE  IsFiniteSet(Created) /\ IsFiniteSet(Paid)
<1>1. IsFiniteSet(Op) /\ IsFiniteSet(File)
  BY FS_Interval, SizesAssumption DEF Op, File
<1>2. IsFiniteSet(Run \X File)
  BY <1>1, FS_Product
<1> QED BY <1>1, <1>2, FS_Subset DEF Created, Paid

LEMMA AccountBalanced ==
  ASSUME IsFiniteSet(Run), IsFiniteSet(Created'), IsFiniteSet(Paid'),
         TypeOK, TypeOK', Charged, Even \/ Buys \/ Costs
  PROVE  Charged'
<1>1. IsFiniteSet(Created) /\ IsFiniteSet(Paid)
  BY AccountFinite
<1>2. /\ Cardinality(Created) \in Nat /\ Cardinality(Paid) \in Nat
      /\ Cardinality(Created)' \in Nat /\ Cardinality(Paid)' \in Nat
      /\ faults \in Nat /\ faults' \in Nat
  BY <1>1, FS_CardinalityType, SizesAssumption DEF TypeOK
<1>3. CASE Even
  <2>1. Cardinality(Paid) <= Cardinality(Paid)'
    BY <1>3, FS_Subset DEF Even
  <2> QED BY <1>2, <1>3, <2>1 DEF Even, Charged
<1>4. CASE Buys
  <2>1. PICK o, p : /\ Created' = Created \cup {o} /\ faults' = faults
                    /\ Paid \cup {p} \subseteq Paid' /\ p \notin Paid
    BY <1>4 DEF Buys
  <2>2. Cardinality(Created)' <= Cardinality(Created) + 1
    <3>1. Cardinality(Created \cup {o}) =
            IF o \in Created THEN Cardinality(Created) ELSE Cardinality(Created) + 1
      BY <1>1, FS_AddElement
    <3> QED BY <1>2, <2>1, <3>1
  <2>3. Cardinality(Paid \cup {p}) = Cardinality(Paid) + 1
    BY <1>1, <2>1, FS_AddElement
  <2>4. Cardinality(Paid \cup {p}) <= Cardinality(Paid)'
    BY <2>1, FS_Subset
  <2> QED BY <1>2, <2>1, <2>2, <2>3, <2>4 DEF Charged
<1>5. CASE Costs
  <2>1. PICK p : /\ Created' = Created /\ faults' = faults + 1
                 /\ Paid \ {p} \subseteq Paid'
    BY <1>5 DEF Costs
  <2>2. Cardinality(Paid \ {p}) >= Cardinality(Paid) - 1
    <3>1. Cardinality(Paid \ {p}) = IF p \in Paid THEN Cardinality(Paid) - 1 ELSE Cardinality(Paid)
      BY <1>1, FS_RemoveElement
    <3> QED BY <1>2, <3>1
  <2>3. Cardinality(Paid \ {p}) <= Cardinality(Paid)' /\ Cardinality(Paid \ {p}) \in Nat
    BY <1>1, <2>1, FS_Subset, FS_RemoveElement, FS_CardinalityType
  <2> QED BY <1>2, <2>1, <2>2, <2>3 DEF Charged
<1> QED BY <1>3, <1>4, <1>5

(* What another run does leaves a slot's account alone.                    *)
LEMMA OthersPay ==
  ASSUME NEW s \in Run, NEW g \in File, pc'[s] = pc[s], todo'[s] = todo[s],
         status[g] # Nil => status'[g] # Nil, Spent(s, g)
  PROVE  Spent(s, g)'
  BY DEF Spent, At

(* A step of run r that pays for nothing it had not paid for already.      *)
LEMMA OneRunPays ==
  ASSUME TypeOK, NEW r \in Run, NEW file,
         \A s \in Run \ {r} : pc'[s] = pc[s] /\ todo'[s] = todo[s],
         \A g \in File : status[g] # Nil => status'[g] # Nil,
         \A g \in File \ {file} : Spent(r, g) => Spent(r, g)'
  PROVE  /\ Paid \ {<<r, file>>} \subseteq Paid'
         /\ (file \in File /\ Spent(r, file) => Spent(r, file)') => Paid \subseteq Paid'
<1>1. ASSUME NEW p \in Paid, p # <<r, file>> PROVE p \in Paid'
  <2>1. p \in Run \X File /\ Spent(p[1], p[2])
    BY <1>1 DEF Paid
  <2>2. PICK s \in Run, g \in File : p = <<s, g>>
    BY <2>1
  <2>3. Spent(s, g)
    BY <2>1, <2>2
  <2>4. Spent(s, g)'
    <3>1. CASE s = r
      BY <1>1, <2>2, <2>3, <3>1
    <3>2. CASE s # r
      BY <2>3, <3>2, OthersPay
    <3> QED BY <3>1, <3>2
  <2> QED BY <2>2, <2>4 DEF Paid
<1>2. ASSUME file \in File /\ Spent(r, file) => Spent(r, file)', <<r, file>> \in Paid
      PROVE  <<r, file>> \in Paid'
  <2>1. file \in File /\ Spent(r, file)
    BY <1>2 DEF Paid
  <2> QED BY <1>2, <2>1 DEF Paid
<1> QED BY <1>1, <1>2

LEMMA InputPays ==
  ASSUME TypeInv, TypeOK', NEW r \in Run, NEW f \in File, InputStep(r, f) \/ SubmitFails(r, f)
  PROVE  Even \/ Buys \/ Costs
<1> USE DEF TypeInv, TypeOK, At, Goes
<1>1. ASSUME NEW g \in File, g # f, Spent(r, g) PROVE Spent(r, g)'
  <2>1. f \in todo[r] /\ \A h \in todo[r] : f <= h
    BY DEF InputStep, SkipKnown, ToSubmit, Submit, WriteStatus, SubmitFails
  <2>2. ~(g \in todo[r] /\ \A h \in todo[r] : g <= h)
    <3>1. ~(f <= g /\ g <= f)
      BY <1>1, SizesAssumption DEF File
    <3> QED BY <2>1, <3>1
  <2>3. status[g] # Nil
    BY <1>1, <2>2 DEF Spent
  <2>4. status'[g] = status[g]
    BY <1>1 DEF InputStep, SkipKnown, ToSubmit, Submit, WriteStatus, SubmitFails, bucket
  <2>5. pc'[r] # "submit" \/ todo'[r] = todo[r]
    BY DEF InputStep, SkipKnown, ToSubmit, Submit, WriteStatus, SubmitFails, Continue
  <2> QED BY <2>2, <2>3, <2>4, <2>5 DEF Spent
<1>2. \A s \in Run \ {r} : pc'[s] = pc[s] /\ todo'[s] = todo[s]
  BY DEF InputStep, SkipKnown, ToSubmit, Submit, WriteStatus, SubmitFails, Continue
<1>3. CASE WriteStatus(r, f)
  <2>1. [id |-> op[r], done |-> FALSE] # Nil /\ status' = [status EXCEPT ![f] = [id |-> op[r], done |-> FALSE]]
    <3>1. op[r] \in Op
      BY <1>3 DEF WriteStatus, Holding
    <3>2. [id |-> op[r], done |-> FALSE] \in Status
      BY <3>1 DEF Status
    <3> QED BY <1>3, <3>2, NilAssumption DEF WriteStatus
  <2>2. status'[f] # Nil /\ \A g \in File : status[g] # Nil => status'[g] # Nil
    BY <2>1
  <2>3. pc'[r] = "head"
    BY <1>3 DEF WriteStatus, Continue
  <2>4. Spent(r, f)'
    BY <2>2, <2>3 DEF Spent
  <2>5. Paid \subseteq Paid'
    BY <1>1, <1>2, <2>2, <2>4, OneRunPays
  <2> QED BY <1>3, <2>5 DEF WriteStatus, NoFault, Created, Even
<1>4. ASSUME status' = status
      PROVE  /\ Paid \ {<<r, f>>} \subseteq Paid'
             /\ (Spent(r, f) => Spent(r, f)') => Paid \subseteq Paid'
  BY <1>1, <1>2, <1>4, OneRunPays
<1>5. CASE SkipKnown(r, f)
  <2>1. Spent(r, f)'
    BY <1>5 DEF SkipKnown, Continue, Known, Spent, bucket
  <2> QED BY <1>4, <1>5, <2>1 DEF SkipKnown, NoFault, Created, Even, bucket
<1>6. CASE ToSubmit(r, f)
  <2>1. CASE Known(f)
    BY <1>4, <1>6, <2>1 DEF ToSubmit, Fault, Created, Costs, bucket
  <2>2. CASE ~Known(f)
    <3>1. ~Spent(r, f)
      BY <1>6, <2>2 DEF ToSubmit, Known, Spent
    <3> QED BY <1>4, <1>6, <2>2, <3>1 DEF ToSubmit, NoFault, Created, Even, bucket
  <2> QED BY <2>1, <2>2
<1>7. CASE Submit(r, f)
  <2>1. ~Spent(r, f) /\ Spent(r, f)'
    BY <1>7 DEF Submit, Spent
  <2>2. Paid \cup {<<r, f>>} \subseteq Paid' /\ <<r, f>> \notin Paid
    BY <1>4, <1>7, <2>1 DEF Submit, Paid, bucket
  <2>3. PICK o \in Op : task' = [task EXCEPT ![o] = "running"]
    BY <1>7 DEF Submit
  <2>4. Created' = Created \cup {o}
    BY <2>3 DEF Created
  <2> QED BY <1>7, <2>2, <2>4 DEF Submit, NoFault, Buys
<1>8. CASE SubmitFails(r, f)
  BY <1>4, <1>8 DEF SubmitFails, Fault, Created, Costs, bucket
<1> QED BY <1>3, <1>5, <1>6, <1>7, <1>8 DEF InputStep

LEMMA StatusPays ==
  ASSUME TypeInv, TypeOK', NEW r \in Run, NEW f \in File, StatusStep(r, f) \/ CheckFails(r, f)
  PROVE  Even
<1> USE DEF TypeInv, TypeOK, At, Goes
<1>1. pc'[r] \in Asking \cup {"read"} /\ faults' >= faults /\ task' = task
  BY SizesAssumption DEF StatusStep, SkipDone, ReadStatus, Poll, PutJson, PutText, PutMark,
     CheckFails, Continue, NoFault, Fault, bucket, Asking
<1>2. \A s \in Run \ {r} : pc'[s] = pc[s] /\ todo'[s] = todo[s]
  BY DEF StatusStep, SkipDone, ReadStatus, Poll, PutJson, PutText, PutMark, CheckFails, Continue
<1>3. \A g \in File : status[g] # Nil => status'[g] # Nil
  <2>1. CASE PutMark(r, f)
    <3>1. [id |-> op[r], done |-> TRUE] # Nil
      <4>1. op[r] \in Op
        BY <2>1 DEF PutMark, Holding, Asking
      <4>2. [id |-> op[r], done |-> TRUE] \in Status
        BY <4>1 DEF Status
      <4> QED BY <4>2, NilAssumption
    <3> QED BY <2>1, <3>1 DEF PutMark
  <2>2. CASE status' = status
    BY <2>2
  <2> QED BY <2>1, <2>2 DEF StatusStep, SkipDone, ReadStatus, Poll, PutJson, PutText, CheckFails, bucket
<1>4. pc[r] \in Asking \cup {"read"}
  BY DEF StatusStep, SkipDone, ReadStatus, Poll, PutJson, PutText, PutMark, CheckFails, Asking
<1>5. \A g \in File : Spent(r, g) => Spent(r, g)'
  BY <1>1, <1>3, <1>4 DEF Spent, Asking
<1>6. Paid \subseteq Paid'
  BY <1>2, <1>3, <1>5, OneRunPays
<1> QED BY <1>1, <1>6 DEF Created, Even

LEMMA RunPays ==
  ASSUME TypeInv, TypeOK', NEW r \in Run, ListInput(r) \/ ListStatuses(r) \/ Return(r) \/ Crash(r)
  PROVE  Even \/ Costs
<1> USE DEF TypeInv, TypeOK, Goes
<1>1. status' = status /\ task' = task /\ pc'[r] \in {"head", "read", "idle"}
  BY DEF ListInput, ListStatuses, Return, Crash, Rest, bucket
<1>2. \A s \in Run \ {r} : pc'[s] = pc[s] /\ todo'[s] = todo[s]
  BY DEF ListInput, ListStatuses, Return, Crash, Rest
<1>3. \A g \in File : Spent(r, g) => Spent(r, g)' \/ At(r, "write", g)
  BY <1>1 DEF Spent, At
<1>4. CASE ListInput(r) \/ ListStatuses(r) \/ Return(r)
  <2>1. \A g \in File : ~At(r, "write", g)
    BY <1>4 DEF ListInput, ListStatuses, Return, At
  <2>2. Paid \subseteq Paid'
    BY <1>1, <1>2, <1>3, <2>1, OneRunPays
  <2> QED BY <1>1, <1>4, <2>2 DEF ListInput, ListStatuses, Return, NoFault, Created, Even
<1>5. CASE Crash(r)
  <2>1. PICK f : \A g \in File : At(r, "write", g) => g = f
    <3>1. \A g, h \in File : At(r, "write", g) /\ At(r, "write", h) => g = h
      BY SizesAssumption DEF At, File
    <3> QED BY <3>1
  <2>2. \A g \in File \ {f} : Spent(r, g) => Spent(r, g)'
    BY <1>3, <2>1
  <2>3. Paid \ {<<r, f>>} \subseteq Paid'
    BY <1>1, <1>2, <2>2, OneRunPays
  <2> QED BY <1>1, <1>5, <2>3 DEF Crash, Fault, Created, Costs
<1> QED BY <1>4, <1>5

LEMMA StepPays ==
  ASSUME TypeInv, TypeOK', [Next]_vars
  PROVE  Even \/ Buys \/ Costs
<1>1. ASSUME NEW r \in Run, RunStep(r) \/ Crash(r) \/ \E f \in File : FailedStep(r, f)
      PROVE  Even \/ Buys \/ Costs
  BY <1>1, InputPays, StatusPays, RunPays DEF RunStep, FailedStep
<1>2. ASSUME status' = status, pc' = pc, todo' = todo PROVE Paid' = Paid
  BY <1>2 DEF Paid, Spent, At
<1>3. faults \in Nat
  BY SizesAssumption DEF TypeInv, TypeOK
<1>4. ASSUME NEW f \in File, Upload(f) PROVE Even
  BY <1>2, <1>3, <1>4 DEF Upload, NoFault, Created, Even
<1>5. ASSUME NEW o \in Op, Finish(o) PROVE Even
  <2>1. Created' = Created
    BY <1>5 DEF Finish, Created, Finished, TypeInv, TypeOK
  <2> QED BY <1>2, <1>3, <1>5, <2>1 DEF Finish, NoFault, Even, bucket
<1>6. CASE UNCHANGED vars
  BY <1>2, <1>3, <1>6 DEF vars, bucket, Created, Even
<1> QED BY <1>1, <1>4, <1>5, <1>6 DEF Next

(* Only files that were uploaded have a status object or are listed.       *)
LEMMA UploadedStep == TypeInv /\ Uploaded /\ [Next]_vars => Uploaded'
<1> SUFFICES ASSUME TypeInv, Uploaded, [Next]_vars PROVE Uploaded'
  OBVIOUS
<1> USE DEF TypeInv, TypeOK, Uploaded, At, Goes, bucket
<1>1. ASSUME NEW r \in Run, NEW f \in File, InputStep(r, f) PROVE Uploaded'
  BY <1>1 DEF InputStep, SkipKnown, ToSubmit, Submit, WriteStatus, Continue
<1>2. ASSUME NEW r \in Run, NEW f \in File, StatusStep(r, f) PROVE Uploaded'
  BY <1>2 DEF StatusStep, SkipDone, ReadStatus, Poll, PutJson, PutText, PutMark, Continue
<1>3. ASSUME NEW r \in Run, NEW f \in File, FailedStep(r, f) PROVE Uploaded'
  BY <1>3 DEF FailedStep, SubmitFails, CheckFails, Continue
<1>4. ASSUME NEW r \in Run, ListInput(r) \/ ListStatuses(r) \/ Return(r) \/ Crash(r) PROVE Uploaded'
  <2>1. CASE ListInput(r)
    BY <2>1 DEF ListInput, FirstPage
  <2>2. CASE ListStatuses(r)
    <3>1. FirstPage({f \in File : status[f] # Nil}) \subseteq input
      BY DEF FirstPage
    <3> QED BY <2>2, <3>1 DEF ListStatuses
  <2>3. CASE Return(r) \/ Crash(r)
    BY <2>3 DEF Return, Crash, Rest
  <2> QED BY <1>4, <2>1, <2>2, <2>3
<1>5. ASSUME NEW f \in File, Upload(f) PROVE Uploaded'
  BY <1>5 DEF Upload
<1>6. ASSUME NEW o \in Op, Finish(o) PROVE Uploaded'
  BY <1>6 DEF Finish
<1>7. CASE UNCHANGED vars
  BY <1>7 DEF vars
<1> QED BY <1>1, <1>2, <1>3, <1>4, <1>5, <1>6, <1>7 DEF Next, RunStep

LEMMA PaidFits ==
  ASSUME IsFiniteSet(Run), TypeOK, Uploaded, Charged
  PROVE  SubmissionsBounded
<1>1. IsFiniteSet(input) /\ IsFiniteSet(Created) /\ IsFiniteSet(Paid)
  <2>1. IsFiniteSet(File)
    BY FS_Interval, SizesAssumption DEF File
  <2> QED BY <2>1, AccountFinite, FS_Subset DEF TypeOK
<1>2. Paid \subseteq Run \X input
  BY DEF Paid, Spent, At, Uploaded
<1>3. /\ IsFiniteSet(Run \X input)
      /\ Cardinality(Run \X input) = Cardinality(Run) * Cardinality(input)
  BY <1>1, FS_Product
<1>4. Cardinality(Paid) <= Cardinality(Run) * Cardinality(input)
  BY <1>2, <1>3, FS_Subset
<1>5. /\ Cardinality(Created) \in Nat /\ Cardinality(Paid) \in Nat /\ faults \in Nat
      /\ Cardinality(Run) \in Nat /\ Cardinality(input) \in Nat
  BY <1>1, FS_CardinalityType, SizesAssumption DEF TypeOK
<1>6. Cardinality(Run) * Cardinality(input) = Cardinality(input) * Cardinality(Run)
  BY <1>5
<1> QED BY <1>4, <1>5, <1>6 DEF Charged, Created, SubmissionsBounded

(* However runs overlap and whatever fails, a file costs at most one       *)
(* operation per run slot, and a fault one more.                           *)
THEOREM SubmissionsCharged ==
  ASSUME IsFiniteSet(Run)
  PROVE  Spec => []SubmissionsBounded
<1>1. Init => Uploaded /\ Charged
  <2> SUFFICES ASSUME Init PROVE Uploaded /\ Charged
    OBVIOUS
  <2>1. Created = {} /\ faults = 0
    BY DEF Init, Created
  <2>2. Cardinality(Paid) \in Nat
    BY AccountFinite, FS_CardinalityType
  <2> QED BY <2>1, <2>2, FS_EmptySet DEF Init, Uploaded, Charged
<1>2. TypeInv /\ TypeInv' /\ Charged /\ [Next]_vars => Charged'
  <2> SUFFICES ASSUME TypeInv, TypeInv', Charged, [Next]_vars PROVE Charged'
    OBVIOUS
  <2>1. IsFiniteSet(Created') /\ IsFiniteSet(Paid')
    <3>1. IsFiniteSet(Op) /\ IsFiniteSet(File)
      BY FS_Interval, SizesAssumption DEF Op, File
    <3>2. IsFiniteSet(Run \X File)
      BY <3>1, FS_Product
    <3> QED BY <3>1, <3>2, FS_Subset DEF Created, Paid
  <2> QED BY <2>1, StepPays, AccountBalanced DEF TypeInv
<1>3. TypeInv /\ Uploaded /\ Charged => SubmissionsBounded
  BY PaidFits DEF TypeInv
<1> QED BY <1>1, <1>2, <1>3, TypeInit, TypeStep, UploadedStep, PTL DEF Spec

-----------------------------------------------------------------------------
(* One file's results are never stored under the name of another.          *)

First(r, f) == f \in todo[r] /\ \A g \in todo[r] : f <= g

(* A run is at work on a file with an operation it created for it or read  *)
(* from its status object.                                                 *)
Works(r, f, o) == pc[r] \in Asking \cup {"write"} /\ First(r, f) /\ op[r] = o

Shown(f, o) ==
  (status[f] # Nil /\ status[f].id = o) \/ json[f] = o \/ text[f] = o

Named(f, o) == Shown(f, o) \/ \E r \in Run : Works(r, f, o)

OwnInv ==
  \A f \in File, o \in Op :
    Named(f, o) => task[o] # "free" /\ \A g \in File : Named(g, o) => g = f

(* The status, the answer and the text of different files are of different *)
(* operations.                                                             *)
NoMixUp == \A f, g \in File, o \in Op : Shown(f, o) /\ Shown(g, o) => f = g

(* A step names no operation with a file it was not named with, but for    *)
(* the one it creates.                                                     *)
NamesNew(f) ==
  \A g \in File, o \in Op :
    Named(g, o)' => Named(g, o) \/ (g = f /\ task[o] = "free" /\ task'[o] # "free")

LEMMA WorkNames ==
  ASSUME TypeInv, NEW r \in Run, NEW f \in File,
         \A u \in Run \ {r} : Still(u),
         \A g \in File, o \in Op :
           Shown(g, o)' => Shown(g, o) \/ Works(r, g, o),
         \A g \in File, o \in Op :
           Works(r, g, o)' => Works(r, g, o) \/ Shown(g, o)
                              \/ (g = f /\ task[o] = "free" /\ task'[o] # "free")
  PROVE  NamesNew(f)
<1>1. \A u \in Run \ {r}, g \in File, o \in Op : Works(u, g, o)' => Works(u, g, o)
  BY DEF Still, Works, First
<1>2. \A g \in File, o \in Op : Shown(g, o)' => Named(g, o)
  BY DEF Named
<1>3. ASSUME NEW g \in File, NEW o \in Op, NEW u \in Run, Works(u, g, o)'
      PROVE  Named(g, o) \/ (g = f /\ task[o] = "free" /\ task'[o] # "free")
  <2>1. CASE u = r
    BY <1>3, <2>1 DEF Named
  <2>2. CASE u # r
    BY <1>1, <1>3, <2>2 DEF Named
  <2> QED BY <2>1, <2>2
<1> QED BY <1>2, <1>3 DEF NamesNew, Named

LEMMA InputNames ==
  ASSUME TypeInv, NEW r \in Run, NEW f \in File, InputStep(r, f) \/ SubmitFails(r, f)
  PROVE  NamesNew(f)
<1>1. \A u \in Run \ {r} : Still(u)
  BY DEF InputStep, SkipKnown, ToSubmit, Submit, WriteStatus, SubmitFails,
         Continue, Goes, Still, TypeInv, TypeOK
<1>2. UNCHANGED <<json, text>>
  BY DEF InputStep, SkipKnown, ToSubmit, Submit, WriteStatus, SubmitFails, bucket
<1>3. CASE Submit(r, f)
  <2>1. /\ UNCHANGED <<status, todo>> /\ First(r, f)
        /\ \E o \in Op : task[o] = "free" /\ task'[o] # "free" /\ op'[r] = o
    BY <1>3 DEF Submit, At, bucket, First, TypeInv, TypeOK
  <2>2. \A g \in File : First(r, g)' => g = f
    BY <1>3, <2>1, FirstIsOne DEF First, Submit
  <2>3. \A g \in File, o \in Op :
          Works(r, g, o)' => g = f /\ task[o] = "free" /\ task'[o] # "free"
    BY <2>1, <2>2 DEF Works
  <2>4. \A g \in File, o \in Op : Shown(g, o)' => Shown(g, o)
    BY <1>2, <2>1 DEF Shown
  <2> QED BY <1>1, <2>3, <2>4, WorkNames
<1>4. CASE WriteStatus(r, f)
  <2>1. pc'[r] = "head" /\ pc[r] = "write" /\ First(r, f)
    BY <1>4 DEF WriteStatus, Continue, Goes, At, First, TypeInv, TypeOK
  <2>2. \A g \in File : status'[g] = IF g = f THEN [id |-> op[r], done |-> FALSE] ELSE status[g]
    BY <1>4 DEF WriteStatus, TypeInv, TypeOK
  <2>3. \A g \in File, o \in Op : Shown(g, o)' => Shown(g, o) \/ Works(r, g, o)
    BY <1>2, <2>1, <2>2 DEF Shown, Works
  <2>4. \A g \in File, o \in Op : ~Works(r, g, o)'
    BY <2>1 DEF Works, Asking
  <2> QED BY <1>1, <2>3, <2>4, WorkNames
<1>5. CASE SkipKnown(r, f) \/ ToSubmit(r, f) \/ SubmitFails(r, f)
  <2>1. pc'[r] \in {"head", "submit"} /\ UNCHANGED status
    BY <1>5 DEF SkipKnown, ToSubmit, SubmitFails, Continue, Goes, bucket, TypeInv, TypeOK
  <2>2. \A g \in File, o \in Op : ~Works(r, g, o)' /\ (Shown(g, o)' => Shown(g, o))
    BY <1>2, <2>1 DEF Works, Asking, Shown
  <2> QED BY <1>1, <2>2, WorkNames
<1> QED BY <1>3, <1>4, <1>5 DEF InputStep

LEMMA StatusNames ==
  ASSUME TypeInv, NEW r \in Run, NEW f \in File, StatusStep(r, f) \/ CheckFails(r, f)
  PROVE  NamesNew(f)
<1>1. \A u \in Run \ {r} : Still(u)
  BY DEF StatusStep, SkipDone, ReadStatus, Poll, PutJson, PutText, PutMark, CheckFails,
         Continue, Goes, Still, TypeInv, TypeOK
<1>2. First(r, f) /\ \A g \in File : First(r, g) => g = f
  <2>1. PICK step : At(r, step, f)
    BY DEF StatusStep, SkipDone, ReadStatus, Poll, PutJson, PutText, PutMark, CheckFails
  <2> QED BY <2>1, FirstIsOne DEF First, At
<1>3. ASSUME pc'[r] = "read", \A g \in File, o \in Op : Shown(g, o)' => Shown(g, o) \/ Works(r, g, o)
      PROVE  NamesNew(f)
  <2>1. \A g \in File, o \in Op : ~Works(r, g, o)'
    BY <1>3 DEF Works, Asking
  <2> QED BY <1>1, <1>3, <2>1, WorkNames
<1>4. ASSUME pc[r] \in Asking, UNCHANGED <<op, todo>>,
             \A g \in File, o \in Op : Shown(g, o)' => Shown(g, o) \/ Works(r, g, o)
      PROVE  NamesNew(f)
  <2>1. \A g \in File, o \in Op : Works(r, g, o)' => Works(r, g, o)
    BY <1>4 DEF Works, First
  <2> QED BY <1>1, <1>4, <2>1, WorkNames
<1>5. (UNCHANGED <<status, json, text>>) => \A g \in File, o \in Op : Shown(g, o)' => Shown(g, o)
  BY DEF Shown
<1>6. CASE SkipDone(r, f) \/ CheckFails(r, f)
  <2>1. pc'[r] = "read" /\ UNCHANGED <<status, json, text>>
    BY <1>6 DEF SkipDone, CheckFails, Continue, Goes, bucket, TypeInv, TypeOK
  <2> QED BY <1>3, <1>5, <2>1
<1>7. CASE ReadStatus(r, f)
  <2>1. op'[r] = status[f].id /\ UNCHANGED <<status, json, text, todo>>
    BY <1>7 DEF ReadStatus, bucket, TypeInv, TypeOK
  <2>2. status[f] # Nil
    BY <1>7 DEF ReadStatus, At, TypeInv, Holding, Asking
  <2>3. \A g \in File, o \in Op : Works(r, g, o)' => Shown(g, o)
    BY <1>2, <2>1, <2>2 DEF Works, First, Shown
  <2> QED BY <1>1, <1>5, <2>1, <2>3, WorkNames
<1>8. CASE Poll(r, f)
  <2>1. UNCHANGED <<status, json, text>> /\ pc[r] \in Asking
    BY <1>8 DEF Poll, At, bucket, Asking
  <2>2. pc'[r] = "read" \/ UNCHANGED <<op, todo>>
    BY <1>8 DEF Poll, Continue, Goes, TypeInv, TypeOK
  <2> QED BY <1>3, <1>4, <1>5, <2>1, <2>2
<1>9. CASE PutJson(r, f) \/ PutText(r, f)
  <2>1. pc[r] \in Asking /\ UNCHANGED <<status, op, todo>>
    BY <1>9 DEF PutJson, PutText, At, Asking
  <2>2. \A g \in File : /\ json'[g] = json[g] \/ (g = f /\ json'[g] = op[r])
                        /\ text'[g] = text[g] \/ (g = f /\ text'[g] = op[r])
    BY <1>9 DEF PutJson, PutText, TypeInv, TypeOK
  <2>3. \A g \in File, o \in Op : Shown(g, o)' => Shown(g, o) \/ Works(r, g, o)
    BY <1>2, <2>1, <2>2 DEF Shown, Works
  <2> QED BY <1>4, <2>1, <2>3
<1>10. CASE PutMark(r, f)
  <2>1. pc[r] \in Asking /\ pc'[r] = "read" /\ UNCHANGED <<json, text>>
    BY <1>10 DEF PutMark, Continue, Goes, At, Asking, TypeInv, TypeOK
  <2>2. \A g \in File : status'[g] = IF g = f THEN [id |-> op[r], done |-> TRUE] ELSE status[g]
    BY <1>10 DEF PutMark, TypeInv, TypeOK
  <2>3. \A g \in File, o \in Op : Shown(g, o)' => Shown(g, o) \/ Works(r, g, o)
    BY <1>2, <2>1, <2>2 DEF Shown, Works
  <2> QED BY <1>3, <2>1, <2>3
<1> QED BY <1>6, <1>7, <1>8, <1>9, <1>10 DEF StatusStep

LEMMA NamesStep ==
  ASSUME TypeInv, [Next]_vars, File # {}
  PROVE  \E f \in File : NamesNew(f)
<1>1. ASSUME NEW r \in Run, NEW f \in File, InputStep(r, f) \/ StatusStep(r, f) \/ FailedStep(r, f)
      PROVE  NamesNew(f)
  BY <1>1, InputNames, StatusNames DEF FailedStep
<1>2. ASSUME NEW r \in Run, ListInput(r) \/ ListStatuses(r) \/ Return(r) \/ Crash(r)
      PROVE  \A f \in File : NamesNew(f)
  <2>1. pc'[r] \in {"head", "read", "idle"} /\ UNCHANGED <<status, json, text>>
    BY <1>2 DEF ListInput, ListStatuses, Return, Crash, Rest, Goes, bucket, TypeInv, TypeOK
  <2>2. \A u \in Run \ {r} : Still(u)
    BY <1>2 DEF ListInput, ListStatuses, Return, Crash, Rest, Goes, Still, TypeInv, TypeOK
  <2>3. \A g \in File, o \in Op : ~Works(r, g, o)' /\ (Shown(g, o)' => Shown(g, o))
    BY <2>1 DEF Works, Asking, Shown
  <2> QED BY <2>2, <2>3, WorkNames
<1>3. (UNCHANGED <<status, json, text, pc, todo, op>>) => \A f \in File : NamesNew(f)
  BY DEF NamesNew, Named, Shown, Works, First
<1>4. (\E f \in File : Upload(f)) \/ (\E o \in Op : Finish(o)) \/ UNCHANGED vars
        => UNCHANGED <<status, json, text, pc, todo, op>>
  BY DEF Upload, Finish, vars, bucket
<1> QED BY <1>1, <1>2, <1>3, <1>4 DEF Next, RunStep

LEMMA OwnStep ==
  ASSUME TypeInv, OwnInv, [Next]_vars
  PROVE  OwnInv'
<1>1. \A o \in Op : task[o] # "free" => task'[o] # "free"
  <2>1. ASSUME NEW r \in Run, NEW f \in File,
               InputStep(r, f) \/ StatusStep(r, f) \/ FailedStep(r, f)
        PROVE  Grows
    BY <2>1, InputGrows, StatusGrows DEF FailedStep
  <2>2. ASSUME NEW r \in Run, ListInput(r) \/ ListStatuses(r) \/ Return(r) \/ Crash(r)
        PROVE  UNCHANGED task
    BY <2>2 DEF ListInput, ListStatuses, Return, Crash, Rest
  <2>3. (\E f \in File : Upload(f)) \/ UNCHANGED vars => UNCHANGED task
    BY DEF Upload, vars
  <2>4. ASSUME NEW o \in Op, Finish(o) PROVE \A q \in Op : task[q] # "free" => task'[q] # "free"
    BY <2>4 DEF Finish, Finished, TypeInv, TypeOK
  <2> QED BY <2>1, <2>2, <2>3, <2>4 DEF Next, RunStep, Grows
<1>2. CASE File = {}
  BY <1>2 DEF OwnInv
<1>3. CASE File # {}
  <2>1. PICK f \in File : NamesNew(f)
    BY <1>3, NamesStep
  <2>2. ASSUME NEW g \in File, NEW o \in Op, Named(g, o)'
        PROVE  task'[o] # "free" /\ \A h \in File : Named(h, o)' => h = g
    BY <1>1, <2>1, <2>2 DEF NamesNew, OwnInv
  <2> QED BY <2>2 DEF OwnInv
<1> QED BY <1>2, <1>3

(* However runs overlap, crash and submit files again, no file's text or   *)
(* answer is stored with another file, nor does another file's status      *)
(* name its operation.                                                     *)
THEOREM FilesKeptApart == Spec => []NoMixUp
<1>1. Init => OwnInv
  BY NilAssumption DEF Init, OwnInv, Named, Shown, Works, Asking
<1>2. OwnInv => NoMixUp
  BY DEF OwnInv, Named, NoMixUp
<1>3. TypeInv /\ OwnInv /\ [Next]_vars => OwnInv'
  BY OwnStep
<1> QED BY <1>1, <1>2, <1>3, TypeInit, TypeStep, PTL DEF Spec
=============================================================================
