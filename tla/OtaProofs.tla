------------------------------ MODULE OtaProofs ------------------------------
(***************************************************************************)
(* What holds of an update for every set of images, every upload length    *)
(* and any number of restarts: the type invariant, that a healthy image is *)
(* always left, and that no upload stays marked as running.  The second    *)
(* part is about Boot, at whose end an image is confirmed.                 *)
(***************************************************************************)
EXTENDS Ota, Boot, TLAPS

Healthy(s) == Whole(s) /\ flash[s].image \notin Bad /\ imgState[s] = "VALID"

\* The running slot holds a whole image, confirmed or on probation; a
\* confirmed one comes up.
RunningSound ==
  /\ stage # "dead"
  /\ Whole(running)
  /\ imgState[running] \in {"VALID", "PENDING"}
  /\ imgState[running] = "VALID" => flash[running].image \notin Bad

\* An image on probation has a healthy one behind it.
ProbationCovered ==
  imgState[running] = "PENDING" => preferred = running /\ Healthy(Other(running))

\* The newest entry is passed over only while it is new or failed.
PreferredTried == preferred # running => imgState[preferred] \in {"NEW", "PENDING", "ABORTED"}

\* Where the upload handler is, an update is marked as running and the
\* running image is confirmed; its answer follows a finished switch.
HandlerKnows ==
  /\ in_progress <=> http = "receive"
  /\ http # "idle" => Serving /\ imgState[running] = "VALID"
  /\ http = "receive" => erased
  /\ http = "reply" => Whole(Target) /\ preferred = Target /\ imgState[Target] = "NEW"

\* An answered update whose slot was left alone is the next to be started.
AnswerStands ==
  accepted # NoImage =>
    /\ Serving
    /\ ~erased => /\ Whole(Target) /\ flash[Target].image = accepted
                  /\ preferred = Target /\ imgState[Target] = "NEW"

\* The inductive invariant.
IInv ==
  TypeOK /\ RunningSound /\ ProbationCovered /\ PreferredTried /\ HandlerKnows /\ AnswerStands

-----------------------------------------------------------------------------
\* The slots are each other's other.
LEMMA OtherSlot ==
  ASSUME NEW s \in Slot
  PROVE  /\ Other(s) \in Slot /\ Other(s) # s /\ Other(Other(s)) = s
         /\ \A t \in Slot : t = s \/ t = Other(s)
BY SMT DEF Slot, Other

\* The invariant holds at the first start.
LEMMA InitIInv == Init => IInv
<1>. SUFFICES ASSUME Init PROVE IInv
  OBVIOUS
<1>1. TypeOK
  <2>1. [image |-> Factory, written |-> Chunks] \in Content
    BY ImageAssumption, ChunkAssumption, SMT DEF Content
  <2>2. [image |-> NoImage, written |-> 0] \in Content
    BY ChunkAssumption, SMT DEF Content
  <2>3. flash \in [Slot -> Content]
    BY <2>1, <2>2 DEF Init
  <2>4. 0 \in 0 .. MaxReboots
    BY BoundAssumption, SMT
  <2>. QED BY <2>3, <2>4 DEF Init, TypeOK, Slot
<1>2. RunningSound
  BY ImageAssumption, SMT DEF Init, RunningSound, Whole, Slot
<1>3. ProbationCovered /\ PreferredTried /\ HandlerKnows /\ AnswerStands
  BY SMT DEF Init, ProbationCovered, PreferredTried, HandlerKnows, AnswerStands, Slot
<1>. QED BY <1>1, <1>2, <1>3 DEF IInv

\* What the boot loader starts: the other slot exactly if it is newest, new and
\* whole or the running image fails its probation, else the running one again.
LEMMA BootOutcome ==
  ASSUME IInv, Reset
  PROVE  \/ /\ imgState[running] = "PENDING"
            /\ running' = Other(running) /\ imgState'[Other(running)] = "VALID"
            /\ imgState'[running] = "ABORTED"
         \/ /\ imgState[running] = "VALID" /\ preferred = Other(running)
            /\ imgState[Other(running)] = "NEW" /\ Whole(Other(running))
            /\ running' = Other(running) /\ imgState'[Other(running)] = "PENDING"
            /\ imgState'[running] = "VALID"
         \/ /\ imgState[running] = "VALID"
            /\ running' = running /\ imgState'[running] = "VALID"
            /\ preferred # running => imgState'[preferred] \in {"PENDING", "ABORTED"}
            /\ ~(preferred = Other(running) /\ imgState[Other(running)] = "NEW"
                   /\ Whole(Other(running)))
<1>0. running \in Slot /\ preferred \in Slot
  BY DEF IInv, TypeOK
<1>1. /\ Other(running) \in Slot /\ Other(running) # running
      /\ Other(Other(running)) = running
      /\ preferred = running \/ preferred = Other(running)
  BY <1>0, OtherSlot
<1>2. /\ imgState' = [Demoted EXCEPT ![Chosen] = IF @ = "NEW" THEN "PENDING" ELSE @]
      /\ running' = IF Whole(Chosen) THEN Chosen ELSE Other(Chosen)
  BY DEF Reset, BootLoader
<1>3. /\ DOMAIN Demoted = Slot
      /\ \A s \in Slot : Demoted[s] = IF imgState[s] = "PENDING" THEN "ABORTED" ELSE imgState[s]
  BY DEF Demoted
<1>4. Whole(running) /\ imgState[running] \in {"VALID", "PENDING"}
  BY DEF IInv, RunningSound
<1>5. CASE imgState[running] = "PENDING"
  <2>1. preferred = running /\ Whole(Other(running)) /\ imgState[Other(running)] = "VALID"
    BY <1>5 DEF IInv, ProbationCovered, Healthy
  <2>2. Chosen = Other(running)
    BY <1>0, <1>3, <1>5, <2>1 DEF Chosen
  <2>. QED BY <1>0, <1>1, <1>2, <1>3, <1>5, <2>1, <2>2
<1>6. CASE imgState[running] = "VALID" /\ preferred = running
  <2>1. Chosen = running
    BY <1>0, <1>3, <1>6 DEF Chosen
  <2>. QED BY <1>0, <1>1, <1>2, <1>3, <1>4, <1>6, <2>1
<1>7. CASE imgState[running] = "VALID" /\ preferred = Other(running)
  <2>1. imgState[Other(running)] \in {"NEW", "PENDING", "ABORTED"}
    BY <1>1, <1>7 DEF IInv, PreferredTried
  <2>2. CASE imgState[Other(running)] = "NEW"
    <3>1. Chosen = Other(running)
      BY <1>1, <1>3, <1>7, <2>2 DEF Chosen
    <3>. QED BY <1>0, <1>1, <1>2, <1>3, <1>4, <1>7, <2>2, <3>1
  <2>3. CASE imgState[Other(running)] \in {"PENDING", "ABORTED"}
    <3>1. Chosen = running
      BY <1>1, <1>3, <1>7, <2>3 DEF Chosen
    <3>. QED BY <1>0, <1>1, <1>2, <1>3, <1>4, <1>7, <2>3, <3>1
  <2>. QED BY <2>1, <2>2, <2>3
<1>. QED BY <1>1, <1>4, <1>5, <1>6, <1>7

-----------------------------------------------------------------------------
(* A restart keeps the invariant. *)

\* The two slots after a restart, whichever of them it starts.
LEMMA ResetIInv == ASSUME IInv, Reset PROVE IInv'
<1>0. running \in Slot /\ preferred \in Slot
  BY DEF IInv, TypeOK
<1>1. /\ Other(running) \in Slot /\ Other(running) # running
      /\ Other(Other(running)) = running
      /\ preferred = running \/ preferred = Other(running)
  BY <1>0, OtherSlot
<1>2. /\ in_progress' = FALSE /\ http' = "idle" /\ reboots' = 0
      /\ accepted' = NoImage /\ erased' = FALSE
      /\ flash' = flash /\ preferred' = preferred
  BY DEF Reset
<1>3. Whole(running) /\ stage' = "starting"
  <2>1. Whole(running)
    BY DEF IInv, RunningSound
  <2>2. Whole(Chosen) \/ Whole(Other(Chosen))
    <3>1. Chosen = running \/ Other(Chosen) = running
      BY <1>1 DEF Chosen
    <3>. QED BY <2>1, <3>1
  <2>. QED BY <2>1, <2>2 DEF Reset, BootLoader
<1>4. TypeOK'
  <2>1. imgState' \in [Slot -> {"NONE", "NEW", "PENDING", "VALID", "ABORTED"}]
    <3>1. Demoted \in [Slot -> {"NONE", "NEW", "PENDING", "VALID", "ABORTED"}]
      BY DEF Demoted, IInv, TypeOK
    <3>. QED BY <3>1 DEF Reset, BootLoader
  <2>2. running' \in Slot
    BY <1>0, <1>1, BootOutcome
  <2>3. 0 \in 0 .. MaxReboots
    BY BoundAssumption, SMT
  <2>. QED BY <1>2, <1>3, <2>1, <2>2, <2>3 DEF IInv, TypeOK
<1>5. \A s : Whole(s)' <=> Whole(s)
  BY <1>2 DEF Whole
<1>6. HandlerKnows' /\ AnswerStands'
  BY <1>2 DEF HandlerKnows, AnswerStands
<1>7. CASE /\ imgState[running] = "PENDING"
           /\ running' = Other(running) /\ imgState'[Other(running)] = "VALID"
           /\ imgState'[running] = "ABORTED"
  <2>1. Healthy(Other(running)) /\ preferred = running
    BY <1>7 DEF IInv, ProbationCovered
  <2>. QED BY <1>1, <1>2, <1>3, <1>4, <1>5, <1>6, <1>7, <2>1
           DEF IInv, RunningSound, ProbationCovered, PreferredTried, Healthy
<1>8. CASE /\ imgState[running] = "VALID" /\ preferred = Other(running)
           /\ imgState[Other(running)] = "NEW" /\ Whole(Other(running))
           /\ running' = Other(running) /\ imgState'[Other(running)] = "PENDING"
           /\ imgState'[running] = "VALID"
  <2>1. flash[running].image \notin Bad
    BY <1>8 DEF IInv, RunningSound
  <2>2. Other(running)' = running
    BY <1>1, <1>8 DEF Other
  <2>3. ProbationCovered'
    BY <1>1, <1>2, <1>3, <1>5, <1>8, <2>1, <2>2 DEF ProbationCovered, Healthy
  <2>4. RunningSound' /\ PreferredTried'
    BY <1>2, <1>3, <1>5, <1>8 DEF RunningSound, PreferredTried
  <2>. QED BY <1>4, <1>6, <2>3, <2>4 DEF IInv
<1>9. CASE /\ imgState[running] = "VALID"
           /\ running' = running /\ imgState'[running] = "VALID"
           /\ preferred # running => imgState'[preferred] \in {"PENDING", "ABORTED"}
  <2>1. flash[running].image \notin Bad
    BY <1>9 DEF IInv, RunningSound
  <2>. QED BY <1>2, <1>3, <1>4, <1>5, <1>6, <1>9, <2>1
           DEF IInv, RunningSound, ProbationCovered, PreferredTried
<1>. QED BY <1>7, <1>8, <1>9, BootOutcome

-----------------------------------------------------------------------------
(* So do the steps of app_main and of the upload handler. *)

\* Confirming the running image ends its probation.
LEMMA MarkValidIInv == ASSUME IInv, MarkValid PROVE IInv'
<1>0. running \in Slot /\ imgState \in [Slot -> {"NONE", "NEW", "PENDING", "VALID", "ABORTED"}]
  BY DEF IInv, TypeOK
<1>1. PICK st \in Confirmed(running) : imgState' = [imgState EXCEPT ![running] = st]
  BY DEF MarkValid
<1>2. imgState[running] \in {"VALID", "PENDING"}
  BY DEF IInv, RunningSound
<1>3. st \in {"VALID", "PENDING"} /\ (imgState[running] = "VALID" => st = "VALID")
  BY <1>1, <1>2 DEF Confirmed
<1>4. /\ UNCHANGED <<flash, preferred, running, in_progress, http, reboots, answer>>
      /\ stage = "serving" /\ stage' = "ready" /\ flash[running].image \notin Bad
  BY DEF MarkValid
<1>5. imgState'[running] = st /\ \A s \in Slot : s # running => imgState'[s] = imgState[s]
  BY <1>0, <1>1
<1>6. Other(running) \in Slot /\ Other(running) # running
  BY <1>0, OtherSlot
<1>7. TypeOK'
  <2>1. imgState' \in [Slot -> {"NONE", "NEW", "PENDING", "VALID", "ABORTED"}]
    BY <1>0, <1>1, <1>3
  <2>. QED BY <1>4, <2>1 DEF IInv, TypeOK, answer
<1>8. RunningSound' /\ ProbationCovered' /\ PreferredTried'
  BY <1>0, <1>2, <1>3, <1>4, <1>5, <1>6
     DEF IInv, TypeOK, RunningSound, ProbationCovered, PreferredTried, Healthy, Whole
<1>9. HandlerKnows' /\ AnswerStands'
  BY <1>2, <1>3, <1>4, <1>5, <1>6
     DEF IInv, HandlerKnows, AnswerStands, Target, Serving, Whole, Other, answer
<1>. QED BY <1>7, <1>8, <1>9 DEF IInv

\* Steps that write only the slot that is not running, while no probation or
\* answered update depends on it.
LEMMA FlashIInv ==
  ASSUME IInv, imgState[running] = "VALID", Serving, NEW c \in Content,
         flash' = [flash EXCEPT ![Target] = c],
         erased', erased \in BOOLEAN /\ erased' \in BOOLEAN,
         http' \in {"idle", "receive"}, in_progress' \in BOOLEAN,
         in_progress' <=> http' = "receive",
         UNCHANGED <<loader, stage, reboots, accepted>>
  PROVE  IInv'
<1>0. running \in Slot /\ Target \in Slot /\ Target # running /\ Target' = Target
  BY OtherSlot DEF IInv, TypeOK, Target, loader
<1>1. flash'[running] = flash[running]
  BY <1>0 DEF IInv, TypeOK
<1>2. TypeOK'
  BY <1>0 DEF IInv, TypeOK, loader
<1>3. RunningSound' /\ ProbationCovered' /\ PreferredTried'
  BY <1>1 DEF IInv, RunningSound, ProbationCovered, PreferredTried, Whole, loader
<1>4. HandlerKnows' /\ AnswerStands'
  BY DEF IInv, HandlerKnows, AnswerStands, Serving, loader
<1>. QED BY <1>2, <1>3, <1>4 DEF IInv

\* Every other step of the upload, with its answer.
LEMMA UploadIInv == ASSUME IInv, Upload PROVE IInv'
<1>0. /\ running \in Slot /\ Target \in Slot /\ Target # running
      /\ imgState \in [Slot -> {"NONE", "NEW", "PENDING", "VALID", "ABORTED"}]
      /\ imgState[running] \in {"VALID", "PENDING"}
      /\ erased \in BOOLEAN /\ in_progress \in BOOLEAN
  BY OtherSlot DEF IInv, TypeOK, RunningSound, Target
<1>1. CASE OtaBegin
  <2>1. PICK body \in Image \cup {Junk} : Erase(body)
    BY <1>1 DEF OtaBegin
  <2>2. [image |-> body, written |-> 0] \in Content
    BY ChunkAssumption DEF Content
  <2>. QED BY <1>0, <1>1, <2>1, <2>2, FlashIInv
           DEF OtaBegin, MayBegin, esp_ota_begin_allows, Erase
<1>2. CASE BeginFails
  <2>1. [image |-> NoImage, written |-> 0] \in Content
    BY ChunkAssumption DEF Content
  <2>. QED BY <1>0, <1>2, <2>1, FlashIInv
           DEF BeginFails, MayBegin, esp_ota_begin_allows, Erase
<1>3. CASE OtaWrite
  <2>1. /\ imgState[running] = "VALID" /\ Serving /\ erased /\ in_progress
    BY <1>3 DEF OtaWrite, IInv, HandlerKnows
  <2>2. flash[Target] \in Content /\ flash[Target].written < Chunks
    BY <1>0, <1>3 DEF OtaWrite, Remaining, IInv, TypeOK
  <2>3. [flash[Target] EXCEPT !.written = @ + 1] \in Content
    BY <2>2, ChunkAssumption DEF Content
  <2>4. flash' = [flash EXCEPT ![Target] = [flash[Target] EXCEPT !.written = @ + 1]]
    BY <1>3 DEF OtaWrite
  <2>. QED BY <1>0, <1>3, <2>1, <2>3, <2>4, FlashIInv DEF OtaWrite, answer
<1>4. CASE UploadFails
  BY <1>4 DEF UploadFails, IInv, TypeOK, RunningSound, ProbationCovered, PreferredTried,
              HandlerKnows, AnswerStands, Healthy, Whole, Serving, Target, loader, answer
<1>5. CASE OtaEnd
  <2>1. /\ imgState[running] = "VALID" /\ Serving /\ erased /\ http = "receive"
        /\ in_progress' = FALSE
        /\ UNCHANGED <<flash, running, stage, reboots, answer>>
    BY <1>5 DEF OtaEnd, IInv, HandlerKnows
  <2>2. CASE Whole(Target) /\ esp_ota_set_boot_partition(Target) /\ http' = "reply"
    <3>1. /\ preferred' = Target /\ imgState'[Target] = "NEW"
          /\ imgState'[running] = "VALID"
      BY <1>0, <2>1, <2>2 DEF esp_ota_set_boot_partition
    <3>2. TypeOK'
      BY <1>0, <2>1, <2>2 DEF esp_ota_set_boot_partition, IInv, TypeOK, answer
    <3>3. RunningSound' /\ ProbationCovered' /\ PreferredTried'
      BY <2>1, <3>1 DEF IInv, RunningSound, ProbationCovered, PreferredTried, Whole
    <3>4. HandlerKnows' /\ AnswerStands'
      BY <2>1, <2>2, <3>1
         DEF IInv, HandlerKnows, AnswerStands, Serving, Whole, Target, answer
    <3>. QED BY <3>2, <3>3, <3>4 DEF IInv
  <2>3. CASE UNCHANGED <<imgState, preferred>> /\ http' = "idle"
    BY <2>1, <2>3 DEF IInv, TypeOK, RunningSound, ProbationCovered, PreferredTried,
                  HandlerKnows, AnswerStands, Healthy, Whole, Serving, Target, answer
  <2>. QED BY <1>5, <2>2, <2>3 DEF OtaEnd
<1>6. CASE Reply
  <2>1. /\ http = "reply" /\ http' = "idle" /\ accepted' = flash[Target].image
        /\ erased' = FALSE /\ UNCHANGED <<flash, loader, stage, in_progress>>
    BY <1>6 DEF Reply
  <2>2. /\ Serving /\ in_progress = FALSE
        /\ Whole(Target) /\ preferred = Target /\ imgState[Target] = "NEW"
    BY <1>0, <2>1 DEF IInv, HandlerKnows
  <2>3. reboots' \in 0 .. MaxReboots
    <3>1. reboots \in 0 .. MaxReboots
      BY DEF IInv, TypeOK
    <3>. QED BY <1>6, <3>1, BoundAssumption DEF Reply, schedule_reboot
  <2>4. TypeOK'
    BY <2>1, <2>2, <2>3 DEF IInv, TypeOK, Whole, loader
  <2>. QED BY <2>1, <2>2, <2>4
           DEF IInv, RunningSound, ProbationCovered, PreferredTried,
               HandlerKnows, AnswerStands, Healthy, Whole, Serving, Target, loader
<1>. QED BY <1>1, <1>2, <1>3, <1>4, <1>5, <1>6 DEF Upload

\* Every step keeps the invariant.
LEMMA StepIInv == IInv /\ [Next]_vars => IInv'
<1>. SUFFICES ASSUME IInv, [Next]_vars PROVE IInv'
  OBVIOUS
<1>1. CASE StartServer
  BY <1>1 DEF StartServer, IInv, TypeOK, RunningSound, ProbationCovered, PreferredTried,
              HandlerKnows, AnswerStands, Healthy, Whole, Serving, Target, loader, answer
<1>2. CASE RebootRequest
  <2>1. reboots' \in 0 .. MaxReboots
    <3>1. reboots \in 0 .. MaxReboots
      BY DEF IInv, TypeOK
    <3>. QED BY <1>2, <3>1, BoundAssumption DEF RebootRequest
  <2>. QED BY <1>2, <2>1
           DEF RebootRequest, IInv, TypeOK, RunningSound, ProbationCovered, PreferredTried,
               HandlerKnows, AnswerStands, Healthy, Whole, Serving, Target, loader, answer
<1>3. CASE Reboot \/ Crash \/ PowerLoss
  BY <1>3, ResetIInv DEF Reboot, Crash, PowerLoss
<1>4. CASE UNCHANGED vars
  BY <1>4 DEF vars, IInv, TypeOK, RunningSound, ProbationCovered, PreferredTried,
              HandlerKnows, AnswerStands, Healthy, Whole, Serving, Target, loader, answer
<1>. QED BY <1>1, <1>2, <1>3, <1>4, MarkValidIInv, UploadIInv DEF Next, AppMain

-----------------------------------------------------------------------------
(* The theorems. *)

\* Slots, entries and handler stay related as IInv says at every moment.
THEOREM InductiveInvariant == Spec => []IInv
BY InitIInv, StepIInv, PTL DEF Spec

\* Every variable keeps its type; no upload is written past its end.
THEOREM TypeCorrect == Spec => []TypeOK
<1>1. IInv => TypeOK
  BY DEF IInv
<1>. QED BY InductiveInvariant, <1>1, PTL

\* At every moment, uploads and power losses included, the boot loader can
\* still find a whole image that comes up.
THEOREM GoodImageAlwaysHeld == Spec => []GoodImageHeld
<1>1. IInv => GoodImageHeld
  <2>. SUFFICES ASSUME IInv PROVE GoodImageHeld
    OBVIOUS
  <2>1. running \in Slot /\ Other(running) \in Slot
    BY OtherSlot DEF IInv, TypeOK
  <2>2. CASE imgState[running] = "PENDING"
    BY <2>1, <2>2 DEF IInv, ProbationCovered, Healthy, GoodImageHeld
  <2>3. CASE imgState[running] = "VALID"
    BY <2>1, <2>3 DEF IInv, RunningSound, GoodImageHeld
  <2>. QED BY <2>2, <2>3 DEF IInv, RunningSound
<1>. QED BY InductiveInvariant, <1>1, PTL

\* No way through the upload handler leaves an update marked as running.
THEOREM UpdateNeverStuck == Spec => []UpdateNotStuck
<1>1. IInv => UpdateNotStuck
  BY DEF IInv, HandlerKnows, UpdateNotStuck
<1>. QED BY InductiveInvariant, <1>1, PTL

\* After "update applied" the next restart, for whatever reason, starts that
\* image unless its slot was erased in between.
THEOREM AppliedUpdateStarts == Spec => AppliedIsStarted
<1>. DEFINE A == stage' = "starting" /\ accepted # NoImage /\ ~erased
                   => flash[running'].image = accepted
<1>1. IInv /\ [Next]_vars => A
  <2>. SUFFICES ASSUME IInv, [Next]_vars, stage' = "starting", accepted # NoImage, ~erased
                PROVE  flash[running'].image = accepted
    OBVIOUS
  <2>1. /\ stage \in {"serving", "ready"} /\ Whole(Target) /\ flash[Target].image = accepted
        /\ preferred = Target /\ imgState[Target] = "NEW"
    BY DEF IInv, AnswerStands, Serving
  <2>2. CASE Reset
    <3>1. running \in Slot /\ Target # running
      BY OtherSlot DEF IInv, TypeOK, Target
    <3>2. running' = Target
      BY <2>1, <2>2, <3>1, BootOutcome DEF Target, IInv, ProbationCovered
    <3>. QED BY <2>1, <3>2
  <2>3. CASE stage' = stage
    BY <2>1, <2>3
  <2>4. Reset \/ stage' = stage \/ stage' \in {"serving", "ready"}
    BY DEF Next, AppMain, StartServer, MarkValid, Upload, OtaBegin, BeginFails, OtaWrite,
           UploadFails, OtaEnd, Reply, RebootRequest, Reboot, Crash, PowerLoss, vars
  <2>. QED BY <2>1, <2>2, <2>3, <2>4
<1>. QED BY InductiveInvariant, <1>1, PTL DEF Spec, AppliedIsStarted

-----------------------------------------------------------------------------
(***************************************************************************)
(* The boot that confirms an image, or has it rolled back: Boot, for any   *)
(* number of failures.                                                     *)
(***************************************************************************)

Place == 1 .. 10

\* Each part app_main has done with is ready or has failed ...
PassedKnown == \A i \in Place : i <= at => Order[i] \in ready \cup failed

AllTasks == {"receive callback", "csi", "motion", "display", "server", "push", "wifi", "logger"}

\* The mutexes a task may ever take.
MayTake(task) ==
  CASE task = "receive callback" -> {"csi"}
    [] task = "csi" -> {"csi", "config"}
    [] task = "motion" -> {"config", "csi", "motion"}
    [] task = "display" -> {"config", "motion", "csi"}
    [] task = "server" -> {"config", "auth", "motion", "csi", "ota"}
    [] task = "push" -> {"config", "auth", "motion", "csi"}
    [] task = "wifi" -> {"config"}
    [] task = "logger" -> {}

\* ... and a task runs only when app_main has done with each part it may use.
TasksInOrder ==
  /\ tasks \subseteq AllTasks
  /\ \A task \in tasks, i \in Place : Order[i] \in MayTake(task) => i <= at

\* Tasks that the part whose turn it is may create: they use it and earlier ones.
InTime(created) ==
  /\ created \subseteq AllTasks
  /\ \A task \in created, i \in Place : Order[i] \in MayTake(task) => i <= at + 1

Begun ==
  /\ at \in 0 .. 11 /\ resets \in BOOLEAN
  /\ ~resets => culprit = Nothing
  /\ PassedKnown /\ TasksInOrder /\ UsedAfterInit

\* The order of app_main, part by part.
LEMMA Places ==
  /\ Len(Order) = 10
  /\ \A i \in Place :
       /\ Order[i] = "storage" => i = 1
       /\ Order[i] = "config" => i = 2
       /\ Order[i] = "logger" => i = 3
       /\ Order[i] = "auth" => i = 4
       /\ Order[i] = "wifi" => i = 5
       /\ Order[i] = "csi" => i = 6
       /\ Order[i] = "motion" => i = 7
       /\ Order[i] = "display" => i = 8
       /\ Order[i] = "ota" => i = 9
       /\ Order[i] = "web" => i = 10
  /\ \A part \in {"config", "auth", "csi", "motion", "ota"} :
       \E i \in Place : Order[i] = part
<1>1. Len(Order) = 10
  BY DEF Order
<1>2. \A i \in Place : i \in {1, 2, 3, 4, 5, 6, 7, 8, 9, 10}
  BY DEF Place
<1>3. /\ Order[1] = "storage" /\ Order[2] = "config" /\ Order[3] = "logger"
      /\ Order[4] = "auth" /\ Order[5] = "wifi" /\ Order[6] = "csi"
      /\ Order[7] = "motion" /\ Order[8] = "display" /\ Order[9] = "ota"
      /\ Order[10] = "web"
  BY DEF Order
<1>4. \A part \in {"config", "auth", "csi", "motion", "ota"} :
        \E i \in Place : Order[i] = part
  BY <1>3 DEF Place
<1>. QED BY <1>1, <1>2, <1>3, <1>4

\* A task takes no other mutexes, and they are all parts'.
LEMMA TakesAreKnown ==
  ASSUME NEW task \in AllTasks, NEW part \in Takes(task)
  PROVE  part \in MayTake(task) /\ \E i \in Place : Order[i] = part
<1>1. part \in MayTake(task)
  BY DEF AllTasks, MayTake, Takes, Status
<1>2. part \in {"config", "auth", "csi", "motion", "ota"}
  BY DEF AllTasks, Takes, Status
<1>. QED BY <1>1, <1>2, Places

\* The part whose turn it is.
LEMMA AtItsTurn ==
  ASSUME Begun, NEW part, Turn(part)
  PROVE  at \in 0 .. 9 /\ at + 1 \in Place /\ Order[at + 1] = part /\ ~resets
BY Places DEF Turn, Begun, Place

\* It comes up or fails, and creates no task but one that uses parts passed by then.
LEMMA PartStep ==
  ASSUME Begun, NEW part, Turn(part), at' = at + 1,
         part \in ready' \cup failed', ready \subseteq ready', failed \subseteq failed',
         NEW created, InTime(created), tasks' = tasks \cup created,
         culprit' = culprit, resets' \in BOOLEAN, resets' => part \in failed'
  PROVE  Begun'
<1>1. at \in 0 .. 9 /\ at + 1 \in Place /\ Order[at + 1] = part /\ ~resets
  BY AtItsTurn
<1>2. PassedKnown'
  <2>1. \A i \in Place : i <= at + 1 => i <= at \/ i = at + 1
    BY <1>1 DEF Place
  <2>2. \A i \in Place : i <= at => Order[i] \in ready' \cup failed'
    BY DEF Begun, PassedKnown
  <2>3. \A i \in Place : i <= at + 1 => Order[i] \in ready' \cup failed'
    BY <1>1, <2>1, <2>2
  <2>. QED BY <2>3 DEF PassedKnown
<1>3. TasksInOrder'
  <2>1. \A i \in Place : i <= at => i <= at + 1
    BY <1>1 DEF Place
  <2>2. \A task \in tasks', i \in Place : Order[i] \in MayTake(task) => i <= at'
    BY <2>1 DEF Begun, TasksInOrder, InTime
  <2>3. tasks' \subseteq AllTasks
    BY DEF Begun, TasksInOrder, InTime
  <2>. QED BY <2>2, <2>3 DEF TasksInOrder
<1>4. culprit' = Nothing
  BY <1>1 DEF Begun
<1>5. UsedAfterInit'
  BY <1>4 DEF UsedAfterInit
<1>6. at' \in 0 .. 11
  BY <1>1
<1>. QED BY <1>2, <1>3, <1>4, <1>5, <1>6 DEF Begun

\* The three ways an initialiser ends: the part is up ...
LEMMA UpKeeps ==
  ASSUME Begun, NEW part, NEW created, Up(part, created), InTime(created)
  PROVE  Begun'
<1>1. /\ Turn(part) /\ at' = at + 1 /\ ready' = ready \cup {part} /\ tasks' = tasks \cup created
      /\ failed' = failed /\ culprit' = culprit /\ resets' = resets
  BY DEF Up
<1>2. ~resets' /\ resets' \in BOOLEAN
  BY <1>1, AtItsTurn DEF Begun
<1>3. part \in ready' \cup failed' /\ ready \subseteq ready' /\ failed \subseteq failed'
  BY <1>1
<1>. QED BY <1>1, <1>2, <1>3, PartStep

\* ... it is not ...
LEMMA DownKeeps ==
  ASSUME Begun, NEW part, NEW fatal \in BOOLEAN, Down(part, fatal)
  PROVE  Begun'
<1>1. /\ Turn(part) /\ at' = at + 1 /\ ready' = ready /\ tasks' = tasks \cup {}
      /\ failed' = failed \cup {part} /\ culprit' = culprit /\ resets' = fatal
  BY DEF Down
<1>2. part \in ready' \cup failed' /\ ready \subseteq ready' /\ failed \subseteq failed' /\ InTime({})
  BY <1>1 DEF InTime
<1>3. resets' \in BOOLEAN /\ (resets' => part \in failed')
  BY <1>1
<1>. QED BY <1>1, <1>2, <1>3, PartStep

\* ... or it has its mutex but not its task.
LEMMA IdleKeeps ==
  ASSUME Begun, NEW part, Idle(part)
  PROVE  Begun'
<1>1. /\ Turn(part) /\ at' = at + 1 /\ ready' = ready \cup {part} /\ tasks' = tasks \cup {}
      /\ failed' = failed \cup {part} /\ culprit' = culprit /\ resets' = resets
  BY DEF Idle
<1>2. ~resets' /\ resets' \in BOOLEAN
  BY <1>1, AtItsTurn DEF Begun
<1>3. part \in ready' \cup failed' /\ ready \subseteq ready' /\ failed \subseteq failed' /\ InTime({})
  BY <1>1 DEF InTime
<1>. QED BY <1>1, <1>2, <1>3, PartStep

\* The tasks a part creates use that part and earlier ones.
LEMMA CreatedInTime ==
  ASSUME Begun
  PROVE  /\ InTime({}) /\ InTime({"logger"})
         /\ Turn("wifi") => InTime({"wifi"})
         /\ Turn("csi") => InTime({"receive callback", "csi"}) /\ InTime({"receive callback"})
         /\ Turn("motion") => InTime({"motion"})
         /\ Turn("display") => InTime({"display"})
         /\ Turn("web") => InTime({"server", "push"})
<1>1. InTime({}) /\ InTime({"logger"})
  BY DEF InTime, MayTake, AllTasks
<1>2. ASSUME Turn("wifi") PROVE InTime({"wifi"})
  <2>1. at + 1 = 5 /\ MayTake("wifi") = {"config"}
    BY <1>2, AtItsTurn, Places DEF MayTake
  <2>2. \A i \in Place : Order[i] \in MayTake("wifi") => i = 2
    BY <2>1, Places
  <2>. QED BY <2>1, <2>2 DEF InTime, AllTasks
<1>3. ASSUME Turn("csi")
      PROVE  InTime({"receive callback", "csi"}) /\ InTime({"receive callback"})
  <2>1. ASSUME NEW task \in AllTasks, MayTake(task) \subseteq {"csi", "config"}
        PROVE  InTime({task})
    <3>1. at + 1 = 6
      BY <1>3, AtItsTurn, Places
    <3>2. \A i \in Place : Order[i] \in {"csi", "config"} => i \in {2, 6}
      BY Places
    <3>. QED BY <2>1, <3>1, <3>2 DEF InTime
  <2>2. /\ "receive callback" \in AllTasks /\ MayTake("receive callback") \subseteq {"csi", "config"}
        /\ "csi" \in AllTasks /\ MayTake("csi") \subseteq {"csi", "config"}
    BY DEF AllTasks, MayTake
  <2>3. InTime({"receive callback"}) /\ InTime({"csi"})
    BY <2>1, <2>2
  <2>. QED BY <2>3 DEF InTime
<1>4. ASSUME Turn("motion") PROVE InTime({"motion"})
  <2>1. at + 1 = 7 /\ MayTake("motion") = {"config", "csi", "motion"}
    BY <1>4, AtItsTurn, Places DEF MayTake
  <2>2. \A i \in Place : Order[i] \in MayTake("motion") => i \in {2, 6, 7}
    BY <2>1, Places
  <2>. QED BY <2>1, <2>2 DEF InTime, AllTasks
<1>5. ASSUME Turn("display") PROVE InTime({"display"})
  <2>1. at + 1 = 8 /\ MayTake("display") = {"config", "motion", "csi"}
    BY <1>5, AtItsTurn, Places DEF MayTake
  <2>2. \A i \in Place : Order[i] \in MayTake("display") => i \in {2, 6, 7}
    BY <2>1, Places
  <2>. QED BY <2>1, <2>2 DEF InTime, AllTasks
<1>6. ASSUME Turn("web") PROVE InTime({"server", "push"})
  <2>1. at + 1 = 10
    BY <1>6, AtItsTurn, Places
  <2>2. \A i \in Place : i <= 10
    BY DEF Place
  <2>. QED BY <2>1, <2>2 DEF InTime, AllTasks
<1>. QED BY <1>1, <1>2, <1>3, <1>4, <1>5, <1>6

\* A boot has begun well, at its every step.
LEMMA BegunStep ==
  ASSUME Begun, [BootNext]_BootVars
  PROVE  Begun'
<1>1. CASE Storage \/ Config \/ Auth \/ Ota
  <2>1. PICK part \in {"storage", "config", "auth", "ota"} :
          Up(part, {}) \/ Down(part, FALSE) \/ Down(part, TRUE)
    BY <1>1 DEF Storage, Config, Auth, Ota, GoOn, GiveUp
  <2>2. InTime({})
    BY CreatedInTime
  <2>. QED BY <2>1, <2>2, UpKeeps, DownKeeps
<1>2. CASE Logger
  <2>1. CASE Up("logger", {"logger"})
    BY <2>1, CreatedInTime, UpKeeps DEF Up
  <2>. QED BY <1>2, <2>1, IdleKeeps, DownKeeps DEF Logger, GoOn
<1>3. CASE Wifi
  <2>1. CASE Up("wifi", {"wifi"})
    BY <2>1, CreatedInTime, UpKeeps DEF Up
  <2>. QED BY <1>3, <2>1, DownKeeps DEF Wifi, GiveUp
<1>4. CASE WifiPanics
  <2>1. at = 4 /\ ~resets
    <3>1. at \in 0 .. 9 /\ at + 1 \in Place /\ Order[at + 1] = "wifi" /\ ~resets
      BY <1>4, AtItsTurn DEF WifiPanics
    <3>. QED BY <3>1, Places
  <2>2. "config" \in failed
    <3>1. PICK i \in Place : Order[i] = "config"
      BY Places
    <3>2. i = 2
      BY <3>1, Places
    <3>. QED BY <1>4, <2>1, <3>1, <3>2 DEF Begun, PassedKnown, WifiPanics
  <2>3. /\ at' = at /\ ready' = ready /\ failed' = failed /\ tasks' = tasks /\ resets' = TRUE
        /\ culprit' = "config"
    BY <1>4 DEF WifiPanics
  <2>4. PassedKnown' /\ TasksInOrder'
    BY <2>3 DEF Begun, PassedKnown, TasksInOrder
  <2>. QED BY <2>2, <2>3, <2>4 DEF Begun, UsedAfterInit
<1>5. CASE Csi
  <2>1. CASE Up("csi", {"receive callback", "csi"})
    BY <2>1, CreatedInTime, UpKeeps DEF Up
  <2>. QED BY <1>5, <2>1, IdleKeeps, DownKeeps DEF Csi, GoOn
<1>6. CASE CsiTaskFails
  <2>1. /\ Turn("csi") /\ at' = at + 1 /\ ready' = ready \cup {"csi"}
        /\ tasks' = tasks \cup {"receive callback"} /\ failed' = failed \cup {"csi"}
        /\ culprit' = culprit /\ resets' = resets
    BY <1>6 DEF CsiTaskFails
  <2>2. ~resets' /\ resets' \in BOOLEAN
    BY <2>1, AtItsTurn DEF Begun
  <2>3. InTime({"receive callback"})
    BY <2>1, CreatedInTime
  <2>4. "csi" \in ready' \cup failed' /\ ready \subseteq ready' /\ failed \subseteq failed'
    BY <2>1
  <2>. QED BY <2>1, <2>2, <2>3, <2>4, PartStep
<1>7. CASE Motion
  <2>1. CASE Up("motion", {"motion"})
    BY <2>1, CreatedInTime, UpKeeps DEF Up
  <2>. QED BY <1>7, <2>1, IdleKeeps, DownKeeps DEF Motion, GoOn
<1>8. CASE Display
  <2>1. CASE Up("display", {"display"})
    BY <2>1, CreatedInTime, UpKeeps DEF Up
  <2>. QED BY <1>8, <2>1, IdleKeeps, DownKeeps DEF Display, GoOn
<1>9. CASE Web
  <2>1. CASE Up("web", {"server", "push"})
    BY <2>1, CreatedInTime, UpKeeps DEF Up
  <2>. QED BY <1>9, <2>1, DownKeeps DEF Web, GiveUp
<1>10. CASE ConfirmImage
  <2>1. /\ at = 10 /\ at' = 11 /\ ~resets
        /\ UNCHANGED <<resets, ready, tasks, culprit, failed>>
    BY <1>10, Places DEF ConfirmImage, UpAndRunning
  <2>2. PassedKnown' /\ TasksInOrder'
    BY <2>1 DEF Begun, PassedKnown, TasksInOrder, Place
  <2>. QED BY <2>1, <2>2 DEF Begun, UsedAfterInit
<1>11. CASE \E task \in tasks, part \in Part : Take(task, part)
  <2>1. PICK task \in tasks, part \in Part : Take(task, part)
    BY <1>11
  <2>2. part \in Takes(task) /\ part \notin ready /\ task \in AllTasks
    BY <2>1 DEF Take, Begun, TasksInOrder
  <2>3. PICK i \in Place : Order[i] = part
    BY <2>2, TakesAreKnown
  <2>4. i <= at
    BY <2>1, <2>2, <2>3, TakesAreKnown DEF Begun, TasksInOrder
  <2>5. part \in failed
    BY <2>2, <2>3, <2>4 DEF Begun, PassedKnown
  <2>6. /\ at' = at /\ ready' = ready /\ failed' = failed /\ tasks' = tasks /\ resets' = TRUE
        /\ culprit' = part
    BY <2>1 DEF Take
  <2>7. PassedKnown' /\ TasksInOrder'
    BY <2>6 DEF Begun, PassedKnown, TasksInOrder
  <2>. QED BY <2>5, <2>6, <2>7 DEF Begun, UsedAfterInit
<1>12. CASE Restart
  <2>1. PassedKnown' /\ TasksInOrder'
    BY <1>12 DEF Restart, PassedKnown, TasksInOrder, Place
  <2>2. at' \in 0 .. 11 /\ resets' = FALSE /\ culprit' = Nothing
    BY <1>12 DEF Restart
  <2>. QED BY <2>1, <2>2 DEF Begun, UsedAfterInit
<1>13. CASE UNCHANGED BootVars
  BY <1>13 DEF BootVars, Begun, PassedKnown, TasksInOrder, UsedAfterInit
<1>. QED
  BY <1>1, <1>2, <1>3, <1>4, <1>5, <1>6, <1>7, <1>8, <1>9, <1>10, <1>11, <1>12, <1>13
  DEF BootNext, BringUp

LEMMA BootInitBegun == BootInit => Begun
<1>. SUFFICES ASSUME BootInit PROVE Begun
  OBVIOUS
<1>1. PassedKnown /\ TasksInOrder
  BY DEF BootInit, PassedKnown, TasksInOrder, Place
<1>2. at \in 0 .. 11 /\ resets = FALSE /\ culprit = Nothing
  BY DEF BootInit
<1>. QED BY <1>1, <1>2 DEF Begun, UsedAfterInit

\* A task misses a mutex only where its part has failed.
THEOREM UsedAlwaysAfterInit == BootSpec => []UsedAfterInit
<1>1. Begun => UsedAfterInit
  BY DEF Begun
<1>. QED BY <1>1, BootInitBegun, BegunStep, PTL DEF BootSpec

LEMMA CsiIsAPart == "csi" \in Part
<1>1. Order[6] = "csi" /\ 6 \in 1 .. Len(Order)
  BY DEF Order
<1>2. Part = {Order[i] : i \in DOMAIN Order}
  BY DEF Part, ToSet
<1>3. DOMAIN Order = 1 .. Len(Order)
  BY DEF Order
<1>. QED BY <1>1, <1>2, <1>3

\* Only a mutex that is still missing stops the device.
CulpritMissing == culprit # Nothing => culprit \notin ready

\* A capture part that fails with its mutex in place, because the driver or its task refused,
\* never stops the device: what "the rest of the system continues" (docs/ARCHITECTURE.md) is not
\* true of is the lack of memory for the mutex, and nothing else (csi_init).
THEOREM CsiToleratedWithMemory ==
  BootSpec /\ []("csi" \in failed => "csi" \in ready) => []CsiFailureTolerated
<1>1. BootInit => CulpritMissing
  BY DEF BootInit, CulpritMissing
<1>2. Begun /\ CulpritMissing /\ [BootNext]_BootVars => CulpritMissing'
  <2>. SUFFICES ASSUME Begun, CulpritMissing, [BootNext]_BootVars
                PROVE  CulpritMissing'
    OBVIOUS
  <2>1. CASE ~resets /\ culprit' = culprit
    BY <2>1 DEF Begun, CulpritMissing
  <2>2. CASE \E task \in tasks, part \in Part : Take(task, part)
    BY <2>2 DEF Take, CulpritMissing
  <2>3. CASE WifiPanics
    BY <2>3 DEF WifiPanics, CulpritMissing
  <2>4. CASE Restart
    BY <2>4 DEF Restart, CulpritMissing
  <2>5. CASE UNCHANGED BootVars
    BY <2>5 DEF BootVars, CulpritMissing
  <2>6. (BringUp /\ ~WifiPanics) => ~resets /\ culprit' = culprit
    <3>1. Storage \/ Config \/ Logger \/ Auth \/ Wifi \/ Csi => ~resets /\ culprit' = culprit
      BY DEF Storage, Config, Logger, Auth, Wifi, Csi, Up, Down, Idle, Turn
    <3>2. CsiTaskFails \/ Motion \/ Display \/ Ota \/ Web \/ ConfirmImage
            => ~resets /\ culprit' = culprit
      BY DEF CsiTaskFails, Motion, Display, Ota, Web, ConfirmImage, Up, Down, Idle, Turn
    <3>. QED BY <3>1, <3>2 DEF BringUp
  <2>. QED BY <2>1, <2>2, <2>3, <2>4, <2>5, <2>6 DEF BootNext
<1>3. BootSpec => []Begun
  BY BootInitBegun, BegunStep, PTL DEF BootSpec
<1>4. "csi" # Nothing
  BY NothingAssumption, CsiIsAPart
<1>5. Begun /\ CulpritMissing /\ ("csi" \in failed => "csi" \in ready) => CsiFailureTolerated
  BY <1>4 DEF Begun, UsedAfterInit, CulpritMissing, CsiFailureTolerated
<1>. QED BY <1>1, <1>2, <1>3, <1>5, PTL DEF BootSpec

=============================================================================
