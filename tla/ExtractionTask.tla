--------------------------- MODULE ExtractionTask ---------------------------
(***************************************************************************)
(* One run of one ExtractionTask: the layers of the request are extracted  *)
(* in turn, each with up to EXTRACTION_ATTEMPTS attempts, then the bundle  *)
(* is archived and the requester mailed.  Map services, file system, mail  *)
(* server and statistics database may fail at every use; what an exception *)
(* skips depends on where it is thrown.                                    *)
(***************************************************************************)
EXTENDS Integers

CONSTANT NLayers   \* number of layers of the request

ASSUME LayersAssumption == NLayers \in Nat \ {0}

EXTRACTION_ATTEMPTS == 3
Layers == 1..NLayers

VARIABLES
    pc,        \* next statement of run()
    layer,     \* index in requestConfig.requests
    tries,     \* attempts at the current layer; larger than the limit to leave
    result,    \* the list a layer is in: successes, failures, oversized
    state,     \* executionMetadata
    logged,    \* logId has been set
    row,       \* extractor_layer_log: is_successful of each layer
    dbFailed,  \* a use of the database has failed during this run
    archive,   \* the zip file in the storage directory
    mailed,    \* sendDone has been called
    tmp        \* temporary directories exist

vars == <<pc, layer, tries, result, state, logged, row, dbFailed, archive, mailed, tmp>>

Settled == {"success", "failure", "oversized"}

TypeOK ==
    /\ pc \in {"start", "log", "mkdir", "layers", "archive", "mail", "finally",
               "logEnd", "done", "crashed"}
    /\ layer \in 1..(NLayers + 1)
    /\ tries \in 0..EXTRACTION_ATTEMPTS
    /\ result \in [Layers -> Settled \cup {"none"}]
    /\ state \in {"WAITING", "RUNNING", "COMPLETED"}
    /\ logged \in BOOLEAN
    /\ row \in [Layers -> {"absent", "null", "true", "false"}]
    /\ dbFailed \in BOOLEAN
    /\ archive \in {"none", "complete", "broken"}
    /\ mailed \in BOOLEAN
    /\ tmp \in BOOLEAN

Init ==
    /\ pc = "start"
    /\ layer = 1
    /\ tries = 0
    /\ result = [l \in Layers |-> "none"]
    /\ state = "WAITING"
    /\ logged = FALSE
    /\ row = [l \in Layers |-> "absent"]
    /\ dbFailed = FALSE
    /\ archive = "none"
    /\ mailed = FALSE
    /\ tmp = FALSE

At(here, there) == pc = here /\ pc' = there

SetRunning ==
    /\ At("start", "log")
    /\ state' = "RUNNING"
    /\ UNCHANGED <<layer, tries, result, logged, row, dbFailed, archive, mailed, tmp>>

-----------------------------------------------------------------------------
(* The statistics database.  Every statement is committed on its own. *)

\* statSetRunning inserts the request, then its layers one by one.  What it
\* catches stops it there and is only written to the log.
StatSetRunning ==
    /\ At("log", "mkdir")
    /\ \/ /\ logged' = FALSE
          /\ dbFailed' = TRUE
          /\ UNCHANGED row
       \/ \E n \in 0..NLayers :
          /\ logged' = TRUE
          /\ row' = [l \in Layers |-> IF l <= n THEN "null" ELSE "absent"]
          /\ dbFailed' = (n < NLayers)
    /\ UNCHANGED <<layer, tries, result, state, archive, mailed, tmp>>

\* An exception it does not catch, as for a request without roles, ends run()
\* outside of its try block.
StatSetRunningCrash ==
    /\ At("log", "crashed")
    /\ UNCHANGED <<layer, tries, result, state, logged, row, dbFailed, archive, mailed, tmp>>

\* Mutant of ErrorLogged: the row of the layer is not updated.
ErrorForgotten == row[layer] # "absent" /\ UNCHANGED <<row, dbFailed>>

\* statSetError on a database that answers; the row of the layer exists.
ErrorLogged ==
    /\ row[layer] # "absent"
    /\ row' = [row EXCEPT ![layer] = "false"]
    /\ UNCHANGED dbFailed

\* statSetError on a database that does not answer.
ErrorNotLogged ==
    /\ dbFailed' = TRUE
    /\ UNCHANGED row

\* statSetCompleted.  Without a logId it throws, but nothing follows it.
StatSetCompleted ==
    /\ At("logEnd", "done")
    /\ \/ /\ logged
          /\ row' = [l \in Layers |-> IF row[l] = "null" THEN "true" ELSE row[l]]
          /\ UNCHANGED dbFailed
       \/ /\ ~logged
          /\ UNCHANGED <<row, dbFailed>>
       \/ /\ dbFailed' = TRUE
          /\ UNCHANGED row
    /\ UNCHANGED <<layer, tries, result, state, logged, archive, mailed, tmp>>

-----------------------------------------------------------------------------
(* Directories and layers *)

MakeDirectories ==
    /\ At("mkdir", "layers")
    /\ tmp' = TRUE
    /\ UNCHANGED <<layer, tries, result, state, logged, row, dbFailed, archive, mailed>>

\* Either directory cannot be made; the first may have been.
MakeDirectoriesCrash ==
    /\ At("mkdir", "crashed")
    /\ tmp' \in BOOLEAN
    /\ UNCHANGED <<layer, tries, result, state, logged, row, dbFailed, archive, mailed>>

InLoop == pc = "layers" /\ layer \in Layers

\* Mutant of Settle: the layer stays the current one.
SettleStays(r) ==
    /\ result' = [result EXCEPT ![layer] = r]
    /\ tries' = 0
    /\ UNCHANGED layer

\* The layer is done with: tries is set past the limit, or has reached it.
Settle(r) ==
    /\ result' = [result EXCEPT ![layer] = r]
    /\ layer' = layer + 1
    /\ tries' = 0

LayerExtracted ==
    /\ InLoop
    /\ Settle("success")
    /\ UNCHANGED <<pc, state, logged, row, dbFailed, archive, mailed, tmp>>

\* handleExtractionException returned.  Oversized requests and refused ones
\* are not tried again, any other exception is at the last attempt.
LayerRejected ==
    /\ InLoop
    /\ \/ Settle("oversized")
       \/ Settle("failure")
    /\ ErrorLogged \/ ErrorNotLogged
    /\ UNCHANGED <<pc, state, logged, archive, mailed, tmp>>

\* Mutant of LayerRetried: there is always another attempt.
LayerRetriedForever ==
    /\ InLoop
    /\ tries' = (tries + 1) % EXTRACTION_ATTEMPTS
    /\ UNCHANGED <<pc, layer, result, state, logged, row, dbFailed, archive, mailed, tmp>>

\* Any other exception before the last attempt.
LayerRetried ==
    /\ InLoop
    /\ tries + 1 < EXTRACTION_ATTEMPTS
    /\ tries' = tries + 1
    /\ UNCHANGED <<pc, layer, result, state, logged, row, dbFailed, archive, mailed, tmp>>

\* handleExtractionException throws out of the loop: the layer has no id in
\* the database, the exception has no message or the bundle is gone.
HandlerThrows ==
    /\ InLoop
    /\ \E r \in {"oversized", "failure"} : result' = [result EXCEPT ![layer] = r]
    /\ pc' = "finally"
    /\ ErrorLogged \/ ErrorNotLogged \/ UNCHANGED <<row, dbFailed>>
    /\ UNCHANGED <<layer, tries, state, logged, archive, mailed, tmp>>

\* The directory of the layer, made before the inner try block, cannot be made.
LayerDirectoryFails ==
    /\ InLoop
    /\ pc' = "finally"
    /\ UNCHANGED <<layer, tries, result, state, logged, row, dbFailed, archive, mailed, tmp>>

\* Mutant of LayersDone: the loop leaves the last layer out.
LayersDoneEarly ==
    /\ layer >= NLayers
    /\ At("layers", "archive")
    /\ UNCHANGED <<layer, tries, result, state, logged, row, dbFailed, archive, mailed, tmp>>

LayersDone ==
    /\ layer = NLayers + 1
    /\ At("layers", "archive")
    /\ UNCHANGED <<layer, tries, result, state, logged, row, dbFailed, archive, mailed, tmp>>

-----------------------------------------------------------------------------
(* Archive, mail and the finally block *)

\* archiveExtraction swallows an IOException and returns the file all the same.
ArchiveExtraction ==
    /\ At("archive", "mail")
    /\ archive' \in {"complete", "broken"}
    /\ UNCHANGED <<layer, tries, result, state, logged, row, dbFailed, mailed, tmp>>

\* Whatever else it throws goes to the finally block.
ArchiveThrows ==
    /\ At("archive", "finally")
    /\ archive' \in {"none", "broken"}
    /\ UNCHANGED <<layer, tries, result, state, logged, row, dbFailed, mailed, tmp>>

SendDone ==
    /\ At("mail", "finally")
    /\ mailed' = TRUE
    /\ UNCHANGED <<layer, tries, result, state, logged, row, dbFailed, archive, tmp>>

Finally ==
    /\ At("finally", "logEnd")
    /\ state' = "COMPLETED"
    /\ tmp' = FALSE
    /\ UNCHANGED <<layer, tries, result, logged, row, dbFailed, archive, mailed>>

-----------------------------------------------------------------------------
Step ==
    \/ SetRunning \/ StatSetRunning \/ StatSetRunningCrash
    \/ MakeDirectories \/ MakeDirectoriesCrash
    \/ LayerExtracted \/ LayerRejected \/ LayerRetried
    \/ HandlerThrows \/ LayerDirectoryFails \/ LayersDone
    \/ ArchiveExtraction \/ ArchiveThrows \/ SendDone
    \/ Finally \/ StatSetCompleted

Ended == pc \in {"done", "crashed"}

Next == Step \/ (Ended /\ UNCHANGED vars)

Spec == Init /\ [][Next]_vars

\* The pool thread goes on with the task: the services it waits for answer or fail.
FairSpec == Spec /\ WF_vars(Step)

-----------------------------------------------------------------------------
(* Properties *)

\* The mail accounts for every layer: when sendDone is called each layer of the
\* request is in one of the three lists.
EveryLayerReported == mailed => \A l \in Layers : result[l] # "none"

\* The statistics agree with the mail: if the database answered every time, a
\* mailed job has TRUE for exactly the layers it reports as extracted.
LogMatchesReport ==
    pc = "done" /\ mailed /\ ~dbFailed =>
        \A l \in Layers : row[l] = IF result[l] = "success" THEN "true" ELSE "false"

\* A layer that has been put in a list is not attempted or listed again, and no
\* attempt follows the third.
SettledOnce ==
    [][/\ \A l \in Layers : result[l] # "none" => result'[l] = result[l]
       /\ layer' = layer => tries' <= EXTRACTION_ATTEMPTS - 1]_vars

\* Whatever the services do, the run comes to an end and frees its thread.
RunEnds == <>Ended

-----------------------------------------------------------------------------
(* The inductive invariant *)

\* The layers before the current one are settled, the ones after it are not.
LoopInv ==
    /\ \A l \in Layers : l < layer => result[l] # "none"
    /\ \A l \in Layers : l > layer => result[l] = "none"
    /\ pc \in {"start", "log", "mkdir", "layers"} /\ layer \in Layers => result[layer] = "none"
    /\ pc \in {"start", "log", "mkdir", "crashed"} => layer = 1 /\ ~mailed
    /\ pc \in {"archive", "mail"} \/ mailed => layer = NLayers + 1
    /\ mailed => pc \in {"finally", "logEnd", "done"}

\* As long as the database has answered, the rows of the settled layers tell
\* the failed ones from the others, and the last statement completes them.
LogInv ==
    ~dbFailed =>
        /\ pc \in {"mkdir", "layers", "archive", "mail"} => logged
        /\ mailed => logged
        /\ pc \in {"mkdir", "layers", "archive", "mail"} \/ (mailed /\ pc # "done") =>
              \A l \in Layers :
                 row[l] = IF result[l] \in {"none", "success"} THEN "null" ELSE "false"
        /\ LogMatchesReport

IInv == TypeOK /\ LoopInv /\ LogInv
=============================================================================
