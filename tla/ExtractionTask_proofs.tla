----------------------- MODULE ExtractionTask_proofs -----------------------
(***************************************************************************)
(* Proofs about ExtractionTask, for a request of any number of layers: the *)
(* run is well typed, the mail accounts for every layer, and the rows of   *)
(* the statistics database agree with it.                                  *)
(***************************************************************************)
EXTENDS ExtractionTask, TLAPS

\* A run that starts satisfies the invariant: no layer is settled or logged.
LEMMA InitInv == Init => IInv
<1> SUFFICES ASSUME Init PROVE IInv
  OBVIOUS
<1>1. TypeOK
  <2>1. /\ result \in [Layers -> Settled \cup {"none"}]
        /\ row \in [Layers -> {"absent", "null", "true", "false"}]
    BY DEF Init
  <2>2. /\ logged \in BOOLEAN /\ dbFailed \in BOOLEAN
        /\ mailed \in BOOLEAN /\ tmp \in BOOLEAN
    BY DEF Init
  <2>3. /\ pc = "start" /\ layer = 1 /\ tries = 0
        /\ state = "WAITING" /\ archive = "none"
    BY DEF Init
  <2> QED
    BY <2>1, <2>2, <2>3, LayersAssumption DEF TypeOK, EXTRACTION_ATTEMPTS
<1>2. LoopInv
  BY LayersAssumption DEF Init, LoopInv, Layers
<1>3. LogInv
  BY DEF Init, LogInv, LogMatchesReport
<1> QED
  BY <1>1, <1>2, <1>3 DEF IInv

\* Each statement of run() keeps the variables in their types.
LEMMA TypeStep == ASSUME TypeOK, Step PROVE TypeOK'
<1> USE LayersAssumption DEF TypeOK, At, Layers, EXTRACTION_ATTEMPTS
<1>1. CASE SetRunning BY <1>1 DEF SetRunning
<1>2. CASE StatSetRunning
  <2>1. row' \in [Layers -> {"absent", "null", "true", "false"}]
    <3>1. CASE UNCHANGED row
      BY <3>1
    <3>2. CASE \E n \in 0..NLayers :
                  row' = [l \in Layers |-> IF l <= n THEN "null" ELSE "absent"]
      BY <3>2
    <3> QED
      BY <1>2, <3>1, <3>2 DEF StatSetRunning
  <2>2. logged' \in BOOLEAN /\ dbFailed' \in BOOLEAN
    <3>1. CASE logged' = FALSE /\ dbFailed' = TRUE
      BY <3>1
    <3>2. CASE logged' = TRUE /\ \E n \in 0..NLayers : dbFailed' = (n < NLayers)
      BY <3>2
    <3> QED
      BY <1>2, <3>1, <3>2 DEF StatSetRunning
  <2>3. /\ pc' = "mkdir"
        /\ UNCHANGED <<layer, tries, result, state, archive, mailed, tmp>>
    BY <1>2 DEF StatSetRunning
  <2> QED
    BY <2>1, <2>2, <2>3
<1>3. CASE StatSetRunningCrash BY <1>3 DEF StatSetRunningCrash
<1>4. CASE MakeDirectories BY <1>4 DEF MakeDirectories
<1>5. CASE MakeDirectoriesCrash BY <1>5 DEF MakeDirectoriesCrash
<1>6. CASE LayerExtracted BY <1>6 DEF LayerExtracted, InLoop, Settle, Settled
<1>7. CASE LayerRejected
  <2>1. result' \in [Layers -> Settled \cup {"none"}]
    BY <1>7 DEF LayerRejected, Settle, Settled
  <2>2. /\ row' \in [Layers -> {"absent", "null", "true", "false"}]
        /\ dbFailed' \in BOOLEAN
    BY <1>7 DEF LayerRejected, ErrorLogged, ErrorNotLogged
  <2>3. layer' \in 1..(NLayers + 1) /\ tries' \in 0..EXTRACTION_ATTEMPTS
    BY <1>7 DEF LayerRejected, InLoop, Settle
  <2> QED
    BY <1>7, <2>1, <2>2, <2>3 DEF LayerRejected, InLoop
<1>8. CASE LayerRetried BY <1>8 DEF LayerRetried, InLoop
<1>9. CASE HandlerThrows
  <2>1. result' \in [Layers -> Settled \cup {"none"}]
    BY <1>9 DEF HandlerThrows, Settled
  <2>2. /\ row' \in [Layers -> {"absent", "null", "true", "false"}]
        /\ dbFailed' \in BOOLEAN
    BY <1>9 DEF HandlerThrows, ErrorLogged, ErrorNotLogged
  <2> QED
    BY <1>9, <2>1, <2>2 DEF HandlerThrows
<1>10. CASE LayerDirectoryFails BY <1>10 DEF LayerDirectoryFails
<1>11. CASE LayersDone BY <1>11 DEF LayersDone
<1>12. CASE ArchiveExtraction BY <1>12 DEF ArchiveExtraction
<1>13. CASE ArchiveThrows BY <1>13 DEF ArchiveThrows
<1>14. CASE SendDone BY <1>14 DEF SendDone
<1>15. CASE Finally BY <1>15 DEF Finally
<1>16. CASE StatSetCompleted BY <1>16 DEF StatSetCompleted
<1> QED
  BY <1>1, <1>2, <1>3, <1>4, <1>5, <1>6, <1>7, <1>8, <1>9, <1>10, <1>11, <1>12, <1>13,
     <1>14, <1>15, <1>16 DEF Step

\* The layers before the current one stay settled and the ones after it not.
LEMMA LoopStep == ASSUME TypeOK, LoopInv, Step PROVE LoopInv'
<1> USE LayersAssumption DEF TypeOK, LoopInv, At, Layers, Settled
<1>1. CASE SetRunning BY <1>1 DEF SetRunning
<1>2. CASE StatSetRunning BY <1>2 DEF StatSetRunning
<1>3. CASE StatSetRunningCrash BY <1>3 DEF StatSetRunningCrash
<1>4. CASE MakeDirectories BY <1>4 DEF MakeDirectories
<1>5. CASE MakeDirectoriesCrash BY <1>5 DEF MakeDirectoriesCrash
<1>6. CASE LayerExtracted BY <1>6 DEF LayerExtracted, InLoop, Settle
<1>7. CASE LayerRejected BY <1>7 DEF LayerRejected, InLoop, Settle
<1>8. CASE LayerRetried BY <1>8 DEF LayerRetried, InLoop
<1>9. CASE HandlerThrows
  <2>1. PICK r \in {"oversized", "failure"} : result' = [result EXCEPT ![layer] = r]
    BY <1>9 DEF HandlerThrows
  <2> QED
    BY <1>9, <2>1 DEF HandlerThrows, InLoop
<1>10. CASE LayerDirectoryFails BY <1>10 DEF LayerDirectoryFails, InLoop
<1>11. CASE LayersDone BY <1>11 DEF LayersDone
<1>12. CASE ArchiveExtraction BY <1>12 DEF ArchiveExtraction
<1>13. CASE ArchiveThrows BY <1>13 DEF ArchiveThrows
<1>14. CASE SendDone BY <1>14 DEF SendDone
<1>15. CASE Finally BY <1>15 DEF Finally
<1>16. CASE StatSetCompleted BY <1>16 DEF StatSetCompleted
<1> QED
  BY <1>1, <1>2, <1>3, <1>4, <1>5, <1>6, <1>7, <1>8, <1>9, <1>10, <1>11, <1>12, <1>13,
     <1>14, <1>15, <1>16 DEF Step

\* The rows of the database follow the lists as long as it has answered.
LEMMA LogStep == ASSUME TypeOK, LoopInv, LogInv, Step PROVE LogInv'
<1> USE LayersAssumption DEF TypeOK, LogInv, LogMatchesReport, At, Layers, Settled
<1>1. CASE SetRunning BY <1>1 DEF SetRunning, LoopInv
<1>2. CASE StatSetRunning
  <2>1. pc' = "mkdir" /\ ~mailed' /\ UNCHANGED result
    BY <1>2 DEF StatSetRunning, LoopInv
  <2>2. \A l \in Layers : result[l] = "none"
    BY <1>2 DEF StatSetRunning, LoopInv
  <2>3. ~dbFailed' => logged' /\ \A l \in Layers : row'[l] = "null"
    <3>1. CASE dbFailed' = TRUE
      BY <3>1
    <3>2. CASE \E n \in 0..NLayers :
                  /\ logged' = TRUE
                  /\ row' = [l \in Layers |-> IF l <= n THEN "null" ELSE "absent"]
                  /\ dbFailed' = (n < NLayers)
      <4>1. PICK n \in 0..NLayers :
                  /\ logged' = TRUE
                  /\ row' = [l \in Layers |-> IF l <= n THEN "null" ELSE "absent"]
                  /\ dbFailed' = (n < NLayers)
        BY <3>2
      <4>2. CASE n < NLayers
        BY <4>1, <4>2
      <4>3. CASE n = NLayers
        BY <4>1, <4>3
      <4> QED
        BY <4>2, <4>3
    <3> QED
      BY <1>2, <3>1, <3>2 DEF StatSetRunning
  <2> QED
    BY <2>1, <2>2, <2>3
<1>3. CASE StatSetRunningCrash BY <1>3 DEF StatSetRunningCrash
<1>4. CASE MakeDirectories BY <1>4 DEF MakeDirectories
<1>5. CASE MakeDirectoriesCrash BY <1>5 DEF MakeDirectoriesCrash
<1>6. CASE LayerExtracted BY <1>6 DEF LayerExtracted, InLoop, Settle, LoopInv
<1>7. CASE LayerRejected BY <1>7 DEF LayerRejected, InLoop, Settle, ErrorLogged, ErrorNotLogged, LoopInv
<1>8. CASE LayerRetried BY <1>8 DEF LayerRetried, InLoop
<1>9. CASE HandlerThrows BY <1>9 DEF HandlerThrows, InLoop, ErrorLogged, ErrorNotLogged, LoopInv
<1>10. CASE LayerDirectoryFails BY <1>10 DEF LayerDirectoryFails, InLoop, LoopInv
<1>11. CASE LayersDone BY <1>11 DEF LayersDone
<1>12. CASE ArchiveExtraction BY <1>12 DEF ArchiveExtraction
<1>13. CASE ArchiveThrows BY <1>13 DEF ArchiveThrows, LoopInv
<1>14. CASE SendDone BY <1>14 DEF SendDone
<1>15. CASE Finally BY <1>15 DEF Finally
<1>16. CASE StatSetCompleted BY <1>16 DEF StatSetCompleted, LoopInv
<1> QED
  BY <1>1, <1>2, <1>3, <1>4, <1>5, <1>6, <1>7, <1>8, <1>9, <1>10, <1>11, <1>12, <1>13,
     <1>14, <1>15, <1>16 DEF Step

\* IInv is inductive.
LEMMA NextInv == IInv /\ [Next]_vars => IInv'
<1> SUFFICES ASSUME IInv, [Next]_vars PROVE IInv'
  OBVIOUS
<1>1. CASE Step
  BY <1>1, TypeStep, LoopStep, LogStep DEF IInv
<1>2. CASE UNCHANGED vars
  BY <1>2 DEF vars, IInv, TypeOK, LoopInv, LogInv, LogMatchesReport, Layers, Settled
<1> QED
  BY <1>1, <1>2 DEF Next

\* Every state of a run satisfies IInv; in particular it is well typed.
THEOREM Invariance == Spec => []IInv
BY InitInv, NextInv, PTL DEF Spec

\* The mail of a run of ExtractionTask accounts for every layer of the request,
\* whatever fails and however often an extraction is retried.
THEOREM LayersReported == Spec => []EveryLayerReported
<1>1. IInv => EveryLayerReported
  BY LayersAssumption DEF IInv, TypeOK, LoopInv, EveryLayerReported, Layers
<1> QED
  BY <1>1, Invariance, PTL

\* If the database answered every time, the statistics of a mailed job have
\* TRUE for exactly the layers that the mail reports as extracted.
THEOREM LogAgrees == Spec => []LogMatchesReport
<1>1. IInv => LogMatchesReport
  BY DEF IInv, LogInv, LogMatchesReport
<1> QED
  BY <1>1, Invariance, PTL

\* A layer is attempted three times at most: in a state, the attempts that have
\* failed are fewer than the limit.
LEMMA TriesStep ==
    ASSUME tries \in 0..2, [Next]_vars
    PROVE  /\ tries' \in 0..2
           /\ layer' = layer + 1 \/ layer' = layer
<1>1. CASE LayerExtracted \/ LayerRejected
  BY <1>1 DEF LayerExtracted, LayerRejected, Settle
<1>2. CASE LayerRetried
  BY <1>2 DEF LayerRetried, EXTRACTION_ATTEMPTS
<1>3. CASE HandlerThrows
  BY <1>3 DEF HandlerThrows
<1>4. CASE UNCHANGED <<layer, tries>>
  BY <1>4
<1>5. CASE Step
  BY <1>1, <1>2, <1>3, <1>4, <1>5
  DEF Step, SetRunning, StatSetRunning, StatSetRunningCrash, MakeDirectories,
      MakeDirectoriesCrash, LayerDirectoryFails, LayersDone, ArchiveExtraction, ArchiveThrows,
      SendDone, Finally, StatSetCompleted
<1> QED
  BY <1>4, <1>5 DEF Next, vars

\* ExtractionTask.run lists a layer once and attempts it three times at most:
\* no step changes the list of a layer or goes past the last attempt.
THEOREM LayersSettleOnce == Spec => SettledOnce
<1> DEFINE Few == tries \in 0..2
           Once == /\ \A l \in Layers : result[l] # "none" => result'[l] = result[l]
                   /\ layer' = layer => tries' <= EXTRACTION_ATTEMPTS - 1
<1>1. Init => Few
  BY DEF Init
<1>2. Few /\ [Next]_vars => Few'
  BY TriesStep
<1>3. Few /\ IInv /\ [Next]_vars => [Once]_vars
  <2> SUFFICES ASSUME Few, IInv, Step PROVE Once
    BY DEF Next
  <2>1. layer' = layer => tries' <= EXTRACTION_ATTEMPTS - 1
    BY TriesStep DEF Next, EXTRACTION_ATTEMPTS
  <2>2. ASSUME NEW l \in Layers, result[l] # "none" PROVE result'[l] = result[l]
    <3>1. InLoop => l # layer
      BY <2>2 DEF InLoop, IInv, LoopInv
    <3>2. result \in [Layers -> Settled \cup {"none"}]
      BY DEF IInv, TypeOK
    <3>3. CASE LayerExtracted \/ LayerRejected
      BY <3>1, <3>2, <3>3 DEF LayerExtracted, LayerRejected, Settle
    <3>4. CASE HandlerThrows
      BY <3>1, <3>2, <3>4 DEF HandlerThrows
    <3>5. CASE UNCHANGED result
      BY <3>5
    <3> QED
      BY <3>3, <3>4, <3>5
      DEF Step, SetRunning, StatSetRunning, StatSetRunningCrash, MakeDirectories,
          MakeDirectoriesCrash, LayerRetried, LayerDirectoryFails, LayersDone,
          ArchiveExtraction, ArchiveThrows, SendDone, Finally, StatSetCompleted
  <2> QED
    BY <2>1, <2>2
<1> QED
  BY <1>1, <1>2, <1>3, Invariance, PTL DEF Spec, SettledOnce
=============================================================================
