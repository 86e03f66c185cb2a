----------------------------- MODULE PartsProofs -----------------------------
(***************************************************************************)
(* Proofs of what module MCParts is: six modules side by side.  A          *)
(* behaviour of it about one part is a behaviour of that part's module, so *)
(* that what is proved of the modules holds of it; and the types of all    *)
(* parts are kept, those of the parts at rest too.                         *)
(***************************************************************************)
EXTENDS MCParts, CameraProofs, MotorsProofs, ThreadsProofs

(* A part at rest, and a step of another one. *)
MelodyRests == UNCHANGED melodyOwn
CameraRests == UNCHANGED cameraOwn
MotorsRest == UNCHANGED motorsVars
CoilsRest == UNCHANGED coilsVars
LineRests == UNCHANGED lineVars
ProximityRests == UNCHANGED proximityVars

(* One part goes on, as its module has it, or none.                        *)
LEMMA OnePartGoes ==
  ASSUME [PartsNext]_partsVars
  PROVE  /\ part' = part
         /\ part = "melody" => [MelodyNext]_melodyVarsAll
         /\ part = "camera" => [CameraNext]_cameraVars
         /\ IF part = "camera" THEN [CameraNext]_cameraVars ELSE CameraRests
         /\ IF part = "motors" THEN [MotorsNext]_motorsVars ELSE MotorsRest
         /\ IF part = "coils" THEN [CoilsNext]_coilsVars ELSE CoilsRest
         /\ IF part = "line" THEN [LineNext]_lineVars ELSE LineRests
         /\ IF part = "proximity" THEN [ProximityNext]_proximityVars ELSE ProximityRests
<1> USE DEF MelodyRests, CameraRests, MotorsRest, CoilsRest, LineRests, ProximityRests
<1>1. CASE MelodyRuns
  BY <1>1 DEF MelodyRuns
<1>2. CASE CameraRuns
  BY <1>2 DEF CameraRuns
<1>3. CASE MotorsRun
  BY <1>3 DEF MotorsRun
<1>4. CASE CoilsRun
  BY <1>4 DEF CoilsRun
<1>5. CASE LineRuns
  BY <1>5 DEF LineRuns
<1>6. CASE ProximityRuns
  BY <1>6 DEF ProximityRuns
<1>7. CASE UNCHANGED partsVars
  BY <1>7 DEF partsVars, melodyOwn, cameraOwn, melodyVarsAll, cameraVars
<1> QED
  BY <1>1, <1>2, <1>3, <1>4, <1>5, <1>6, <1>7 DEF PartsNext, PartStops

(* The run on the parts is about their modules: a behaviour about a part   *)
(* is one of its module, under the fairness that the run assumes.          *)
THEOREM PartsFollowModules ==
  PartsSpec => /\ part = "melody" => MelodyFairSpec
               /\ part = "camera" => CameraSpec
               /\ part = "motors" => MotorsSpec
               /\ part = "coils" => CoilsSpec
               /\ part = "line" => LineSpec
               /\ part = "proximity" => ProximityFairSpec
<1>1. PartsInit => /\ part = "melody" => MelodyInit
                   /\ part = "camera" => CameraInit
                   /\ MotorsInit /\ CoilsInit /\ ProximityInit
                   /\ part = "line" => LineInit
  BY DEF PartsInit, MelodyInit, CameraInit
<1>2. part = "melody" /\ [PartsNext]_partsVars =>
        (part = "melody")' /\ [MelodyNext]_melodyVarsAll
  BY OnePartGoes
<1>3. part = "camera" /\ [PartsNext]_partsVars =>
        (part = "camera")' /\ [CameraNext]_cameraVars
  BY OnePartGoes
<1>4. part = "motors" /\ [PartsNext]_partsVars =>
        (part = "motors")' /\ [MotorsNext]_motorsVars
  BY OnePartGoes
<1>5. part = "coils" /\ [PartsNext]_partsVars =>
        (part = "coils")' /\ [CoilsNext]_coilsVars
  BY OnePartGoes
<1>6. part = "line" /\ [PartsNext]_partsVars =>
        (part = "line")' /\ [LineNext]_lineVars
  BY OnePartGoes
<1>7. part = "proximity" /\ [PartsNext]_partsVars =>
        (part = "proximity")' /\ [ProximityNext]_proximityVars
  BY OnePartGoes
<1>8. PartsSpec => (part = "melody" => MelodyFairSpec)
  BY <1>1, <1>2, PTL DEF PartsSpec, MelodyFairSpec, MelodySpec
<1>9. PartsSpec => (part = "camera" => CameraSpec)
  BY <1>1, <1>3, PTL DEF PartsSpec, CameraSpec
<1>10. PartsSpec => (part = "motors" => MotorsSpec)
  BY <1>1, <1>4, PTL DEF PartsSpec, MotorsSpec
<1>11. PartsSpec => (part = "coils" => CoilsSpec)
  BY <1>1, <1>5, PTL DEF PartsSpec, CoilsSpec
<1>12. PartsSpec => (part = "line" => LineSpec)
  BY <1>1, <1>6, PTL DEF PartsSpec, LineSpec
<1>13. PartsSpec => (part = "proximity" => ProximityFairSpec)
  BY <1>1, <1>7, PTL DEF PartsSpec, ProximityFairSpec, ProximitySpec
<1> QED
  BY <1>8, <1>9, <1>10, <1>11, <1>12, <1>13, PTL

-----------------------------------------------------------------------------
(* The types of all parts.  Those of the melody, the motors and the        *)
(* sensors' sums need more of their invariants.                            *)
PartsInv ==
  /\ part = "melody" => MelodyInv
  /\ CameraTypeOK /\ MotorsInv /\ CoilsTypeOK /\ LineTypeOK /\ SensorsInv

LEMMA PartsStart ==
  ASSUME 0 \in Pixel, PartsInit
  PROVE  PartsInv
<1>1. part = "melody" => MelodyInv
  BY MelodyStart DEF PartsInit, MelodyInit
<1>2. CameraTypeOK /\ MotorsInv /\ CoilsTypeOK /\ SensorsInv
  BY CameraTypesStart, MotorsStart, CoilsTypesStart, SensorsStart DEF PartsInit
<1>3. LineTypeOK
  <2>1. CASE part = "line"
    BY <2>1, LineTypesStart DEF PartsInit, LineInit
  <2>2. CASE part # "line"
    <3>1. {[i \in Positions |-> 0]} \in SUBSET [Positions -> Pixel]
      OBVIOUS
    <3> QED
      BY <2>2, <3>1, LineTypesStart DEF PartsInit
  <2> QED
    BY <2>1, <2>2
<1> QED
  BY <1>1, <1>2, <1>3 DEF PartsInv

LEMMA PartsStep ==
  ASSUME PartsInv, [PartsNext]_partsVars
  PROVE  PartsInv'
<1>1. part' = part
  BY OnePartGoes
<1>2. (part = "melody" => MelodyInv)'
  <2> SUFFICES ASSUME part = "melody" PROVE MelodyInv'
    BY <1>1
  <2> QED
    BY OnePartGoes, MelodyStep DEF PartsInv
<1>3. CameraTypeOK'
  <2>1. CASE CameraRests
    BY <2>1 DEF CameraRests, cameraOwn, captureVars, processVars, driverVars, scanVars,
       CameraTypeOK, PartsInv
  <2> QED
    BY <2>1, OnePartGoes, CameraTypesStep DEF PartsInv
<1>4. MotorsInv'
  BY OnePartGoes, MotorsStep DEF MotorsRest, PartsInv
<1>5. CoilsTypeOK'
  BY OnePartGoes, CoilsTypesStep DEF CoilsRest, PartsInv
<1>6. LineTypeOK'
  BY OnePartGoes, LineTypesStep DEF LineRests, PartsInv
<1>7. SensorsInv'
  BY OnePartGoes, SensorsStep DEF ProximityRests, PartsInv
<1> QED
  BY <1>2, <1>3, <1>4, <1>5, <1>6, <1>7 DEF PartsInv

(* PartsTypeOK: the variables of every part have the types of its code,    *)
(* whichever part goes on.  0 is a pixel of the image that stands for all  *)
(* when the line detection is at rest.                                     *)
THEOREM PartsTyped ==
  ASSUME 0 \in Pixel
  PROVE  PartsSpec => []PartsTypeOK
<1>1. PartsInit => PartsInv
  BY PartsStart
<1>2. PartsInv /\ [PartsNext]_partsVars => PartsInv'
  BY PartsStep
<1>3. PartsInv => PartsTypeOK
  BY DEF PartsInv, PartsTypeOK, MelodyInv, MotorsInv, SensorsInv
<1> QED
  BY <1>1, <1>2, <1>3, PTL DEF PartsSpec
=============================================================================
