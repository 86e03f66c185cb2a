------------------------------ MODULE MCParts -------------------------------
(***************************************************************************)
(* The parts under the missions, each by itself and all in one run: they   *)
(* share no variable but the processor of Peers, and `part` says which of  *)
(* them a behaviour is about; the others stay as they were initialised.    *)
(***************************************************************************)
EXTENDS MelodyPlayer, Camera, Motors, Coils, LineDetection, Proximity

ThreeSongs == {"TAVERN", "RADAR", "VICTORY"}

Lengths == [s \in ThreeSongs |->
              CASE s = "TAVERN" -> 3 [] s = "RADAR" -> 1 [] OTHER -> 2]

VARIABLE part

Part == {"melody", "camera", "motors", "coils", "line", "proximity"}

melodyOwn == <<music_to_play, playerVars, play, play_melody_ref, rdymsg, melodyVars>>
cameraOwn == <<captureVars, processVars, driverVars, scanVars, image_ready_sem>>
partsVars == <<part, melodyOwn, cameraOwn, peerVars, motorsVars, coilsVars, lineVars,
               proximityVars>>

(* One image and one motor stand for all when they are not the part.       *)
PartsInit ==
  /\ part \in Part
  /\ MelodyStarts /\ CameraStarts /\ MotorsInit
  /\ CoilsInit /\ (part = "coils" \/ side = "left")
  /\ IF part = "line" THEN LineInit ELSE LineInitOn({[i \in Positions |-> 0]})
  /\ ProximityInit
  /\ running = Nobody
  /\ ready = CASE part = "melody" -> MelodyReady [] part = "camera" -> CameraReady
               [] OTHER -> <<>>

MelodyRuns == part = "melody" /\ MelodyNext
              /\ UNCHANGED <<part, cameraOwn, motorsVars, coilsVars, lineVars, proximityVars>>
CameraRuns == part = "camera" /\ CameraNext
              /\ UNCHANGED <<part, melodyOwn, motorsVars, coilsVars, lineVars, proximityVars>>
MotorsRun == part = "motors" /\ MotorsNext
             /\ UNCHANGED <<part, melodyOwn, cameraOwn, peerVars, coilsVars, lineVars, proximityVars>>
CoilsRun == part = "coils" /\ CoilsNext
            /\ UNCHANGED <<part, melodyOwn, cameraOwn, peerVars, motorsVars, lineVars, proximityVars>>
LineRuns == part = "line" /\ LineNext
            /\ UNCHANGED <<part, melodyOwn, cameraOwn, peerVars, motorsVars, coilsVars, proximityVars>>
ProximityRuns ==
  part = "proximity" /\ ProximityNext
  /\ UNCHANGED <<part, melodyOwn, cameraOwn, peerVars, motorsVars, coilsVars, lineVars>>

(* Where a part may rightly stop: the function has returned, an assertion  *)
(* has halted the system.  Anywhere else it would be a deadlock.           *)
PartStops ==
  /\ (part = "line" /\ pc = "done") \/ (part = "motors" /\ system_halted)
  /\ UNCHANGED partsVars

PartsNext ==
  \/ MelodyRuns \/ CameraRuns \/ MotorsRun \/ CoilsRun \/ LineRuns \/ ProximityRuns
  \/ PartStops

(* The fairness of the two parts that have a liveness property.            *)
PartsSpec ==
  /\ PartsInit /\ [][PartsNext]_partsVars
  /\ part = "melody" => MelodyFairness
  /\ part = "proximity" => ProximityFairness

(* The variables of every part have the types of its code. *)
PartsTypeOK ==
  /\ part = "melody" => MelodyTypeOK
  /\ CameraTypeOK /\ MotorsTypeOK /\ CoilsTypeOK /\ LineTypeOK /\ ProximityTypeOK

(* AskedSongIsPlayed, said of the part that plays. *)
PartPlaysAskedSong == part = "melody" => AskedSongIsPlayed

(* MessagesComeIn, said of the sensors' part. *)
PartGetsMessages == part = "proximity" => MessagesComeIn
=============================================================================
