------------------------------- MODULE Camera -------------------------------
(***************************************************************************)
(* process_image.c with the camera driver under it, dcmi_camera.c: one     *)
(* thread that starts a capture and waits for its end, which an interrupt  *)
(* tells; one that waits on a binary semaphore for an image, detects the   *)
(* coloured lines on it and averages over the last NB_SAMPLE_SCAN images;  *)
(* and the scan that switches both on, looks at an object for a time and   *)
(* takes the average for its verdict.  An image is the set of the colours  *)
(* in which a line is detected on it (module LineDetection).               *)
(***************************************************************************)
EXTENDS Integers, FiniteSets, Peers

CONSTANTS
  LineColor,        (* red and blue                                          *)
  NB_SAMPLE_SCAN,
  TIME_TO_SCAN,     (* ticks for which the scan looks                        *)
  CAMERA_POLL,      (* ticks for which a paused camera thread sleeps         *)
  FRAME_TIME,       (* ticks at most from the start of a capture to its end  *)
  EndsBeforeWait    (* a capture may end before wait_image_ready waits       *)

ASSUME CameraAssumption ==
  /\ {NB_SAMPLE_SCAN, TIME_TO_SCAN, CAMERA_POLL, FRAME_TIME} \subseteq Nat \ {0}
  /\ EndsBeforeWait \in BOOLEAN

(* A look is long enough for a majority of new images, whatever is left of *)
(* a sleep or of a capture when it begins.  With NB_SAMPLE_SCAN at 10, 500 *)
(* ms of looking and sleeps of 100 ms: for six captures of 65 ms.          *)
ASSUME EnoughFrames ==
  TIME_TO_SCAN >
    FRAME_TIME * (NB_SAMPLE_SCAN \div 2 + 1)
    + (IF CAMERA_POLL > FRAME_TIME THEN CAMERA_POLL ELSE FRAME_TIME)

VARIABLES
  is_paused,
  capture_pc, capture_sleep,     (* CaptureImage                             *)
  process_pc, process_sleep,     (* ProcessImage                             *)
  image_ready_sem,               (* the semaphore is signalled               *)
  filling,                       (* the capture under way, see Capture       *)
  frame_time,                    (* ... and the ticks it has left at most    *)
  buff,                          (* image_buff1 and image_buff2              *)
  CT,                            (* the buffer the DMA fills, or will next   *)
  img_buff_ptr,                  (* the buffer ProcessImage reads            *)
  line_detection,                (* line_detection_red, line_detection_blue  *)
  previous_line, circular_buffer,
  look, object, verdict          (* the scan: what is left of its look, what *)
                                 (* is in front of it, what it found         *)

captureVars == <<capture_pc, capture_sleep>>
processVars == <<process_pc, process_sleep, img_buff_ptr, line_detection, previous_line,
                 circular_buffer>>
driverVars == <<filling, frame_time, buff, CT>>
scanVars == <<is_paused, look, object, verdict>>
cameraVars == <<captureVars, processVars, driverVars, scanVars, image_ready_sem, peerVars>>

CaptureImage == "CaptureImage"
ProcessImage == "ProcessImage"
Image == SUBSET LineColor
NotLooking == -1

(* A capture of the object looked at, or one that another scene spoils.    *)
Capture == {"none", "clear", "spoilt"}

CameraTypeOK ==
  /\ is_paused \in BOOLEAN
  /\ capture_pc \in {"top", "start", "wait", "waiting", "signal", "sleep"}
  /\ process_pc \in {"top", "take", "waiting", "copy", "average", "sleep"}
  /\ {capture_sleep, process_sleep} \subseteq 0..CAMERA_POLL
  /\ image_ready_sem \in BOOLEAN
  /\ filling \in Capture
  /\ frame_time \in 0..FRAME_TIME
  /\ buff \in [{1, 2} -> Image]
  /\ {CT, img_buff_ptr} \subseteq {1, 2}
  /\ {line_detection, object, verdict} \subseteq Image
  /\ previous_line \in [0..(NB_SAMPLE_SCAN - 1) -> Image]
  /\ circular_buffer \in 0..(NB_SAMPLE_SCAN - 1)
  /\ look \in {NotLooking} \cup 0..TIME_TO_SCAN

(* ProcessImage_start_thd and ProcessImage_pause_thd by main.              *)
CameraReady == <<ProcessImage, CaptureImage>>

CameraStarts ==
  /\ is_paused = TRUE
  /\ capture_pc = "top" /\ capture_sleep = 0
  /\ process_pc = "top" /\ process_sleep = 0
  /\ image_ready_sem = FALSE
  /\ filling = "none" /\ frame_time = 0
  /\ buff = [b \in {1, 2} |-> {}]
  /\ CT = 1
  /\ img_buff_ptr = 1
  /\ line_detection = {}
  /\ previous_line = [i \in 0..(NB_SAMPLE_SCAN - 1) |-> {}]
  /\ circular_buffer = 0
  /\ look = NotLooking /\ object = {} /\ verdict = {}

CameraInit == CameraStarts /\ running = Nobody /\ ready = CameraReady

-----------------------------------------------------------------------------
(* CaptureImage.                                                           *)

CaptureTop ==
  /\ capture_pc = "top" /\ running = CaptureImage
  /\ IF is_paused
     THEN capture_pc' = "sleep" /\ capture_sleep' = CAMERA_POLL /\ Blocks
     ELSE capture_pc' = "start" /\ UNCHANGED capture_sleep /\ GoesOn
  /\ UNCHANGED <<processVars, driverVars, scanVars, image_ready_sem>>

dcmi_capture_start ==
  /\ capture_pc = "start" /\ running = CaptureImage
  /\ filling' = IF look = NotLooking THEN "spoilt" ELSE "clear"
  /\ frame_time' = FRAME_TIME
  /\ capture_pc' = "wait"
  /\ GoesOn
  /\ UNCHANGED <<capture_sleep, processVars, buff, CT, scanVars, image_ready_sem>>

(* Only image_ready knows whether the capture has ended already, and it is *)
(* not asked.                                                              *)
wait_image_ready ==
  /\ capture_pc = "wait" /\ running = CaptureImage
  /\ capture_pc' = "waiting"
  /\ Blocks
  /\ UNCHANGED <<capture_sleep, processVars, driverVars, scanVars, image_ready_sem>>

(* chBSemSignal on a binary semaphore.                                     *)
CaptureSignal ==
  /\ capture_pc = "signal" /\ running = CaptureImage
  /\ capture_pc' = "top"
  /\ IF process_pc = "waiting"
     THEN /\ process_pc' = "copy" /\ GoesOnWaking(ProcessImage)
          /\ UNCHANGED image_ready_sem
     ELSE image_ready_sem' = TRUE /\ GoesOn /\ UNCHANGED process_pc
  /\ UNCHANGED <<capture_sleep, process_sleep, img_buff_ptr, line_detection, previous_line,
                 circular_buffer, driverVars, scanVars>>

CaptureTimer ==
  /\ capture_pc = "sleep" /\ capture_sleep = 0
  /\ capture_pc' = "top"
  /\ Awakens(CaptureImage)
  /\ UNCHANGED <<capture_sleep, processVars, driverVars, scanVars, image_ready_sem>>

(* The end of a frame: the DMA changes buffers, frameEndCb broadcasts.     *)
frameEndCb ==
  /\ filling # "none"
  /\ EndsBeforeWait \/ capture_pc = "waiting"
  /\ \E image \in IF filling = "clear" THEN {object} ELSE Image :
       buff' = [buff EXCEPT ![CT] = image]
  /\ CT' = 3 - CT
  /\ filling' = "none"
  /\ frame_time' = 0
  /\ IF capture_pc = "waiting"
     THEN capture_pc' = "signal" /\ Awakens(CaptureImage)
     ELSE GoesOn /\ UNCHANGED capture_pc
  /\ UNCHANGED <<capture_sleep, processVars, scanVars, image_ready_sem>>

-----------------------------------------------------------------------------
(* ProcessImage.                                                           *)

ProcessTop ==
  /\ process_pc = "top" /\ running = ProcessImage
  /\ IF is_paused
     THEN process_pc' = "sleep" /\ process_sleep' = CAMERA_POLL /\ Blocks
     ELSE process_pc' = "take" /\ UNCHANGED process_sleep /\ GoesOn
  /\ UNCHANGED <<captureVars, img_buff_ptr, line_detection, previous_line,
                 circular_buffer, driverVars, scanVars, image_ready_sem>>

(* chBSemWait.                                                             *)
ProcessTake ==
  /\ process_pc = "take" /\ running = ProcessImage
  /\ IF image_ready_sem
     THEN process_pc' = "copy" /\ GoesOn
     ELSE process_pc' = "waiting" /\ Blocks
  /\ image_ready_sem' = FALSE
  /\ UNCHANGED <<captureVars, process_sleep, img_buff_ptr, line_detection, previous_line,
                 circular_buffer, driverVars, scanVars>>

(* Seeded fault: the two buffers are mistaken for each other. *)
dcmi_get_first_image_ptr == IF CT = 2 THEN 2 ELSE 1

dcmi_get_last_image_ptr == IF CT = 2 THEN 1 ELSE 2

(* The image is copied out of its buffer and the lines on it are detected; *)
(* the raw detection stands in the variables that the scan reads.          *)
ProcessCopy ==
  /\ process_pc = "copy" /\ running = ProcessImage
  /\ img_buff_ptr' = dcmi_get_last_image_ptr
  /\ line_detection' = buff[img_buff_ptr']
  /\ process_pc' = "average"
  /\ GoesOn
  /\ UNCHANGED <<captureVars, process_sleep, previous_line, circular_buffer, driverVars,
                 scanVars, image_ready_sem>>

Majority(lines) ==
  {c \in LineColor :
     Cardinality({i \in DOMAIN lines : c \in lines[i]}) > NB_SAMPLE_SCAN \div 2}

(* Seeded fault: one place of the window is never used. *)
line_detection_avg_stuck ==
  /\ previous_line' = [previous_line EXCEPT ![circular_buffer] = line_detection]
  /\ line_detection' = Majority(previous_line')
  /\ circular_buffer' = circular_buffer

line_detection_avg ==
  /\ previous_line' = [previous_line EXCEPT ![circular_buffer] = line_detection]
  /\ line_detection' = Majority(previous_line')
  /\ circular_buffer' = (circular_buffer + 1) % NB_SAMPLE_SCAN

ProcessAverage ==
  /\ process_pc = "average" /\ running = ProcessImage
  /\ line_detection_avg
  /\ process_pc' = "top"
  /\ GoesOn
  /\ UNCHANGED <<captureVars, process_sleep, img_buff_ptr, driverVars, scanVars,
                 image_ready_sem>>

ProcessTimer ==
  /\ process_pc = "sleep" /\ process_sleep = 0
  /\ process_pc' = "top"
  /\ Awakens(ProcessImage)
  /\ UNCHANGED <<captureVars, process_sleep, img_buff_ptr, line_detection, previous_line,
                 circular_buffer, driverVars, scanVars, image_ready_sem>>

-----------------------------------------------------------------------------
(* The scan, a peer of both threads, and time.                             *)

spoil == filling' = IF filling = "none" THEN "none" ELSE "spoilt"

(* ProcessImage_resume_thd in front of an object.                          *)
Look ==
  /\ look = NotLooking /\ running = Nobody
  /\ look' = TIME_TO_SCAN
  /\ object' \in Image
  /\ is_paused' = FALSE
  /\ spoil
  /\ UNCHANGED <<captureVars, processVars, frame_time, buff, CT, verdict, image_ready_sem,
                 peerVars>>

(* color_scan and ProcessImage_pause_thd.                                  *)
Judge ==
  /\ look = 0 /\ running = Nobody
  /\ verdict' = line_detection
  /\ look' = NotLooking
  /\ is_paused' = TRUE
  /\ spoil
  /\ UNCHANGED <<captureVars, processVars, frame_time, buff, CT, object, image_ready_sem,
                 peerVars>>

CameraTick ==
  /\ running = Nobody /\ ready = <<>>
  /\ look # 0
  /\ capture_pc = "sleep" => capture_sleep > 0
  /\ process_pc = "sleep" => process_sleep > 0
  /\ filling # "none" => frame_time > 0
  /\ look' = IF look > 0 THEN look - 1 ELSE look
  /\ capture_sleep' = IF capture_sleep > 0 THEN capture_sleep - 1 ELSE 0
  /\ process_sleep' = IF process_sleep > 0 THEN process_sleep - 1 ELSE 0
  /\ frame_time' = IF frame_time > 0 THEN frame_time - 1 ELSE 0
  /\ UNCHANGED <<is_paused, object, verdict, capture_pc, process_pc, img_buff_ptr,
                 line_detection, previous_line, circular_buffer, filling, buff, CT,
                 image_ready_sem, peerVars>>

CameraDispatch ==
  /\ Dispatch
  /\ UNCHANGED <<captureVars, processVars, driverVars, scanVars, image_ready_sem>>

CaptureThread == CaptureTop \/ dcmi_capture_start \/ wait_image_ready \/ CaptureSignal
ProcessThread == ProcessTop \/ ProcessTake \/ ProcessCopy \/ ProcessAverage

CameraNext ==
  \/ CaptureThread \/ ProcessThread \/ CaptureTimer \/ ProcessTimer
  \/ frameEndCb \/ Look \/ Judge \/ CameraTick \/ CameraDispatch

CameraSpec == CameraInit /\ [][CameraNext]_cameraVars

(* A capture that was started ends, and the threads are scheduled.         *)
CameraFairSpec ==
  /\ CameraSpec
  /\ WF_cameraVars(CaptureThread) /\ WF_cameraVars(ProcessThread)
  /\ WF_cameraVars(CaptureTimer) /\ WF_cameraVars(ProcessTimer)
  /\ WF_cameraVars(frameEndCb) /\ WF_cameraVars(CameraDispatch)
  /\ WF_cameraVars(CameraTick) /\ WF_cameraVars(Judge)

-----------------------------------------------------------------------------
(* The image that ProcessImage copies and looks at is complete: the next   *)
(* captures, which go on meanwhile, do not fill the buffer it reads.       *)
NoTornImage ==
  process_pc = "average" => ~(filling # "none" /\ CT = img_buff_ptr)

(* The scan's verdict is of the object it looked at, if that object looks  *)
(* the same on every image of the look: neither the average of the last    *)
(* object, nor the semaphore left signalled, nor the capture that was      *)
(* under way decide it.                                                    *)
VerdictOfThisLook == look = NotLooking => verdict = object

(* dcmi_camera.h:59 of wait_image_ready: "Put the thread invoking this     *)
(* function in sleep until an image is ready"; a wait therefore ends.      *)
WaitEnds == capture_pc = "waiting" ~> capture_pc # "waiting"
=============================================================================
