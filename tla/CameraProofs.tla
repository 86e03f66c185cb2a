---------------------------- MODULE CameraProofs ----------------------------
(***************************************************************************)
(* process_image.c, proved: its threads look at whole images and give the  *)
(* scan a verdict of what it looks at, for every length of the average and *)
(* all times that are long enough (module Camera); and the detection of a  *)
(* line sees only lines and every line, for images of every size, slopes   *)
(* and widths of every size, and pixels of every value (module             *)
(* LineDetection), of which only the comparisons with the mean matter.     *)
(***************************************************************************)
EXTENDS Camera, LineDetection, FiniteSetTheorems, SequenceTheorems, TLAPS

-----------------------------------------------------------------------------
(* Module Camera.                                                          *)

Places == 0 .. NB_SAMPLE_SCAN - 1

(* The place after the last one is the first.                              *)
LEMMA NextPlace ==
  ASSUME NEW i \in Places
  PROVE  (i + 1) % NB_SAMPLE_SCAN = IF i + 1 = NB_SAMPLE_SCAN THEN 0 ELSE i + 1
<1> DEFINE n == NB_SAMPLE_SCAN
<1>1. n \in Nat \ {0} /\ i \in 0 .. n - 1
  BY CameraAssumption DEF Places
<1> HIDE DEF n
<1>2. CASE i + 1 = n
  <2>1. n % n = 0
    BY <1>1, SMT
  <2> QED
    BY <1>2, <2>1 DEF n
<1>3. CASE i + 1 # n
  <2>1. i + 1 \in 0 .. n - 1
    BY <1>1, <1>3
  <2>2. (i + 1) % n = i + 1
    BY <1>1, <2>1, SMT
  <2> QED
    BY <1>3, <2>2 DEF n
<1> QED
  BY <1>2, <1>3

(* The lengths of the average and of the times are not 0.                  *)
LEMMA Times ==
  /\ NB_SAMPLE_SCAN \in Nat \ {0} /\ TIME_TO_SCAN \in Nat \ {0}
  /\ CAMERA_POLL \in Nat \ {0} /\ FRAME_TIME \in Nat \ {0}
BY CameraAssumption

(* The last image is in the buffer that is not filled next.                *)
LEMMA LastImage ==
  ASSUME CT \in {1, 2}
  PROVE  dcmi_get_last_image_ptr = 3 - CT /\ 3 - CT \in {1, 2} /\ 3 - CT # CT
BY DEF dcmi_get_last_image_ptr

(* The types, when the threads are created.                                *)
LEMMA CameraTypesStart == CameraStarts => CameraTypeOK
<1> USE Times DEF CameraTypeOK, Capture, Image, NotLooking
<1> SUFFICES ASSUME CameraStarts PROVE CameraTypeOK
  OBVIOUS
<1>1. is_paused \in BOOLEAN /\ image_ready_sem \in BOOLEAN
  BY Zenon DEF CameraStarts
<1>2. /\ buff \in [{1, 2} -> Image]
      /\ previous_line \in [0 .. (NB_SAMPLE_SCAN - 1) -> Image]
  BY DEF CameraStarts
<1>3. 0 \in 0 .. (NB_SAMPLE_SCAN - 1) /\ 0 \in 0 .. CAMERA_POLL /\ 0 \in 0 .. FRAME_TIME
  OBVIOUS
<1> QED
  BY <1>1, <1>2, <1>3 DEF CameraStarts

(* Every step keeps the types.                                             *)
LEMMA CameraTypesStep == CameraTypeOK /\ [CameraNext]_cameraVars => CameraTypeOK'
<1> USE Times DEF CameraTypeOK, Capture, Image, NotLooking
<1> SUFFICES ASSUME CameraTypeOK, [CameraNext]_cameraVars PROVE CameraTypeOK'
  OBVIOUS
<1> USE DEF captureVars, processVars, driverVars, scanVars
<1>1. CASE CaptureTop         BY <1>1 DEF CaptureTop
<1>2. CASE dcmi_capture_start BY <1>2 DEF dcmi_capture_start
<1>3. CASE wait_image_ready   BY <1>3 DEF wait_image_ready
<1>4. CASE CaptureSignal      BY <1>4 DEF CaptureSignal
<1>5. CASE CaptureTimer       BY <1>5 DEF CaptureTimer
<1>6. CASE frameEndCb         BY <1>6 DEF frameEndCb
<1>7. CASE ProcessTop         BY <1>7 DEF ProcessTop
<1>8. CASE ProcessTake        BY <1>8 DEF ProcessTake
<1>9. CASE ProcessCopy
  <2>1. img_buff_ptr' \in {1, 2} /\ line_detection' \in Image
    BY <1>9, LastImage DEF ProcessCopy
  <2> QED
    BY <1>9, <2>1 DEF ProcessCopy
<1>10. CASE ProcessAverage
  <2>1. previous_line' \in [0 .. (NB_SAMPLE_SCAN - 1) -> Image]
    BY <1>10 DEF ProcessAverage, line_detection_avg
  <2>2. line_detection' \in Image
    BY <1>10 DEF ProcessAverage, line_detection_avg, Majority
  <2>3. circular_buffer' \in 0 .. (NB_SAMPLE_SCAN - 1)
    BY <1>10, NextPlace DEF ProcessAverage, line_detection_avg, Places
  <2> QED
    BY <1>10, <2>1, <2>2, <2>3 DEF ProcessAverage
<1>11. CASE ProcessTimer      BY <1>11 DEF ProcessTimer
<1>12. CASE Look
  <2>1. is_paused' = FALSE /\ object' \in Image /\ look' = TIME_TO_SCAN
    BY <1>12, Zenon DEF Look
  <2>2. filling' \in Capture
    BY <1>12 DEF Look, spoil
  <2>3. UNCHANGED <<captureVars, processVars, frame_time, buff, CT, verdict, image_ready_sem>>
    BY <1>12 DEF Look
  <2>4. {line_detection, object, verdict}' \subseteq Image
    BY <2>1, <2>3
  <2>5. TIME_TO_SCAN \in 0 .. TIME_TO_SCAN
    OBVIOUS
  <2>6. look' \in {NotLooking} \cup 0 .. TIME_TO_SCAN /\ is_paused' \in BOOLEAN
    BY <2>1, <2>5, Zenon
  <2> QED
    BY <2>2, <2>3, <2>4, <2>6
<1>13. CASE Judge             BY <1>13 DEF Judge, spoil
<1>14. CASE CameraTick        BY <1>14 DEF CameraTick
<1>15. CASE CameraDispatch    BY <1>15 DEF CameraDispatch
<1>16. CASE UNCHANGED cameraVars BY <1>16 DEF cameraVars
<1> QED
  BY <1>1, <1>2, <1>3, <1>4, <1>5, <1>6, <1>7, <1>8, <1>9, <1>10, <1>11, <1>12, <1>13,
     <1>14, <1>15, <1>16 DEF CameraNext, CaptureThread, ProcessThread

(* The type invariant of the camera's threads and of the scan's look.      *)
THEOREM CameraTyped == CameraSpec => []CameraTypeOK
  BY CameraTypesStart, CameraTypesStep, PTL DEF CameraSpec, CameraInit

(* What the kernel's queue makes of two threads.                           *)
Queues == {<<>>, <<CaptureImage>>, <<ProcessImage>>, <<CaptureImage, ProcessImage>>,
           <<ProcessImage, CaptureImage>>}
CaptureReady == ready \in {<<CaptureImage>>, <<CaptureImage, ProcessImage>>,
                           <<ProcessImage, CaptureImage>>}
ProcessReady == ready \in {<<ProcessImage>>, <<CaptureImage, ProcessImage>>,
                           <<ProcessImage, CaptureImage>>}

(* A thread is in the queue or has the processor exactly when it neither   *)
(* sleeps nor waits; and ProcessImage, once woken to look at an image, is  *)
(* before CaptureImage has signalled the next one.                         *)
ReadyInv ==
  /\ running \in {Nobody, CaptureImage, ProcessImage}
  /\ ready \in Queues
  /\ capture_pc \in {"sleep", "waiting"} <=> running # CaptureImage /\ ~CaptureReady
  /\ capture_pc \in {"start", "wait"} => running = CaptureImage
  /\ running = CaptureImage => ~CaptureReady
  /\ process_pc \in {"sleep", "waiting"} <=> running # ProcessImage /\ ~ProcessReady
  /\ process_pc \in {"take", "average"} => running = ProcessImage
  /\ running = ProcessImage => ~ProcessReady
  /\ process_pc = "copy" /\ running # ProcessImage =>
       \/ running = CaptureImage /\ capture_pc # "signal"
       \/ running = Nobody /\ ready # <<CaptureImage, ProcessImage>>
  /\ image_ready_sem => process_pc \in {"sleep", "top", "take"}

(* The two threads and nobody are three.                                   *)
LEMMA Names ==
  /\ CaptureImage # ProcessImage /\ CaptureImage # Nobody /\ ProcessImage # Nobody
BY DEF CaptureImage, ProcessImage, Nobody

(* What a queue of two threads becomes.                                    *)
LEMMA TwoInQueue ==
  ASSUME NEW c, NEW p
  PROVE  Append(<<c>>, p) = <<c, p>>
<1> DEFINE S == {c, p}
<1>1. <<c>> \in Seq(S) /\ p \in S
  OBVIOUS
<1>2. /\ Append(<<c>>, p) \in Seq(S) /\ Len(Append(<<c>>, p)) = 2
      /\ Append(<<c>>, p)[1] = c /\ Append(<<c>>, p)[2] = p
  BY <1>1, SMT
<1>3. <<c, p>> \in Seq(S) /\ Len(<<c, p>>) = 2 /\ <<c, p>>[1] = c /\ <<c, p>>[2] = p
  OBVIOUS
<1> HIDE DEF S
<1>4. \A i \in 1 .. 2 : Append(<<c>>, p)[i] = <<c, p>>[i]
  BY <1>2, <1>3
<1> QED
  BY <1>2, <1>3, <1>4, SeqEqual

(* What becomes of the ready list when one of the two threads joins or     *)
(* leaves it.                                                              *)
LEMMA Moves ==
  /\ CaptureImage # ProcessImage /\ CaptureImage # Nobody /\ ProcessImage # Nobody
  /\ Append(<<>>, CaptureImage) = <<CaptureImage>>
  /\ Append(<<>>, ProcessImage) = <<ProcessImage>>
  /\ Append(<<CaptureImage>>, ProcessImage) = <<CaptureImage, ProcessImage>>
  /\ Append(<<ProcessImage>>, CaptureImage) = <<ProcessImage, CaptureImage>>
  /\ \A q \in Queues : q \o <<>> = q
  /\ Head(<<CaptureImage>>) = CaptureImage /\ Tail(<<CaptureImage>>) = <<>>
  /\ Head(<<ProcessImage>>) = ProcessImage /\ Tail(<<ProcessImage>>) = <<>>
  /\ Head(<<CaptureImage, ProcessImage>>) = CaptureImage
  /\ Tail(<<CaptureImage, ProcessImage>>) = <<ProcessImage>>
  /\ Head(<<ProcessImage, CaptureImage>>) = ProcessImage
  /\ Tail(<<ProcessImage, CaptureImage>>) = <<CaptureImage>>
  /\ <<CaptureImage>> # <<>> /\ <<ProcessImage>> # <<>>
  /\ <<CaptureImage, ProcessImage>> # <<>> /\ <<ProcessImage, CaptureImage>> # <<>>
  /\ <<CaptureImage>> # <<ProcessImage>>
  /\ <<CaptureImage, ProcessImage>> # <<CaptureImage>>
  /\ <<CaptureImage, ProcessImage>> # <<ProcessImage>>
  /\ <<ProcessImage, CaptureImage>> # <<CaptureImage>>
  /\ <<ProcessImage, CaptureImage>> # <<ProcessImage>>
  /\ <<CaptureImage, ProcessImage>> # <<ProcessImage, CaptureImage>>
<1>1. CaptureImage # ProcessImage /\ CaptureImage # Nobody /\ ProcessImage # Nobody
  BY Names
<1>2. \A q \in Queues : q \o <<>> = q
  BY DEF Queues
<1>3. /\ Append(<<>>, CaptureImage) = <<CaptureImage>>
      /\ Append(<<>>, ProcessImage) = <<ProcessImage>>
  OBVIOUS
<1>4. /\ Append(<<CaptureImage>>, ProcessImage) = <<CaptureImage, ProcessImage>>
      /\ Append(<<ProcessImage>>, CaptureImage) = <<ProcessImage, CaptureImage>>
  BY TwoInQueue
<1>5. /\ Head(<<CaptureImage>>) = CaptureImage /\ Tail(<<CaptureImage>>) = <<>>
      /\ Head(<<ProcessImage>>) = ProcessImage /\ Tail(<<ProcessImage>>) = <<>>
  OBVIOUS
<1>6. /\ Head(<<CaptureImage, ProcessImage>>) = CaptureImage
      /\ Tail(<<CaptureImage, ProcessImage>>) = <<ProcessImage>>
      /\ Head(<<ProcessImage, CaptureImage>>) = ProcessImage
      /\ Tail(<<ProcessImage, CaptureImage>>) = <<CaptureImage>>
  OBVIOUS
<1>7. /\ <<CaptureImage>> # <<>> /\ <<ProcessImage>> # <<>>
      /\ <<CaptureImage, ProcessImage>> # <<>> /\ <<ProcessImage, CaptureImage>> # <<>>
      /\ <<CaptureImage>> # <<ProcessImage>>
      /\ <<CaptureImage, ProcessImage>> # <<CaptureImage>>
      /\ <<CaptureImage, ProcessImage>> # <<ProcessImage>>
      /\ <<ProcessImage, CaptureImage>> # <<CaptureImage>>
      /\ <<ProcessImage, CaptureImage>> # <<ProcessImage>>
      /\ <<CaptureImage, ProcessImage>> # <<ProcessImage, CaptureImage>>
  BY <1>1
<1> QED
  BY <1>1, <1>2, <1>3, <1>4, <1>5, <1>6, <1>7, Zenon

(* Every step of the two threads, of the interrupt and of the kernel keeps *)
(* their turns.                                                            *)
LEMMA TurnStep ==
  ASSUME CameraTypeOK, ReadyInv, [CameraNext]_cameraVars
  PROVE  ReadyInv'
<1> USE Moves
    DEF ReadyInv, Queues, CaptureReady, ProcessReady, peerVars, captureVars, processVars,
        GoesOn, GoesOnWaking, Awakens, Blocks, BlocksWaking
<1>1. CASE CaptureTop         BY <1>1 DEF CaptureTop
<1>2. CASE dcmi_capture_start
  <2>1. /\ running = CaptureImage /\ capture_pc' = "wait"
        /\ UNCHANGED <<running, ready, process_pc, image_ready_sem>>
    BY <1>2, Zenon DEF dcmi_capture_start
  <2> QED
    BY <2>1
<1>3. CASE wait_image_ready
  <2>1. /\ running = CaptureImage /\ capture_pc' = "waiting" /\ Blocks
        /\ UNCHANGED <<process_pc, image_ready_sem>>
    BY <1>3, Zenon DEF wait_image_ready
  <2> QED
    BY <2>1
<1>4. CASE CaptureSignal
  <2>1. /\ running = CaptureImage /\ capture_pc = "signal" /\ capture_pc' = "top"
        /\ running' = CaptureImage
    BY <1>4, Zenon DEF CaptureSignal
  <2>2. CASE process_pc = "waiting"
    <3>1. /\ process_pc' = "copy" /\ ready' = Append(ready, ProcessImage)
          /\ UNCHANGED image_ready_sem
      BY <1>4, <2>2, Zenon DEF CaptureSignal
    <3> QED
      BY <2>1, <2>2, <3>1
  <2>3. CASE process_pc # "waiting"
    <3>1. /\ UNCHANGED <<process_pc, ready>> /\ image_ready_sem' = TRUE
      BY <1>4, <2>3, Zenon DEF CaptureSignal
    <3>2. process_pc \in {"sleep", "top"}
      BY <2>1, <2>3 DEF CameraTypeOK
    <3> QED
      BY <2>1, <3>1, <3>2
  <2> QED
    BY <2>2, <2>3
<1>5. CASE CaptureTimer       BY <1>5 DEF CaptureTimer
<1>6. CASE frameEndCb         BY <1>6 DEF frameEndCb
<1>7. CASE ProcessTop         BY <1>7 DEF ProcessTop
<1>8. CASE ProcessTake        BY <1>8 DEF ProcessTake
<1>9. CASE ProcessCopy        BY <1>9 DEF ProcessCopy
<1>10. CASE ProcessAverage    BY <1>10 DEF ProcessAverage
<1>11. CASE ProcessTimer      BY <1>11 DEF ProcessTimer
<1>12. CASE Look              BY <1>12 DEF Look
<1>13. CASE Judge             BY <1>13 DEF Judge
<1>14. CASE CameraTick        BY <1>14 DEF CameraTick
<1>15. CASE CameraDispatch    BY <1>15 DEF CameraDispatch, Dispatch
<1>16. CASE UNCHANGED cameraVars BY <1>16 DEF cameraVars
<1> QED
  BY <1>1, <1>2, <1>3, <1>4, <1>5, <1>6, <1>7, <1>8, <1>9, <1>10, <1>11, <1>12, <1>13,
     <1>14, <1>15, <1>16 DEF CameraNext, CaptureThread, ProcessThread

(* At the start both threads are ready.                                    *)
LEMMA TurnBegins == CameraInit => ReadyInv
<1> SUFFICES ASSUME CameraInit PROVE ReadyInv
  OBVIOUS
<1>1. running = Nobody /\ ready = <<ProcessImage, CaptureImage>>
  BY DEF CameraInit, CameraReady
<1>2. capture_pc = "top" /\ process_pc = "top" /\ ~image_ready_sem
  BY DEF CameraInit, CameraStarts
<1> QED
  BY <1>1, <1>2, Moves DEF ReadyInv, Queues, CaptureReady, ProcessReady

(* ... and so they are kept in every behaviour.                            *)
LEMMA TurnsKept == CameraSpec => []ReadyInv
<1>1. CameraTypeOK /\ ReadyInv /\ [CameraNext]_cameraVars => ReadyInv'
  BY TurnStep
<1> QED
  BY <1>1, TurnBegins, CameraTyped, PTL DEF CameraSpec

(* ProcessImage never looks at an image while a capture fills its buffer:  *)
(* the next capture fills the other one, and the one after that does not   *)
(* begin before ProcessImage waits again.                                  *)
THEOREM WholeImages == CameraSpec => []NoTornImage
<1>1. CameraInit => NoTornImage
  BY DEF CameraInit, CameraStarts, NoTornImage
<1>2. CameraTypeOK /\ ReadyInv /\ NoTornImage /\ [CameraNext]_cameraVars => NoTornImage'
  <2> SUFFICES ASSUME CameraTypeOK, ReadyInv, NoTornImage, [CameraNext]_cameraVars,
                      process_pc' = "average"
               PROVE  ~(filling' # "none" /\ CT' = img_buff_ptr')
    BY DEF NoTornImage
  <2>1. CASE ProcessCopy
    <3>1. img_buff_ptr' = 3 - CT /\ 3 - CT # CT /\ CT' = CT
      BY <2>1, LastImage DEF ProcessCopy, CameraTypeOK, driverVars
    <3> QED
      BY <3>1
  <2>2. CASE ~ProcessCopy
    <3>1. process_pc = "average"
      BY <2>2, Zenon DEF CameraNext, CaptureThread, ProcessThread, CaptureTop,
         dcmi_capture_start, wait_image_ready, CaptureSignal, CaptureTimer, frameEndCb,
         ProcessTop, ProcessTake, ProcessAverage, ProcessTimer, Look, Judge, CameraTick,
         CameraDispatch, cameraVars, processVars
    <3>2. running = ProcessImage
      BY <3>1 DEF ReadyInv
    <3>3. img_buff_ptr' = img_buff_ptr
      BY <2>2, <3>1, <3>2, Moves, Zenon
      DEF CameraNext, CaptureThread, ProcessThread, CaptureTop,
         dcmi_capture_start, wait_image_ready, CaptureSignal, CaptureTimer, frameEndCb,
         ProcessTop, ProcessTake, ProcessAverage, ProcessTimer, Look, Judge, CameraTick,
         CameraDispatch, cameraVars, processVars
    <3>4. filling' = "none" \/ (filling # "none" /\ CT' = CT)
      BY <3>1, <3>2, Moves, Zenon
      DEF CameraNext, CaptureThread, ProcessThread, CaptureTop,
         dcmi_capture_start, wait_image_ready, CaptureSignal, CaptureTimer, frameEndCb,
         ProcessTop, ProcessTake, ProcessCopy, ProcessAverage, ProcessTimer, Look, Judge,
         CameraTick, CameraDispatch, cameraVars, driverVars, spoil
    <3> QED
      BY <3>1, <3>3, <3>4 DEF NoTornImage
  <2> QED
    BY <2>1, <2>2
<1> QED
  BY <1>1, <1>2, CameraTyped, TurnsKept, PTL DEF CameraSpec

(* What a scan reads but in the middle of an image is the average.         *)
AverageInv == process_pc # "average" => line_detection = Majority(previous_line)

(* Only ProcessCopy puts something else there, and ProcessAverage follows  *)
(* it.                                                                     *)
LEMMA AverageKept == CameraSpec => []AverageInv
<1>1. CameraInit => AverageInv
  <2> SUFFICES ASSUME CameraInit PROVE line_detection = Majority(previous_line)
    BY DEF AverageInv
  <2>1. line_detection = {} /\ previous_line = [i \in 0 .. (NB_SAMPLE_SCAN - 1) |-> {}]
    BY DEF CameraInit, CameraStarts
  <2>2. \A c \in LineColor : {i \in DOMAIN previous_line : c \in previous_line[i]} = {}
    BY <2>1
  <2>3. Cardinality({}) = 0 /\ NB_SAMPLE_SCAN \div 2 \in Nat
    BY FS_EmptySet, Times
  <2>4. \A c \in LineColor : ~(Cardinality({}) > NB_SAMPLE_SCAN \div 2)
    BY <2>3
  <2> QED
    BY <2>1, <2>2, <2>4, Zenon DEF Majority
<1>2. AverageInv /\ [CameraNext]_cameraVars => AverageInv'
  <2> SUFFICES ASSUME AverageInv, [CameraNext]_cameraVars PROVE AverageInv'
    OBVIOUS
  <2>1. CASE ProcessAverage
    BY <2>1, Zenon DEF ProcessAverage, line_detection_avg, AverageInv, Majority
  <2>2. CASE process_pc' # "average" /\ ~ProcessAverage
    <3>1. process_pc # "average" /\ UNCHANGED <<line_detection, previous_line>>
      BY <2>2, Zenon DEF CameraNext, CaptureThread, ProcessThread, CaptureTop,
         dcmi_capture_start, wait_image_ready, CaptureSignal, CaptureTimer, frameEndCb,
         ProcessTop, ProcessTake, ProcessCopy, ProcessTimer, Look, Judge, CameraTick,
         CameraDispatch, cameraVars, processVars
    <3> QED
      BY <3>1, Zenon DEF AverageInv, Majority
  <2> QED
    BY <2>1, <2>2, Zenon DEF AverageInv
<1> QED
  BY <1>1, <1>2, PTL DEF CameraSpec

(* A majority of the images over which the average goes.                   *)
Enough == NB_SAMPLE_SCAN \div 2 + 1

(* How many images ago the one was put in place i of the window whose next *)
(* place is p, and the places of the last k images.                        *)
Age(p, i) == IF i < p THEN p - 1 - i ELSE p - 1 - i + NB_SAMPLE_SCAN
Newest(p, k) == {i \in Places : Age(p, i) < k}

(* A majority: more than half of the images, which leaves at most half.    *)
LEMMA EnoughTyped ==
  /\ Enough \in 1 .. NB_SAMPLE_SCAN /\ NB_SAMPLE_SCAN \div 2 \in Nat
  /\ NB_SAMPLE_SCAN \div 2 < Enough /\ NB_SAMPLE_SCAN - Enough <= NB_SAMPLE_SCAN \div 2
<1> DEFINE n == NB_SAMPLE_SCAN
<1>1. n \in Nat \ {0}
  BY Times
<1> HIDE DEF n
<1>2. n \div 2 \in Nat /\ n \div 2 + 1 <= n /\ n - (n \div 2 + 1) <= n \div 2
  BY <1>1, SMT
<1> QED
  BY <1>2 DEF Enough, n

(* The last k images are in k places.                                      *)
LEMMA NewestAreMany ==
  ASSUME NEW p \in Places, NEW k \in 0 .. NB_SAMPLE_SCAN
  PROVE  IsFiniteSet(Newest(p, k)) /\ Cardinality(Newest(p, k)) = k
<1> DEFINE n == NB_SAMPLE_SCAN
<1>1. n \in Nat \ {0} /\ p \in 0 .. n - 1 /\ k \in 0 .. n
  BY Times DEF Places
<1>2. Newest(p, k) = {i \in 0 .. n - 1 : (IF i < p THEN p - 1 - i ELSE p - 1 - i + n) < k}
  BY DEF Newest, Age, Places
<1> HIDE DEF n
<1>3. CASE k <= p
  <2>1. Newest(p, k) = (p - k) .. (p - 1)
    BY <1>1, <1>2, <1>3
  <2>2. p - k \in Int /\ p - 1 \in Int
    BY <1>1
  <2> QED
    BY <1>1, <1>3, <2>1, <2>2, FS_Interval
<1>4. CASE k > p
  <2> DEFINE A == 0 .. (p - 1)
             B == (p - k + n) .. (n - 1)
  <2>1. Newest(p, k) = A \cup B
    BY <1>1, <1>2, <1>4
  <2>2. p - k + n \in Int /\ p - 1 \in Int /\ n - 1 \in Int
    BY <1>1
  <2>3. IsFiniteSet(A) /\ Cardinality(A) = p
    <3> DEFINE b == p - 1
    <3>1. 0 \in Int /\ b \in Int /\ (IF 0 > b THEN 0 ELSE b - 0 + 1) = p
      BY <1>1
    <3> HIDE DEF b
    <3>2. IsFiniteSet(0 .. b) /\ Cardinality(0 .. b) = IF 0 > b THEN 0 ELSE b - 0 + 1
      BY <3>1, FS_Interval, Zenon
    <3>3. Cardinality(0 .. b) = p
      BY <3>1, <3>2
    <3> QED
      BY <3>2, <3>3, Zenon DEF b
  <2>4. IsFiniteSet(B) /\ Cardinality(B) = k - p
    <3> DEFINE a == p - k + n
               b == n - 1
    <3>1. a \in Int /\ b \in Int /\ b - a + 1 = k - p /\ ~(a > b)
      BY <1>1, <1>4, <2>2
    <3> HIDE DEF a, b
    <3>2. IsFiniteSet(a .. b) /\ Cardinality(a .. b) = IF a > b THEN 0 ELSE b - a + 1
      BY <3>1, FS_Interval, Zenon
    <3>3. Cardinality(a .. b) = k - p
      BY <3>1, <3>2
    <3> QED
      BY <3>2, <3>3, Zenon DEF a, b
  <2>5. A \cap B = {}
    BY <1>1, <1>4
  <2> HIDE DEF A, B
  <2>6. IsFiniteSet(A \cup B) /\ Cardinality(A \cup B) = p + (k - p)
    <3>1. /\ IsFiniteSet(A \cup B)
          /\ Cardinality(A \cup B) = Cardinality(A) + Cardinality(B) - Cardinality(A \cap B)
      BY <2>3, <2>4, FS_Union
    <3>2. Cardinality(A \cap B) = 0
      BY <2>5, FS_EmptySet
    <3> QED
      BY <1>1, <2>3, <2>4, <3>1, <3>2
  <2> QED
    BY <1>1, <2>1, <2>6
<1> QED
  BY <1>1, <1>3, <1>4

(* One more image makes the place it is put in the newest.                 *)
LEMMA NewestNext ==
  ASSUME NEW p \in Places, NEW q, q = (p + 1) % NB_SAMPLE_SCAN, NEW k \in Nat
  PROVE  q \in Places /\ Newest(q, k + 1) \subseteq Newest(p, k) \cup {p}
                     /\ Newest(q, k) \subseteq Newest(p, k) \cup {p}
<1> DEFINE n == NB_SAMPLE_SCAN
<1>1. n \in Nat \ {0} /\ p \in 0 .. n - 1
  BY Times DEF Places
<1>2. q = IF p + 1 = n THEN 0 ELSE p + 1
  BY NextPlace
<1> HIDE DEF n
<1>3. \A i \in 0 .. n - 1 : i # p => (IF i < q THEN q - 1 - i ELSE q - 1 - i + n)
                                     = (IF i < p THEN p - 1 - i ELSE p - 1 - i + n) + 1
  BY <1>1, <1>2
<1>4. \A i \in Places : i # p => Age(q, i) = Age(p, i) + 1
  BY <1>3 DEF Age, n, Places
<1>5. \A i \in Places : Age(p, i) \in Int
  BY <1>1 DEF Age, n, Places
<1>6. q \in Places
  BY <1>1, <1>2 DEF n, Places
<1> HIDE DEF Places
<1>7. ASSUME NEW i \in Places, i # p, Age(q, i) < k + 1 PROVE Age(p, i) < k
  <2> DEFINE a == Age(p, i)
  <2>1. a \in Int /\ a + 1 < k + 1
    BY <1>4, <1>5, <1>7
  <2> HIDE DEF a
  <2>2. a < k
    BY <2>1
  <2> QED
    BY <2>2 DEF a
<1>8. ASSUME NEW i \in Places, i # p, Age(q, i) < k PROVE Age(q, i) < k + 1
  <2> DEFINE a == Age(q, i)
  <2>1. a \in Int
    BY <1>4, <1>5, <1>8
  <2> HIDE DEF a
  <2>2. a < k => a < k + 1
    BY <2>1
  <2> QED
    BY <1>8, <2>2 DEF a
<1> QED
  BY <1>6, <1>7, <1>8, Zenon DEF Newest

(* A majority of images of an object has that object for its average.      *)
LEMMA MajorityIsIt ==
  ASSUME NEW p \in Places, NEW o \in Image, NEW lines \in [Places -> Image],
         \A i \in Newest(p, Enough) : lines[i] = o
  PROVE  Majority(lines) = o
<1> DEFINE N == Newest(p, Enough)
           With(c) == {i \in DOMAIN lines : c \in lines[i]}
<1>1. N \subseteq Places /\ IsFiniteSet(N) /\ Cardinality(N) = Enough
  <2>1. Enough \in 0 .. NB_SAMPLE_SCAN
    BY EnoughTyped, Times
  <2> QED
    BY <2>1, NewestAreMany DEF Newest
<1>2. IsFiniteSet(Places) /\ Cardinality(Places) = NB_SAMPLE_SCAN
  <2>1. 0 \in Int /\ NB_SAMPLE_SCAN - 1 \in Int /\ ~(0 > NB_SAMPLE_SCAN - 1)
    BY Times
  <2> QED
    BY <2>1, FS_Interval, Times DEF Places
<1>3. \A c : With(c) \subseteq Places
  OBVIOUS
<1>4. \A c : IsFiniteSet(With(c)) /\ Cardinality(With(c)) \in Nat
  BY <1>2, <1>3, FS_Subset, FS_CardinalityType
<1>5. ASSUME NEW c \in o PROVE Cardinality(With(c)) > NB_SAMPLE_SCAN \div 2
  <2>1. N \subseteq With(c)
    BY <1>1
  <2>2. Cardinality(N) <= Cardinality(With(c))
    BY <1>4, <2>1, FS_Subset
  <2>3. \A m \in Nat : Enough <= m => m > NB_SAMPLE_SCAN \div 2
    BY EnoughTyped, Times
  <2> QED
    BY <1>1, <1>4, <2>2, <2>3, Zenon
<1>6. ASSUME NEW c, c \notin o PROVE ~(Cardinality(With(c)) > NB_SAMPLE_SCAN \div 2)
  <2>1. With(c) \subseteq Places \ N
    BY <1>3, <1>6
  <2>2. IsFiniteSet(Places \ N) /\ Cardinality(Places \ N) = NB_SAMPLE_SCAN - Enough
    <3>1. Places \cap N = N
      BY <1>1
    <3> QED
      BY <1>1, <1>2, <3>1, FS_Difference
  <2>3. Cardinality(With(c)) <= Cardinality(Places \ N)
    BY <2>1, <2>2, FS_Subset
  <2>4. \A m \in Nat : m <= NB_SAMPLE_SCAN - Enough => ~(m > NB_SAMPLE_SCAN \div 2)
    BY EnoughTyped, Times
  <2> QED
    BY <1>4, <2>2, <2>3, <2>4, Zenon
<1>7. o \subseteq LineColor
  BY DEF Image
<1> QED
  BY <1>5, <1>6, <1>7 DEF Majority

-----------------------------------------------------------------------------
(* A look and its time.                                                    *)

(* What the captures of n images may take.                                 *)
Frames(n) == FRAME_TIME * n

(* The last image shows what is looked at now, and so will those after it. *)
FromNowOn == buff[3 - CT] = object /\ filling # "spoilt"

One(b) == IF b THEN 1 ELSE 0

(* The images of what is looked at that are still to be averaged, without  *)
(* another capture: copied next, copied, signalled, to be signalled.       *)
InCopy    == One(FromNowOn /\ process_pc = "copy")
InAverage == One(FromNowOn /\ process_pc = "average" /\ line_detection = object)
InSem     == One(FromNowOn /\ image_ready_sem)
InSignal  == One(FromNowOn /\ capture_pc = "signal")
Pending   == InCopy + InAverage + InSem + InSignal

(* The time until the next capture begins at the latest; less than 0 when  *)
(* one that counts is under way.                                           *)
Delay ==
  IF capture_pc = "sleep" THEN capture_sleep
  ELSE IF filling = "spoilt" THEN frame_time
  ELSE IF filling = "clear" THEN frame_time - FRAME_TIME ELSE 0

(* ProcessImage has not been there yet; of the images until then none      *)
(* counts.                                                                 *)
Waking == process_pc = "sleep" \/ (process_pc = "top" /\ running # ProcessImage)

(* The last k images show what is looked at, all from one image on ...     *)
Good(k) ==
  /\ \A i \in Newest(circular_buffer, k) : previous_line[i] = object
  /\ k > 0 => FromNowOn /\ (process_pc = "average" => line_detection = object)

(* ... and for those that the majority lacks there is time.                *)
OnTime(k) ==
  IF Waking
  THEN k = 0 /\ look > process_sleep + Frames(Enough) /\ look > Delay + Frames(Enough)
  ELSE k < Enough => look > 0 /\ look > Delay + Frames(Enough - k - Pending)

LookInv == look # NotLooking => \E k \in 0 .. Enough : Good(k) /\ OnTime(k)

(* The threads pause with the scan; a capture is waited for until it ends; *)
(* a sleep is over when its thread is awake.                               *)
PauseInv ==
  /\ is_paused <=> look = NotLooking
  /\ filling # "none" <=> capture_pc \in {"wait", "waiting"}
  /\ process_pc # "sleep" => process_sleep = 0

(* Every step keeps to that, if a capture ends only when it is waited for. *)
LEMMA PauseStep ==
  ASSUME EndsBeforeWait = FALSE, CameraTypeOK, ReadyInv, PauseInv, [CameraNext]_cameraVars
  PROVE  PauseInv'
<1> USE DEF PauseInv, captureVars, processVars, driverVars, scanVars
<1>1. CASE CaptureTop         BY <1>1 DEF CaptureTop
<1>2. CASE dcmi_capture_start BY <1>2 DEF dcmi_capture_start
<1>3. CASE wait_image_ready   BY <1>3 DEF wait_image_ready
<1>4. CASE CaptureSignal      BY <1>4 DEF CaptureSignal
<1>5. CASE CaptureTimer       BY <1>5 DEF CaptureTimer
<1>6. CASE frameEndCb         BY <1>6 DEF frameEndCb
<1>7. CASE ProcessTop         BY <1>7 DEF ProcessTop
<1>8. CASE ProcessTake        BY <1>8 DEF ProcessTake
<1>9. CASE ProcessCopy        BY <1>9 DEF ProcessCopy
<1>10. CASE ProcessAverage    BY <1>10 DEF ProcessAverage
<1>11. CASE ProcessTimer      BY <1>11 DEF ProcessTimer
<1>12. CASE Look              BY <1>12, Times DEF Look, spoil, NotLooking
<1>13. CASE Judge             BY <1>13 DEF Judge, spoil, NotLooking
<1>14. CASE CameraTick        BY <1>14 DEF CameraTick, NotLooking, CameraTypeOK
<1>15. CASE CameraDispatch    BY <1>15 DEF CameraDispatch
<1>16. CASE UNCHANGED cameraVars BY <1>16 DEF cameraVars
<1> QED
  BY <1>1, <1>2, <1>3, <1>4, <1>5, <1>6, <1>7, <1>8, <1>9, <1>10, <1>11, <1>12, <1>13,
     <1>14, <1>15, <1>16 DEF CameraNext, CaptureThread, ProcessThread

(* More time, or an earlier capture, or fewer images to come: still enough *)
(* time; also with one image less in exchange for one capture.             *)
LEMMA FramesTyped ==
  /\ \A n \in Int : Frames(n) \in Int
  /\ \A l, d, e, m, n \in Int :
       l > d + Frames(m) /\ e <= d /\ n <= m => l > e + Frames(n)
  /\ \A l, d, e, m, n \in Int :
       l > d + Frames(m) /\ e <= d + FRAME_TIME /\ n <= m - 1 => l > e + Frames(n)
  /\ \A n \in Int : n > 0 => Frames(n) > 0 /\ Frames(n) >= FRAME_TIME
<1> DEFINE f == FRAME_TIME
<1>1. f \in Nat \ {0}
  BY Times
<1> HIDE DEF f
<1>2. \A n \in Int : f * n \in Int
  BY <1>1
<1>3. \A m, n \in Int : n <= m => f * n <= f * m
  BY <1>1, SMT
<1>4. \A m \in Int : f * (m - 1) = f * m - f
  BY <1>1, SMT
<1>5. \A n \in Int : n > 0 => f * n > 0 /\ f * n >= f
  BY <1>1, SMT
<1>6. ASSUME NEW l \in Int, NEW d \in Int, NEW e \in Int, NEW m \in Int, NEW n \in Int,
             l > d + f * m
      PROVE  /\ e <= d /\ n <= m => l > e + f * n
             /\ e <= d + f /\ n <= m - 1 => l > e + f * n
  <2> DEFINE a == f * m
             b == f * n
  <2>1. a \in Int /\ b \in Int
    BY <1>2
  <2>2. n <= m => b <= a
    BY <1>3
  <2>3. n <= m - 1 => b <= a - f
    <3>1. m - 1 \in Int
      OBVIOUS
    <3> QED
      BY <1>3, <1>4, <3>1
  <2>4. l > d + a
    BY <1>6
  <2> HIDE DEF a, b
  <2>5. e <= d /\ n <= m => l > e + b
    BY <2>1, <2>2, <2>4
  <2>6. e <= d + f /\ n <= m - 1 => l > e + b
    BY <1>1, <2>1, <2>3, <2>4
  <2> QED
    BY <2>5, <2>6 DEF b
<1> QED
  BY <1>2, <1>5, <1>6 DEF Frames, f

(* A look is longer than any delay at its start and the captures it needs. *)
LEMMA LookLastsEnough ==
  \A d \in Int : d <= CAMERA_POLL \/ d <= FRAME_TIME => TIME_TO_SCAN > d + Frames(Enough)
<1> DEFINE f == FRAME_TIME * (NB_SAMPLE_SCAN \div 2 + 1)
           w == IF CAMERA_POLL > FRAME_TIME THEN CAMERA_POLL ELSE FRAME_TIME
<1>1. TIME_TO_SCAN > f + w
  BY EnoughFrames
<1>2. f = Frames(Enough) /\ f \in Int
  BY FramesTyped, EnoughTyped DEF Frames, Enough
<1>3. w \in Nat /\ CAMERA_POLL <= w /\ FRAME_TIME <= w
  BY Times
<1> HIDE DEF f, w
<1> QED
  BY <1>1, <1>2, <1>3, Times

(* The delay is a number of ticks, and a stage holds one image or none.    *)
LEMMA Numbers ==
  /\ CameraTypeOK => Delay \in Int /\ process_sleep \in Nat /\ look \in Int
  /\ CameraTypeOK' => Delay' \in Int /\ process_sleep' \in Nat /\ look' \in Int
  /\ InCopy \in {0, 1} /\ InAverage \in {0, 1} /\ InSem \in {0, 1} /\ InSignal \in {0, 1}
  /\ InCopy' \in {0, 1} /\ InAverage' \in {0, 1} /\ InSem' \in {0, 1} /\ InSignal' \in {0, 1}
  /\ Pending \in Nat /\ Pending' \in Nat /\ Enough \in Nat
<1>1. CameraTypeOK => Delay \in Int /\ process_sleep \in Nat /\ look \in Int
  BY Times DEF CameraTypeOK, Delay, NotLooking
<1>2. CameraTypeOK' => Delay' \in Int /\ process_sleep' \in Nat /\ look' \in Int
  BY Times DEF CameraTypeOK, Delay, NotLooking
<1>3. InCopy \in {0, 1} /\ InAverage \in {0, 1} /\ InSem \in {0, 1} /\ InSignal \in {0, 1}
  BY Zenon DEF InCopy, InAverage, InSem, InSignal, One
<1>4. InCopy' \in {0, 1} /\ InAverage' \in {0, 1} /\ InSem' \in {0, 1} /\ InSignal' \in {0, 1}
  <2>1. \A b : One(b) \in {0, 1}
    BY Zenon DEF One
  <2>2. InCopy' \in {0, 1}
    BY <2>1, Zenon DEF InCopy, One
  <2>3. InAverage' \in {0, 1}
    BY <2>1, Zenon DEF InAverage, One
  <2>4. InSem' \in {0, 1}
    BY <2>1, Zenon DEF InSem, One
  <2>5. InSignal' \in {0, 1}
    BY <2>1, Zenon DEF InSignal, One
  <2> QED
    BY <2>2, <2>3, <2>4, <2>5
<1>5. Pending \in Nat /\ Pending' \in Nat
  <2>1. \A a, b, c, d \in {0, 1} : a + b + c + d \in Nat
    OBVIOUS
  <2>2. Pending' = InCopy' + InAverage' + InSem' + InSignal'
    BY DEF Pending
  <2> QED
    BY <1>3, <1>4, <2>1, <2>2, Zenon DEF Pending
<1>6. Enough \in Nat
  BY EnoughTyped, Times
<1> QED
  BY <1>1, <1>2, <1>3, <1>4, <1>5, <1>6, Zenon

(* A step that brings the next capture no later and takes no image away    *)
(* leaves the look on time ...                                             *)
LEMMA StillOnTime ==
  ASSUME CameraTypeOK, CameraTypeOK', NEW k \in 0 .. Enough, OnTime(k),
         UNCHANGED <<look, process_sleep>>, Waking' <=> Waking,
         Delay' <= Delay, ~Waking => Pending' >= Pending
  PROVE  OnTime(k)'
<1>1. CASE Waking
  <2>1. k = 0 /\ look > process_sleep + Frames(Enough) /\ look > Delay + Frames(Enough)
    BY <1>1 DEF OnTime
  <2>2. look > Delay' + Frames(Enough)
    BY <2>1, Numbers, FramesTyped
  <2> QED
    BY <1>1, <2>1, <2>2 DEF OnTime
<1>2. CASE ~Waking
  <2> SUFFICES ASSUME k < Enough
               PROVE  look > 0 /\ look > Delay' + Frames(Enough - k - Pending')
    BY <1>2 DEF OnTime
  <2>1. look > 0 /\ look > Delay + Frames(Enough - k - Pending)
    BY <1>2 DEF OnTime
  <2>2. /\ Enough - k - Pending \in Int /\ Enough - k - Pending' \in Int
        /\ Enough - k - Pending' <= Enough - k - Pending
    <3>1. Pending \in Nat /\ Pending' \in Nat /\ Enough \in Nat
      BY Numbers, Zenon
    <3>2. \A e \in Nat : \A i \in 0 .. e, m, n \in Nat :
            n >= m => e - i - m \in Int /\ e - i - n \in Int /\ e - i - n <= e - i - m
      OBVIOUS
    <3> QED
      BY <1>2, <3>1, <3>2, Zenon
  <2> QED
    BY <2>1, <2>2, Numbers, FramesTyped
<1> QED
  BY <1>1, <1>2

(* ... and so does one that ends a capture, as long as its image counts.   *)
LEMMA OneMoreOnTime ==
  ASSUME CameraTypeOK, CameraTypeOK', NEW k \in 0 .. Enough, OnTime(k),
         UNCHANGED <<look, process_sleep>>, Waking' <=> Waking,
         Delay' = 0, Delay = frame_time - FRAME_TIME, ~Waking => Pending' >= Pending + 1
  PROVE  OnTime(k)'
<1>0. Delay >= -FRAME_TIME
  BY Times DEF CameraTypeOK
<1>1. CASE Waking
  <2>1. k = 0 /\ look > process_sleep + Frames(Enough) /\ process_sleep \in Nat
    BY <1>1, Numbers DEF OnTime
  <2>2. look > 0 + Frames(Enough)
    BY <2>1, Numbers, FramesTyped
  <2> QED
    BY <1>1, <2>1, <2>2 DEF OnTime
<1>2. CASE ~Waking
  <2> SUFFICES ASSUME k < Enough
               PROVE  look > 0 /\ look > 0 + Frames(Enough - k - Pending')
    BY <1>2 DEF OnTime
  <2>1. look > 0 /\ look > Delay + Frames(Enough - k - Pending)
    BY <1>2 DEF OnTime
  <2>2. /\ Enough - k - Pending \in Int /\ Enough - k - Pending' \in Int
        /\ Enough - k - Pending' <= (Enough - k - Pending) - 1
    <3>1. Pending \in Nat /\ Pending' \in Nat /\ Enough \in Nat
      BY Numbers, Zenon
    <3>2. \A e \in Nat : \A i \in 0 .. e, m, n \in Nat :
            n >= m + 1 => e - i - m \in Int /\ e - i - n \in Int /\ e - i - n <= (e - i - m) - 1
      OBVIOUS
    <3> QED
      BY <1>2, <3>1, <3>2, Zenon
  <2>3. 0 <= Delay + FRAME_TIME /\ Delay \in Int /\ look \in Int /\ 0 \in Int
    BY <1>0, Numbers, Times
  <2> DEFINE m == Enough - k - Pending
             n == Enough - k - Pending'
  <2>4. m \in Int /\ n \in Int /\ n <= m - 1 /\ look > Delay + Frames(m)
    BY <2>1, <2>2, Zenon
  <2> HIDE DEF m, n
  <2>5. look > 0 + Frames(n)
    BY <2>3, <2>4, FramesTyped, Zenon
  <2> QED
    BY <2>1, <2>5, Zenon DEF n
<1> QED
  BY <1>1, <1>2

(* During a look, what the scan looks at stays in sight.                   *)
LEMMA StaysInSight ==
  ASSUME CameraTypeOK, PauseInv, look # NotLooking, look' # NotLooking,
         [CameraNext]_cameraVars
  PROVE  object' = object /\ (FromNowOn => FromNowOn')
<1> USE DEF FromNowOn
<1>1. CASE dcmi_capture_start
  BY <1>1, Zenon DEF dcmi_capture_start, scanVars, PauseInv
<1>2. CASE frameEndCb
  <2>1. /\ object' = object /\ CT' = 3 - CT /\ filling' = "none"
        /\ filling = "clear" => buff' = [buff EXCEPT ![CT] = object]
    BY <1>2 DEF frameEndCb, scanVars
  <2>2. filling \in {"clear", "spoilt"} /\ CT \in {1, 2} /\ 3 - CT' = CT
    BY <1>2, <2>1 DEF frameEndCb, CameraTypeOK, Capture
  <2>3. buff \in [{1, 2} -> Image]
    BY DEF CameraTypeOK
  <2> QED
    BY <2>1, <2>2, <2>3
<1>3. CASE ~dcmi_capture_start /\ ~frameEndCb
  <2>1. UNCHANGED <<object, buff, CT, filling>>
    BY <1>3, Zenon DEF CameraNext, CaptureThread, ProcessThread, CaptureTop,
       wait_image_ready, CaptureSignal, CaptureTimer, ProcessTop, ProcessTake,
       ProcessCopy, ProcessAverage, ProcessTimer, Look, Judge, CameraTick,
       CameraDispatch, cameraVars, driverVars, scanVars
  <2> QED
    BY <2>1, Zenon
<1> QED
  BY <1>1, <1>2, <1>3

(* What was good stays good when the average takes no other image.         *)
LEMMA StillGood ==
  ASSUME NEW k \in 0 .. Enough, Good(k), object' = object, FromNowOn => FromNowOn',
         UNCHANGED <<previous_line, circular_buffer>>,
         process_pc' = "average" => process_pc = "average" /\ UNCHANGED line_detection
  PROVE  Good(k)'
BY Zenon DEF Good, Newest, Age

(* One counts what holds.                                                  *)
LEMMA Ones ==
  /\ \A a, b : (a => b) => One(a) <= One(b)
  /\ \A a : One(a) \in {0, 1} /\ (a => One(a) = 1) /\ (~a => One(a) = 0)
<1>1. \A a : One(a) \in {0, 1} /\ (a => One(a) = 1) /\ (~a => One(a) = 0)
  BY Zenon DEF One
<1>2. ASSUME NEW a, NEW b, a => b PROVE One(a) <= One(b)
  <2>1. One(b) = 1 \/ One(a) = 0
    BY <1>1, <1>2, Zenon
  <2>2. One(a) \in {0, 1} /\ One(b) \in {0, 1}
    BY <1>1, Zenon
  <2> QED
    BY <2>1, <2>2
<1> QED
  BY <1>1, <1>2

(* What the stages of an image hold; a stage that is left alone holds no   *)
(* less.                                                                   *)
LEMMA Stages ==
  ASSUME FromNowOn => FromNowOn', object' = object
  PROVE  /\ (process_pc = "copy" => process_pc' = "copy") => InCopy <= InCopy'
         /\ (process_pc = "average" => process_pc' = "average" /\ UNCHANGED line_detection)
              => InAverage <= InAverage'
         /\ (image_ready_sem => image_ready_sem') => InSem <= InSem'
         /\ (capture_pc = "signal" => capture_pc' = "signal") => InSignal <= InSignal'
<1>1. (process_pc = "copy" => process_pc' = "copy") => InCopy <= InCopy'
  <2> SUFFICES ASSUME process_pc = "copy" => process_pc' = "copy" PROVE InCopy <= InCopy'
    OBVIOUS
  <2>1. InCopy' = One((FromNowOn /\ process_pc = "copy")')
    BY Zenon DEF InCopy, One
  <2> QED
    BY <2>1, Ones, Zenon DEF InCopy
<1>2. (process_pc = "average" => process_pc' = "average" /\ UNCHANGED line_detection)
        => InAverage <= InAverage'
  <2> SUFFICES ASSUME process_pc = "average" =>
                        process_pc' = "average" /\ UNCHANGED line_detection
               PROVE  InAverage <= InAverage'
    OBVIOUS
  <2>1. InAverage' =
          One((FromNowOn /\ process_pc = "average" /\ line_detection = object)')
    BY Zenon DEF InAverage, One
  <2> QED
    BY <2>1, Ones, Zenon DEF InAverage
<1>3. (image_ready_sem => image_ready_sem') => InSem <= InSem'
  <2> SUFFICES ASSUME image_ready_sem => image_ready_sem' PROVE InSem <= InSem'
    OBVIOUS
  <2>1. InSem' = One((FromNowOn /\ image_ready_sem)')
    BY Zenon DEF InSem, One
  <2> QED
    BY <2>1, Ones, Zenon DEF InSem
<1>4. (capture_pc = "signal" => capture_pc' = "signal") => InSignal <= InSignal'
  <2> SUFFICES ASSUME capture_pc = "signal" => capture_pc' = "signal"
               PROVE  InSignal <= InSignal'
    OBVIOUS
  <2>1. InSignal' = One((FromNowOn /\ capture_pc = "signal")')
    BY Zenon DEF InSignal, One
  <2> QED
    BY <2>1, Ones, Zenon DEF InSignal
<1> QED
  BY <1>1, <1>2, <1>3, <1>4

(* An image that goes from one stage to the next is still to be averaged;  *)
(* one that is averaged no longer is.                                      *)
LEMMA PendingMoves ==
  /\ /\ InCopy <= InCopy' /\ InAverage <= InAverage' /\ InSem <= InSem'
     /\ InSignal <= InSignal'
     => Pending' >= Pending
  /\ /\ InCopy <= InCopy' /\ InAverage <= InAverage' /\ InSem <= InSem'
     /\ InSignal = 0 /\ InSignal' = 1
     => Pending' >= Pending + 1
  /\ InCopy = 0 /\ InAverage = 0 /\ InSem = 0 /\ InSignal <= InCopy' => Pending' >= Pending
  /\ /\ InCopy = 0 /\ InAverage <= InAverage' /\ InSem <= InCopy' /\ InSignal <= InSignal'
     => Pending' >= Pending
  /\ /\ InCopy <= InAverage' /\ InAverage = 0 /\ InSem <= InSem' /\ InSignal <= InSignal'
     => Pending' >= Pending
  /\ InCopy = 0 /\ InSem <= InSem' /\ InSignal <= InSignal' => Pending' >= Pending - 1
  /\ InCopy = 0 /\ InAverage = 0 /\ InSem = 0 /\ InSignal = 0 => Pending = 0
<1> DEFINE a == InCopy    b == InAverage    c == InSem    d == InSignal
           e == InCopy'   f == InAverage'   g == InSem'   h == InSignal'
<1>1. {a, b, c, d, e, f, g, h} \subseteq {0, 1}
  BY Numbers
<1>2. Pending = a + b + c + d /\ Pending' = e + f + g + h
  BY DEF Pending
<1> HIDE DEF a, b, c, d, e, f, g, h
<1>3. a <= e /\ b <= f /\ c <= g /\ d <= h => Pending' >= Pending
  BY <1>1, <1>2
<1>4. a <= e /\ b <= f /\ c <= g /\ d = 0 /\ h = 1 => Pending' >= Pending + 1
  BY <1>1, <1>2
<1>5. a = 0 /\ b = 0 /\ c = 0 /\ d <= e => Pending' >= Pending
  BY <1>1, <1>2
<1>6. a = 0 /\ b <= f /\ c <= e /\ d <= h => Pending' >= Pending
  BY <1>1, <1>2
<1>7. a <= f /\ b = 0 /\ c <= g /\ d <= h => Pending' >= Pending
  BY <1>1, <1>2
<1>8. a = 0 /\ c <= g /\ d <= h => Pending' >= Pending - 1
  BY <1>1, <1>2
<1>9. a = 0 /\ b = 0 /\ c = 0 /\ d = 0 => Pending = 0
  BY <1>1, <1>2
<1> QED
  BY <1>3, <1>4, <1>5, <1>6, <1>7, <1>8, <1>9 DEF a, b, c, d, e, f, g, h

(* A step of a look that passes no time and changes nothing of what the    *)
(* camera has seen so far, and leaves the stages alone.                    *)
LEMMA QuietStep ==
  ASSUME CameraTypeOK, CameraTypeOK', NEW k \in 0 .. Enough, Good(k), OnTime(k),
         FromNowOn => FromNowOn', object' = object,
         UNCHANGED <<look, process_sleep, previous_line, circular_buffer, line_detection,
                     image_ready_sem>>,
         process_pc = "copy" <=> process_pc' = "copy",
         process_pc = "average" <=> process_pc' = "average",
         capture_pc = "signal" => capture_pc' = "signal",
         Waking' <=> Waking, Delay' <= Delay
  PROVE  Good(k)' /\ OnTime(k)'
<1>1. Good(k)'
  BY StillGood
<1>2. InCopy <= InCopy' /\ InAverage <= InAverage' /\ InSem <= InSem' /\ InSignal <= InSignal'
  BY Stages
<1>3. Pending' >= Pending
  BY <1>2, PendingMoves, Zenon
<1> QED
  BY <1>1, <1>3, StillOnTime

(* No image is among the last none.                                        *)
LEMMA NoneNewest == ASSUME NEW p \in Places PROVE Newest(p, 0) = {}
<1>1. \A i \in Places : Age(p, i) \in Nat
  BY Times DEF Places, Age
<1>2. \A n \in Nat : ~(n < 0)
  OBVIOUS
<1> QED
  BY <1>1, <1>2, Zenon DEF Newest

(* When the scan begins to look, it has time for all the images it needs.  *)
LEMMA LookBegins ==
  ASSUME CameraTypeOK, CameraTypeOK', PauseInv', Look
  PROVE  Good(0)' /\ OnTime(0)'
<1>1. circular_buffer' \in Places
  BY DEF CameraTypeOK, Places
<1>2. Good(0)'
  <2>1. Newest(circular_buffer', 0) = {}
    BY <1>1, NoneNewest
  <2> QED
    BY <2>1 DEF Good
<1>3. look' = TIME_TO_SCAN
  BY DEF Look
<1>4. process_sleep' \in Int /\ process_sleep' <= CAMERA_POLL
  BY Times DEF CameraTypeOK
<1>5. Delay' \in Int /\ (Delay' <= CAMERA_POLL \/ Delay' <= FRAME_TIME)
  <2>1. capture_sleep' \in 0 .. CAMERA_POLL /\ frame_time' \in 0 .. FRAME_TIME
    BY DEF CameraTypeOK
  <2>2. \/ Delay' = capture_sleep'
        \/ Delay' = frame_time'
        \/ Delay' = frame_time' - FRAME_TIME
        \/ Delay' = 0
    BY DEF Delay
  <2> QED
    BY <2>1, <2>2, Times
<1>6. /\ TIME_TO_SCAN > process_sleep' + Frames(Enough)
      /\ TIME_TO_SCAN > Delay' + Frames(Enough)
  BY <1>4, <1>5, LookLastsEnough
<1>7. TIME_TO_SCAN > Delay' + Frames(Enough - 0 - Pending')
  <2>1. Pending' \in Nat /\ Enough \in Nat
    BY Numbers, Zenon
  <2> DEFINE n == Enough - 0 - Pending'
             m == Enough
  <2>2. n \in Int /\ m \in Int /\ n <= m
    <3>1. \A e, q \in Nat : e - 0 - q \in Int /\ e \in Int /\ e - 0 - q <= e
      OBVIOUS
    <3> QED
      BY <2>1, <3>1, Zenon
  <2>3. TIME_TO_SCAN \in Int /\ Delay' <= Delay'
    BY <1>5, Times
  <2> HIDE DEF n, m
  <2>4. TIME_TO_SCAN > Delay' + Frames(m)
    BY <1>6 DEF m
  <2>5. TIME_TO_SCAN > Delay' + Frames(n)
    BY <1>5, <2>2, <2>3, <2>4, FramesTyped, Zenon
  <2> QED
    BY <2>5 DEF n
<1>8. TIME_TO_SCAN > 0
  BY Times
<1> QED
  BY <1>2, <1>3, <1>6, <1>7, <1>8 DEF OnTime

(* The steps of a look that leave the stages alone.                        *)
LEMMA LookGoesOn ==
  ASSUME CameraTypeOK, CameraTypeOK', ReadyInv, ReadyInv', PauseInv, PauseInv',
         look # NotLooking, look' # NotLooking, NEW k \in 0 .. Enough, Good(k), OnTime(k),
         \/ CaptureTop \/ dcmi_capture_start \/ wait_image_ready \/ CaptureTimer
         \/ ProcessTop \/ ProcessTimer \/ UNCHANGED cameraVars
         \/ frameEndCb /\ filling = "spoilt"
  PROVE  Good(k)' /\ OnTime(k)'
<1>1. object' = object /\ (FromNowOn => FromNowOn')
  BY StaysInSight, Zenon DEF CameraNext, CaptureThread, ProcessThread
<1>2. /\ UNCHANGED <<look, process_sleep, previous_line, circular_buffer, line_detection,
                     image_ready_sem>>
      /\ process_pc = "copy" <=> process_pc' = "copy"
      /\ process_pc = "average" <=> process_pc' = "average"
      /\ capture_pc = "signal" => capture_pc' = "signal"
  <2>1. ~is_paused
    BY DEF PauseInv
  <2>2. /\ UNCHANGED <<look, process_sleep, previous_line, circular_buffer,
                       line_detection, image_ready_sem>>
        /\ \/ UNCHANGED process_pc
           \/ process_pc = "top" /\ process_pc' = "take"
           \/ process_pc = "sleep" /\ process_pc' = "top"
    BY <2>1, Zenon DEF CaptureTop, dcmi_capture_start, wait_image_ready, CaptureTimer,
       ProcessTop, ProcessTimer, frameEndCb, cameraVars, captureVars, processVars, scanVars
  <2>3. \/ UNCHANGED capture_pc
        \/ capture_pc \in {"top", "start", "wait", "sleep"}
        \/ filling # "none"
    BY Zenon DEF CaptureTop, dcmi_capture_start, wait_image_ready, CaptureTimer,
       ProcessTop, ProcessTimer, frameEndCb, cameraVars, captureVars
  <2>4. capture_pc = "signal" => capture_pc' = "signal"
    BY <2>3 DEF PauseInv
  <2> QED
    BY <2>2, <2>4
<1>3. Waking' <=> Waking
  <2>1. ~is_paused
    BY DEF PauseInv
  <2>2. CASE ProcessTop
    <3>1. process_pc = "top" /\ running = ProcessImage /\ process_pc' = "take"
      BY <2>1, <2>2, Zenon DEF ProcessTop
    <3> QED
      BY <3>1 DEF Waking
  <2>3. CASE ProcessTimer
    <3>1. process_pc = "sleep" /\ process_pc' = "top" /\ running' = running
      BY <2>3, Zenon DEF ProcessTimer, Awakens, GoesOnWaking
    <3>2. running # ProcessImage
      BY <3>1 DEF ReadyInv
    <3> QED
      BY <3>1, <3>2 DEF Waking
  <2>4. CASE ~ProcessTop /\ ~ProcessTimer
    <3>1. process_pc' = process_pc /\ (running' = ProcessImage <=> running = ProcessImage)
      BY <2>4, Moves, Zenon DEF CaptureTop, dcmi_capture_start, wait_image_ready,
         CaptureTimer, frameEndCb, cameraVars, processVars, Blocks, BlocksWaking, GoesOn,
         Awakens, GoesOnWaking, peerVars
    <3> QED
      BY <3>1 DEF Waking
  <2> QED
    BY <2>2, <2>3, <2>4
<1>4. Delay' <= Delay
  <2>0. Delay \in Int /\ Delay' \in Int
    BY Numbers, Zenon
  <2>1. CASE CaptureTop \/ wait_image_ready
    <3>1. /\ capture_pc # "sleep" /\ capture_pc' # "sleep"
          /\ UNCHANGED <<filling, frame_time>>
      BY <2>1 DEF CaptureTop, wait_image_ready, PauseInv, driverVars
    <3>2. Delay' = Delay
      BY <3>1, Zenon DEF Delay
    <3> QED
      BY <2>0, <3>2
  <2>2. CASE dcmi_capture_start
    <3>1. /\ capture_pc = "start" /\ filling' = "clear" /\ frame_time' = FRAME_TIME
          /\ capture_pc' = "wait"
      BY <2>2, Zenon DEF dcmi_capture_start
    <3>2. filling = "none"
      BY <3>1 DEF PauseInv
    <3>3. Delay = 0 /\ Delay' = 0
      BY <3>1, <3>2, Times DEF Delay
    <3> QED
      BY <3>3
  <2>3. CASE CaptureTimer
    <3>1. /\ capture_pc = "sleep" /\ capture_sleep = 0 /\ capture_pc' = "top"
          /\ filling' = filling
      BY <2>3, Zenon DEF CaptureTimer, driverVars
    <3>2. filling = "none"
      BY <3>1 DEF PauseInv, CameraTypeOK
    <3>3. Delay = 0 /\ Delay' = 0
      BY <3>1, <3>2 DEF Delay
    <3> QED
      BY <3>3
  <2>4. CASE frameEndCb /\ filling = "spoilt"
    <3>1. capture_pc # "sleep"
      BY <2>4 DEF PauseInv
    <3>2. Delay = frame_time /\ frame_time >= 0
      BY <2>4, <3>1 DEF Delay, CameraTypeOK
    <3>3. filling' = "none" /\ (capture_pc' = "signal" \/ capture_pc' = capture_pc)
      BY <2>4, Zenon DEF frameEndCb
    <3>4. Delay' = 0
      BY <3>1, <3>3 DEF Delay
    <3> QED
      BY <3>2, <3>4
  <2>5. CASE ProcessTop \/ ProcessTimer \/ UNCHANGED cameraVars
    <3>1. UNCHANGED <<capture_pc, capture_sleep, filling, frame_time>>
      BY <2>5, Zenon DEF ProcessTop, ProcessTimer, cameraVars, captureVars, driverVars
    <3>2. Delay' = Delay
      BY <3>1, Zenon DEF Delay
    <3> QED
      BY <2>0, <3>2
  <2> QED
    BY <2>1, <2>2, <2>3, <2>4, <2>5
<1> QED
  BY <1>1, <1>2, <1>3, <1>4, QuietStep

(* The steps that take an image from one stage to the next.                *)
LEMMA LookMovesOn ==
  ASSUME CameraTypeOK, CameraTypeOK', ReadyInv, ReadyInv', PauseInv, PauseInv',
         look # NotLooking, look' # NotLooking, NEW k \in 0 .. Enough, Good(k), OnTime(k),
         CaptureSignal \/ ProcessTake \/ ProcessCopy
  PROVE  Good(k)' /\ OnTime(k)'
<1>1. object' = object /\ (FromNowOn => FromNowOn')
  BY StaysInSight, Zenon DEF CameraNext, CaptureThread, ProcessThread
<1>2. /\ UNCHANGED <<look, process_sleep, previous_line, circular_buffer>>
      /\ UNCHANGED <<capture_sleep, filling, frame_time>>
  BY Zenon DEF CaptureSignal, ProcessTake, ProcessCopy, captureVars, driverVars, scanVars
<1>3. Delay' <= Delay
  <2>1. UNCHANGED capture_pc \/ (capture_pc = "signal" /\ capture_pc' = "top")
    BY Zenon DEF CaptureSignal, ProcessTake, ProcessCopy, captureVars
  <2>2. Delay' = Delay
    BY <1>2, <2>1 DEF Delay
  <2> QED
    BY <2>2, Numbers
<1>4. Good(k)'
  <2>1. CASE CaptureSignal \/ ProcessTake
    <3>1. UNCHANGED line_detection /\ (process_pc' = "average" => process_pc = "average")
      BY <2>1 DEF CaptureSignal, ProcessTake
    <3> QED
      BY <1>1, <1>2, <3>1, StillGood, Zenon
  <2>2. CASE ProcessCopy
    <3>1. line_detection' = buff[3 - CT] /\ UNCHANGED <<buff, CT, filling>>
      BY <2>2, LastImage DEF ProcessCopy, CameraTypeOK, driverVars
    <3>2. FromNowOn => line_detection' = object'
      BY <1>1, <3>1, Zenon DEF FromNowOn
    <3> QED
      BY <1>1, <1>2, <3>2, Zenon DEF Good, Newest, Age
  <2> QED
    BY <2>1, <2>2
<1>5. CASE CaptureSignal
  <2>1. capture_pc = "signal" /\ running = CaptureImage /\ running' = running
    BY <1>5, Zenon DEF CaptureSignal, GoesOn, GoesOnWaking, peerVars
  <2>2. CASE process_pc = "waiting"
    <3>1. process_pc' = "copy"
      BY <1>5, <2>2, Zenon DEF CaptureSignal
    <3>2. ~image_ready_sem
      BY <2>2 DEF ReadyInv
    <3>3. InCopy = 0 /\ InAverage = 0 /\ InSem = 0
      BY <2>2, <3>2 DEF InCopy, InAverage, InSem, One
    <3>4. InSignal <= InCopy'
      <4>1. InCopy' = One(FromNowOn')
        BY <3>1, Zenon DEF InCopy, One
      <4> QED
        BY <1>1, <2>1, <4>1, Ones, Zenon DEF InSignal
    <3>5. Pending' >= Pending
      BY <3>3, <3>4, PendingMoves, Zenon
    <3>6. ~Waking /\ ~Waking'
      BY <2>2, <3>1 DEF Waking
    <3> QED
      BY <1>2, <1>3, <1>4, <3>5, <3>6, StillOnTime
  <2>3. CASE process_pc # "waiting"
    <3>1. process_pc \in {"sleep", "top"}
      BY <1>5, <2>1, <2>3, Moves DEF ReadyInv, CameraTypeOK, CaptureSignal
    <3>2. process_pc' = process_pc
      BY <1>5, <2>3, Zenon DEF CaptureSignal
    <3>3. Waking /\ Waking'
      BY <2>1, <3>1, <3>2, Moves DEF Waking
    <3> QED
      BY <1>2, <1>3, <1>4, <3>3, StillOnTime
  <2> QED
    BY <2>2, <2>3
<1>6. CASE ProcessTake
  <2>1. /\ process_pc = "take" /\ UNCHANGED <<line_detection, capture_pc>>
        /\ process_pc' \in {"copy", "waiting"}
    BY <1>6 DEF ProcessTake, captureVars
  <2>2. ~Waking /\ ~Waking'
    BY <2>1 DEF Waking
  <2>3. InCopy = 0 /\ InAverage <= InAverage' /\ InSignal <= InSignal'
    BY <1>1, <2>1, Stages DEF InCopy, One
  <2>4. InSem <= InCopy'
    <3>1. CASE image_ready_sem
      <4>1. process_pc' = "copy"
        BY <1>6, <3>1, Zenon DEF ProcessTake
      <4>2. InCopy' = One(FromNowOn')
        BY <4>1, Zenon DEF InCopy, One
      <4> QED
        BY <1>1, <4>2, Ones, Zenon DEF InSem
    <3>2. CASE ~image_ready_sem
      <4>1. InSem = 0
        BY <3>2 DEF InSem, One
      <4> QED
        BY <4>1, Numbers
    <3> QED
      BY <3>1, <3>2
  <2>5. Pending' >= Pending
    BY <2>3, <2>4, PendingMoves, Zenon
  <2> QED
    BY <1>2, <1>3, <1>4, <2>2, <2>5, StillOnTime
<1>7. CASE ProcessCopy
  <2>1. /\ process_pc = "copy" /\ process_pc' = "average"
        /\ UNCHANGED <<capture_pc, image_ready_sem>>
    BY <1>7, Zenon DEF ProcessCopy, captureVars
  <2>2. ~Waking /\ ~Waking'
    BY <2>1 DEF Waking
  <2>3. line_detection' = buff[3 - CT] /\ UNCHANGED <<buff, CT, filling>>
    BY <1>7, LastImage DEF ProcessCopy, CameraTypeOK, driverVars
  <2>4. InAverage = 0 /\ InSem <= InSem' /\ InSignal <= InSignal'
    BY <1>1, <2>1, Stages DEF InAverage, One
  <2>5. InCopy <= InAverage'
    <3>1. FromNowOn => FromNowOn' /\ line_detection' = object'
      BY <1>1, <2>3, Zenon DEF FromNowOn
    <3>2. InAverage' = One((FromNowOn /\ process_pc = "average" /\ line_detection = object)')
      BY Zenon DEF InAverage, One
    <3> QED
      BY <2>1, <3>1, <3>2, Ones, Zenon DEF InCopy
  <2>6. Pending' >= Pending
    BY <2>4, <2>5, PendingMoves, Zenon
  <2> QED
    BY <1>2, <1>3, <1>4, <2>2, <2>6, StillOnTime
<1> QED
  BY <1>5, <1>6, <1>7

(* The end of a capture that counts.                                       *)
LEMMA LookCaptures ==
  ASSUME EndsBeforeWait = FALSE,
         CameraTypeOK, CameraTypeOK', ReadyInv, ReadyInv', PauseInv, PauseInv',
         look # NotLooking, look' # NotLooking, NEW k \in 0 .. Enough, Good(k), OnTime(k),
         frameEndCb, filling = "clear"
  PROVE  Good(k)' /\ OnTime(k)'
<1>1. object' = object /\ (FromNowOn => FromNowOn')
  BY StaysInSight, Zenon DEF CameraNext, CaptureThread, ProcessThread
<1>2. /\ UNCHANGED <<look, process_sleep, previous_line, circular_buffer, line_detection,
                     image_ready_sem, process_pc, running>>
      /\ capture_pc = "waiting" /\ capture_pc' = "signal" /\ filling' = "none"
  BY Zenon DEF frameEndCb, scanVars, processVars, Awakens, GoesOnWaking
<1>3. Good(k)'
  BY <1>1, <1>2, StillGood, Zenon
<1>4. FromNowOn'
  <2>1. CT' = 3 - CT /\ buff' = [buff EXCEPT ![CT] = object]
    BY Zenon DEF frameEndCb
  <2>2. CT \in {1, 2} /\ 3 - CT' = CT /\ buff \in [{1, 2} -> Image]
    BY <2>1 DEF CameraTypeOK
  <2> QED
    BY <1>1, <1>2, <2>1, <2>2 DEF FromNowOn
<1>5. InCopy <= InCopy' /\ InAverage <= InAverage' /\ InSem <= InSem'
  BY <1>1, <1>2, Stages, Zenon
<1>6. InSignal = 0 /\ InSignal' = 1
  <2>1. InSignal' = One((FromNowOn /\ capture_pc = "signal")')
    BY Zenon DEF InSignal, One
  <2> QED
    BY <1>2, <1>4, <2>1, Ones, Zenon DEF InSignal
<1>7. Pending' >= Pending + 1
  BY <1>5, <1>6, PendingMoves, Zenon
<1>8. Waking' <=> Waking
  BY <1>2 DEF Waking
<1>9. Delay' = 0 /\ Delay = frame_time - FRAME_TIME
  BY <1>2 DEF Delay
<1> QED
  BY <1>2, <1>3, <1>7, <1>8, <1>9, OneMoreOnTime

(* An image is averaged: one more of what is looked at, if it is one.      *)
LEMMA LookAverages ==
  ASSUME CameraTypeOK, CameraTypeOK', ReadyInv, ReadyInv', look # NotLooking,
         NEW k \in 0 .. Enough, Good(k), OnTime(k), ProcessAverage
  PROVE  \E j \in 0 .. Enough : Good(j)' /\ OnTime(j)'
<1>1. /\ UNCHANGED <<look, object, process_sleep, capture_pc, capture_sleep, filling,
                     frame_time, buff, CT, image_ready_sem>>
      /\ process_pc = "average" /\ process_pc' = "top"
      /\ running = ProcessImage /\ running' = running
      /\ previous_line' = [previous_line EXCEPT ![circular_buffer] = line_detection]
      /\ circular_buffer' = (circular_buffer + 1) % NB_SAMPLE_SCAN
  BY Zenon DEF ProcessAverage, line_detection_avg, captureVars, driverVars, scanVars,
     GoesOn, peerVars
<1>2. (FromNowOn <=> FromNowOn') /\ Delay' = Delay
  BY <1>1, Zenon DEF FromNowOn, Delay
<1>3. ~Waking /\ ~Waking'
  BY <1>1 DEF Waking
<1>4. /\ circular_buffer \in Places /\ previous_line \in [Places -> Image]
      /\ circular_buffer' \in Places
  BY DEF CameraTypeOK, Places
<1>5. InCopy = 0 /\ InSem <= InSem' /\ InSignal <= InSignal'
  BY <1>1, <1>2, Stages DEF InCopy, One
<1>6. CASE FromNowOn /\ line_detection = object
  <2> DEFINE j == IF k < Enough THEN k + 1 ELSE k
  <2>1. k \in Nat /\ Enough \in Nat /\ j \in 0 .. Enough /\ (j = k \/ j = k + 1)
    BY Numbers
  <2>2. Newest(circular_buffer', j) \subseteq Newest(circular_buffer, k) \cup {circular_buffer}
    BY <1>1, <1>4, <2>1, NewestNext
  <2>3. \A i \in Newest(circular_buffer', j) : previous_line'[i] = object
    <3>1. \A i \in Newest(circular_buffer, k) : i \in Places /\ previous_line[i] = object
      BY Zenon DEF Good, Newest
    <3> QED
      BY <1>1, <1>4, <1>6, <2>2, <3>1
  <2>4. Good(j)'
    BY <1>1, <1>2, <1>6, <2>3 DEF Good
  <2>5. OnTime(j)'
    <3> SUFFICES ASSUME j < Enough
                 PROVE  look > 0 /\ look > Delay + Frames(Enough - j - Pending')
      BY <1>1, <1>2, <1>3, Zenon DEF OnTime
    <3>1. k < Enough /\ j = k + 1
      BY <2>1
    <3>2. look > 0 /\ look > Delay + Frames(Enough - k - Pending)
      BY <1>3, <3>1, Zenon DEF OnTime
    <3>3. Pending' >= Pending - 1
      BY <1>5, PendingMoves, Zenon
    <3> DEFINE m == Enough - k - Pending
               n == Enough - j - Pending'
    <3>4. m \in Int /\ n \in Int /\ n <= m
      <4>1. \A e, c, q, r \in Nat : r >= q - 1 =>
              e - c - q \in Int /\ e - (c + 1) - r \in Int /\ e - (c + 1) - r <= e - c - q
        OBVIOUS
      <4>2. Pending \in Nat /\ Pending' \in Nat
        BY Numbers, Zenon
      <4> QED
        BY <2>1, <3>1, <3>3, <4>1, <4>2, Zenon
    <3>5. look \in Int /\ Delay \in Int /\ Delay <= Delay
      BY Numbers
    <3> HIDE DEF m, n, j
    <3>6. look > Delay + Frames(n)
      BY <3>2, <3>4, <3>5, FramesTyped, Zenon DEF m
    <3> QED
      BY <3>2, <3>6 DEF n
  <2> QED
    BY <2>1, <2>4, <2>5
<1>7. CASE ~(FromNowOn /\ line_detection = object)
  <2>1. k = 0
    <3>1. ~(k > 0)
      BY <1>1, <1>7, Zenon DEF Good
    <3> QED
      BY <3>1
  <2>2. Good(0)'
    BY <1>4, NoneNewest DEF Good
  <2>3. InAverage <= InAverage'
    <3>1. InAverage = 0
      BY <1>7 DEF InAverage, One
    <3> QED
      BY <3>1, Numbers
  <2>4. InCopy <= InCopy'
    BY <1>5, Numbers
  <2>5. Pending' >= Pending
    BY <1>5, <2>3, <2>4, PendingMoves, Zenon
  <2>6. Delay' <= Delay
    BY <1>2, Numbers
  <2>7. OnTime(0)'
    BY <1>1, <1>3, <2>1, <2>5, <2>6, StillOnTime
  <2> QED
    BY <2>1, <2>2, <2>7
<1> QED
  BY <1>6, <1>7

(* While time passes a capture is under way or slept for: the one that the *)
(* look waits for comes as much nearer.                                    *)
LEMMA LookTicks ==
  ASSUME CameraTypeOK, CameraTypeOK', ReadyInv, PauseInv, look # NotLooking,
         NEW k \in 0 .. Enough, Good(k), OnTime(k), CameraTick
  PROVE  Good(k)' /\ OnTime(k)'
<1>1. UNCHANGED <<object, capture_pc, process_pc, line_detection, previous_line,
                  circular_buffer, filling, buff, CT, image_ready_sem, running>>
  BY Zenon DEF CameraTick, peerVars
<1>2. FromNowOn' <=> FromNowOn
  BY <1>1 DEF FromNowOn
<1>3. Good(k)'
  BY <1>1, <1>2, StillGood, Zenon
<1>4. capture_pc \in {"sleep", "waiting"} /\ process_pc \in {"sleep", "waiting"}
  BY Moves DEF CameraTick, ReadyInv, CaptureReady, ProcessReady
<1>5. look > 0 /\ look' = look - 1
  BY Times DEF CameraTick, CameraTypeOK, NotLooking
<1>6. Delay' = Delay - 1 /\ Delay > -FRAME_TIME
  <2>1. CASE capture_pc = "sleep"
    <3>1. capture_sleep > 0 /\ capture_sleep' = capture_sleep - 1
      BY <2>1 DEF CameraTick
    <3>2. Delay = capture_sleep /\ Delay' = capture_sleep'
      BY <1>1, <2>1 DEF Delay
    <3> QED
      BY <3>1, <3>2, Times DEF CameraTypeOK
  <2>2. CASE capture_pc = "waiting"
    <3>1. filling # "none" /\ filling \in Capture
      BY <2>2 DEF PauseInv, CameraTypeOK
    <3>2. frame_time > 0 /\ frame_time' = frame_time - 1
      BY <3>1 DEF CameraTick
    <3>3. CASE filling = "spoilt"
      <4>1. Delay = frame_time /\ Delay' = frame_time'
        BY <1>1, <2>2, <3>3 DEF Delay
      <4> QED
        BY <3>2, <4>1, Times DEF CameraTypeOK
    <3>4. CASE filling = "clear"
      <4>1. Delay = frame_time - FRAME_TIME /\ Delay' = frame_time' - FRAME_TIME
        BY <1>1, <2>2, <3>4 DEF Delay
      <4> QED
        BY <3>2, <4>1, Times DEF CameraTypeOK
    <3> QED
      BY <3>1, <3>3, <3>4 DEF Capture
  <2> QED
    BY <1>4, <2>1, <2>2
<1>7. Waking' <=> Waking
  BY <1>1 DEF Waking
<1>8. CASE Waking
  <2>1. process_pc = "sleep"
    BY <1>4, <1>8 DEF Waking
  <2>2. process_sleep > 0 /\ process_sleep' = process_sleep - 1
    BY <2>1 DEF CameraTick
  <2>3. k = 0 /\ look > process_sleep + Frames(Enough) /\ look > Delay + Frames(Enough)
    BY <1>8 DEF OnTime
  <2> DEFINE f == Frames(Enough)
  <2>4. f \in Int
    BY FramesTyped, Numbers
  <2> HIDE DEF f
  <2>5. look' > process_sleep' + f /\ look' > Delay' + f
    <3>1. look > process_sleep + f /\ look > Delay + f
      BY <2>3 DEF f
    <3> QED
      BY <1>5, <1>6, <2>2, <2>4, <3>1, Numbers
  <2> QED
    BY <1>3, <1>7, <1>8, <2>3, <2>5 DEF OnTime, f
<1>9. CASE ~Waking
  <2>1. process_pc = "waiting" /\ ~image_ready_sem /\ capture_pc # "signal"
    BY <1>4, <1>9 DEF Waking, ReadyInv
  <2>2. InCopy = 0 /\ InAverage = 0 /\ InSem = 0 /\ InSignal = 0
    BY <2>1 DEF InCopy, InAverage, InSem, InSignal, One
  <2>3. Pending' = Pending /\ Pending = 0
    <3>1. InCopy' = InCopy /\ InAverage' = InAverage /\ InSem' = InSem /\ InSignal' = InSignal
      BY <1>1, <1>2, Zenon DEF InCopy, InAverage, InSem, InSignal, One
    <3>2. Pending' = Pending
      BY <3>1, Zenon DEF Pending
    <3> QED
      BY <2>2, <3>2, PendingMoves, Zenon
  <2> SUFFICES ASSUME k < Enough
               PROVE  look' > 0 /\ look' > Delay' + Frames(Enough - k - Pending)
    BY <1>3, <1>7, <1>9, <2>3 DEF OnTime
  <2> DEFINE m == Enough - k - Pending
             f == Frames(m)
  <2>4. m \in Int /\ m > 0
    BY <2>3, Numbers
  <2>5. f \in Int /\ f >= FRAME_TIME
    BY <2>4, FramesTyped
  <2>6. look > Delay + f
    BY <1>9 DEF OnTime
  <2> HIDE DEF m, f
  <2>7. look' > 0 /\ look' > Delay' + f
    BY <1>5, <1>6, <2>5, <2>6, Numbers, Times
  <2> QED
    BY <2>7 DEF f, m
<1> QED
  BY <1>8, <1>9

(* A thread gets the processor; ProcessImage, once awake, has all the      *)
(* images before it that it needs.                                         *)
LEMMA LookDispatches ==
  ASSUME CameraTypeOK, CameraTypeOK', ReadyInv, ReadyInv', look # NotLooking,
         NEW k \in 0 .. Enough, Good(k), OnTime(k), CameraDispatch
  PROVE  Good(k)' /\ OnTime(k)'
<1>1. /\ UNCHANGED <<look, object, process_pc, process_sleep, line_detection, previous_line,
                     circular_buffer, capture_pc, capture_sleep, filling, frame_time, buff,
                     CT, image_ready_sem>>
      /\ running = Nobody
  BY Zenon DEF CameraDispatch, Dispatch, captureVars, processVars, driverVars, scanVars
<1>2. object' = object /\ (FromNowOn => FromNowOn') /\ Delay' = Delay
  BY <1>1, Zenon DEF FromNowOn, Delay
<1>3. Delay' <= Delay
  BY <1>2, Numbers
<1>4. CASE process_pc = "top" /\ running' = ProcessImage
  <2>1. Waking /\ ~Waking'
    BY <1>1, <1>4, Moves DEF Waking
  <2>2. k = 0 /\ look > process_sleep + Frames(Enough) /\ look > Delay + Frames(Enough)
    BY <2>1 DEF OnTime
  <2>3. Good(k)'
    BY <1>1, <1>2, StillGood, Zenon
  <2> DEFINE m == Enough
             n == Enough - k - Pending'
  <2>4. m \in Int /\ m > 0 /\ n \in Int /\ n <= m
    <3>1. \A e, q \in Nat : e \in Int /\ e - 0 - q \in Int /\ e - 0 - q <= e
      OBVIOUS
    <3>2. Pending' \in Nat /\ Enough \in Nat
      BY Numbers, Zenon
    <3>3. m > 0
      BY EnoughTyped, Times
    <3> QED
      BY <2>2, <3>1, <3>2, <3>3, Zenon
  <2> HIDE DEF m, n
  <2>5. look \in Int /\ Delay \in Int /\ Delay' \in Int /\ process_sleep \in Nat
    BY Numbers, Zenon
  <2>6. look > Delay' + Frames(n)
    <3>1. look > Delay + Frames(m)
      BY <2>2 DEF m
    <3> QED
      BY <1>3, <2>4, <2>5, <3>1, FramesTyped, Zenon
  <2>7. look > 0
    <3>1. look > process_sleep + Frames(m)
      BY <2>2 DEF m
    <3>2. Frames(m) > 0 /\ Frames(m) \in Int
      BY <2>4, FramesTyped
    <3> QED
      BY <2>5, <3>1, <3>2
  <2> QED
    BY <1>1, <2>1, <2>3, <2>6, <2>7 DEF OnTime, n
<1>5. CASE ~(process_pc = "top" /\ running' = ProcessImage)
  <2>1. Waking' <=> Waking
    BY <1>1, <1>5, Moves DEF Waking
  <2> QED
    BY <1>1, <1>2, <1>3, <2>1, QuietStep
<1> QED
  BY <1>4, <1>5

(* Every step keeps a look on its way to a majority.                       *)
LEMMA LookStep ==
  ASSUME EndsBeforeWait = FALSE, CameraTypeOK, CameraTypeOK', ReadyInv, ReadyInv', PauseInv,
         PauseInv', LookInv, [CameraNext]_cameraVars
  PROVE  LookInv'
<1> SUFFICES ASSUME look' # NotLooking PROVE \E k \in 0 .. Enough : Good(k)' /\ OnTime(k)'
  BY DEF LookInv, Enough
<1>1. CASE look = NotLooking
  <2>0. CameraTick => look' = look
    BY <1>1 DEF CameraTick, NotLooking
  <2>1. Look
    BY <1>1, <2>0, Zenon DEF CameraNext, CaptureThread, ProcessThread, CaptureTop,
       dcmi_capture_start, wait_image_ready, CaptureSignal, CaptureTimer, frameEndCb,
       ProcessTop, ProcessTake, ProcessCopy, ProcessAverage, ProcessTimer, Judge,
       CameraDispatch, cameraVars, scanVars
  <2>2. 0 \in 0 .. Enough
    BY Numbers
  <2> QED
    BY <2>1, <2>2, LookBegins
<1>2. CASE look # NotLooking
  <2>1. PICK k \in 0 .. Enough : Good(k) /\ OnTime(k)
    BY <1>2 DEF LookInv
  <2>2. CASE ProcessAverage
    BY <1>2, <2>1, <2>2, LookAverages
  <2>3. CASE \/ CaptureTop \/ dcmi_capture_start \/ wait_image_ready \/ CaptureTimer
             \/ ProcessTop \/ ProcessTimer \/ UNCHANGED cameraVars
             \/ frameEndCb /\ filling = "spoilt"
    BY <1>2, <2>1, <2>3, LookGoesOn
  <2>4. CASE CaptureSignal \/ ProcessTake \/ ProcessCopy
    BY <1>2, <2>1, <2>4, LookMovesOn
  <2>5. CASE frameEndCb
    <3>1. filling \in {"clear", "spoilt"}
      BY <2>5 DEF frameEndCb, CameraTypeOK, Capture
    <3> QED
      BY <1>2, <2>1, <2>3, <2>5, <3>1, LookCaptures
  <2>6. CASE CameraTick
    BY <1>2, <2>1, <2>6, LookTicks
  <2>7. CASE CameraDispatch
    BY <1>2, <2>1, <2>7, LookDispatches
  <2>8. ~Look /\ ~Judge
    BY <1>2 DEF Look, Judge
  <2> QED
    BY <2>2, <2>3, <2>4, <2>5, <2>6, <2>7, <2>8
    DEF CameraNext, CaptureThread, ProcessThread
<1> QED
  BY <1>1, <1>2

(* What the scan finds is what it looked at, if that looks the same on all *)
(* images of the look: for every length of the average, whatever was left  *)
(* of another look, of a sleep or of a capture when it began.  It takes a  *)
(* capture that ends when its end is waited for, which the code leaves to  *)
(* the camera's speed, and a look as long as EnoughFrames says.            *)
THEOREM VerdictsHold ==
  ASSUME EndsBeforeWait = FALSE
  PROVE  CameraSpec => []VerdictOfThisLook
<1>1. CameraInit => PauseInv /\ LookInv /\ VerdictOfThisLook
  BY DEF CameraInit, CameraStarts, PauseInv, LookInv, VerdictOfThisLook
<1>2. CameraTypeOK /\ ReadyInv /\ PauseInv /\ [CameraNext]_cameraVars => PauseInv'
  BY PauseStep
<1>3. /\ CameraTypeOK /\ CameraTypeOK' /\ ReadyInv /\ ReadyInv' /\ PauseInv /\ PauseInv'
      /\ LookInv /\ [CameraNext]_cameraVars
      => LookInv'
  BY LookStep
<1>4. /\ CameraTypeOK /\ ReadyInv /\ AverageInv /\ LookInv /\ VerdictOfThisLook
      /\ [CameraNext]_cameraVars
      => VerdictOfThisLook'
  <2> SUFFICES ASSUME CameraTypeOK, ReadyInv, AverageInv, LookInv, VerdictOfThisLook,
                      [CameraNext]_cameraVars, look' = NotLooking
               PROVE  verdict' = object'
    BY DEF VerdictOfThisLook
  <2>1. CASE Judge
    <3>1. look = 0 /\ running = Nobody /\ verdict' = line_detection /\ object' = object
      BY <2>1 DEF Judge
    <3>2. line_detection = Majority(previous_line)
      BY <3>1, Moves DEF ReadyInv, AverageInv
    <3>3. PICK k \in 0 .. Enough : Good(k) /\ OnTime(k)
      BY <3>1 DEF LookInv, NotLooking
    <3>4. ~(k < Enough)
      <4>1. ~Waking
        <5>1. \A f, s \in Nat : ~(0 > s + f)
          OBVIOUS
        <5>2. Frames(Enough) \in Nat
          BY FramesTyped, EnoughTyped, Times
        <5> QED
          BY <3>1, <3>3, <5>1, <5>2, Numbers, Zenon DEF OnTime
      <4> QED
        BY <3>1, <3>3, <4>1 DEF OnTime
    <3>5. k = Enough
      BY <3>4, Numbers
    <3>6. /\ circular_buffer \in Places /\ object \in Image
          /\ previous_line \in [Places -> Image]
      BY DEF CameraTypeOK, Places
    <3>7. Majority(previous_line) = object
      BY <3>3, <3>5, <3>6, MajorityIsIt DEF Good
    <3> QED
      BY <3>1, <3>2, <3>7
  <2>2. CASE ~Judge
    <3>1. UNCHANGED <<verdict, object, look>>
      <4>1. CASE Look
        BY <4>1, Times DEF Look, NotLooking
      <4>2. CASE CameraTick
        <5>1. look' = look
          BY <4>2, Times DEF CameraTick, CameraTypeOK, NotLooking
        <5> QED
          BY <4>2, <5>1 DEF CameraTick
      <4>3. CASE ~Look /\ ~CameraTick
        BY <2>2, <4>3, Zenon DEF CameraNext, CaptureThread, ProcessThread, CaptureTop,
           dcmi_capture_start, wait_image_ready, CaptureSignal, CaptureTimer, frameEndCb,
           ProcessTop, ProcessTake, ProcessCopy, ProcessAverage, ProcessTimer,
           CameraDispatch, cameraVars, scanVars
      <4> QED
        BY <4>1, <4>2, <4>3
    <3> QED
      BY <3>1 DEF VerdictOfThisLook
  <2> QED
    BY <2>1, <2>2
<1> QED
  BY <1>1, <1>2, <1>3, <1>4, CameraTyped, TurnsKept, AverageKept, PTL DEF CameraSpec

-----------------------------------------------------------------------------
(* Module LineDetection.                                                   *)

EndPositions == WIDTH_SLOPE .. IMAGE_BUFFER_SIZE - 1

(* No rise stands between the begin and position p. *)
NoRise(b, p) == \A c \in EndPositions : b < c /\ c < p => ~Rises(c)

(* The lines that are not yet found begin at p or further on, those apart  *)
(* that what lies before the image may end.                                *)
Ahead(p) ==
  \A b \in BeginPositions, e \in Positions : Line(b, e) /\ b >= WIDTH_SLOPE - 1 => b >= p

LineTyped ==
  /\ pc \in {"mean", "begin", "end", "done"}
  /\ counter \in 0 .. IMAGE_BUFFER_SIZE
  /\ begin \in Positions /\ end \in Positions
  /\ stop \in BOOLEAN /\ detect_line_color \in BOOLEAN

AtStart ==
  pc = "mean" => counter = 0 /\ begin = 0 /\ end = 0 /\ ~stop /\ ~detect_line_color

InBegin ==
  pc = "begin" =>
    /\ end = 0 /\ ~detect_line_color
    /\ stop => begin = counter - 1 /\ begin \in BeginPositions /\ Falls(begin)
               /\ Ahead(begin)
    /\ ~stop => begin = 0 /\ Ahead(counter)

InEnd ==
  pc = "end" =>
    /\ ~detect_line_color
    /\ begin \in BeginPositions /\ begin # 0 /\ begin < counter
    /\ Falls(begin) /\ Ahead(begin)
    /\ ~stop => end = 0 /\ NoRise(begin, counter)
    /\ stop => /\ end = counter - 1 /\ begin < end /\ NoRise(begin, end)
               /\ end >= WIDTH_SLOPE => Rises(end)

LineInv ==
  LineTyped /\ AtStart /\ InBegin /\ InEnd /\ SeesOnlyLines /\ SeesEveryLine

(* What the sizes are.                                                     *)
LEMMA Sizes ==
  /\ IMAGE_BUFFER_SIZE \in Nat /\ WIDTH_SLOPE \in Nat /\ LINE_WIDTH_MIN \in Nat
  /\ 0 < WIDTH_SLOPE /\ WIDTH_SLOPE < LINE_WIDTH_MIN /\ WIDTH_SLOPE < IMAGE_BUFFER_SIZE
  BY SizeAssumption

(* Nothing is behind the start of the image. *)
LEMMA AllAhead == \A p : p = 0 => Ahead(p)
  BY Sizes DEF Ahead, BeginPositions

(* A line that begins at p falls there. *)
LEMMA NextAhead ==
  ASSUME NEW p \in BeginPositions, Ahead(p), ~Falls(p)
  PROVE  Ahead(p + 1)
  <1> SUFFICES ASSUME NEW b \in BeginPositions, NEW e \in Positions,
                      Line(b, e), b >= WIDTH_SLOPE - 1
               PROVE  b >= p + 1
    BY DEF Ahead
  <1>1. b >= p /\ b # p
    BY DEF Ahead, Line
  <1> QED
    BY <1>1, Sizes DEF BeginPositions

(* No line begins at the last position or behind it: it would not fit.     *)
LEMMA NoneAtTheEnd ==
  ASSUME NEW p \in Nat, p >= IMAGE_BUFFER_SIZE - WIDTH_SLOPE - 1, Ahead(p),
         NEW b \in BeginPositions, NEW e \in Positions, Line(b, e)
  PROVE  b < WIDTH_SLOPE - 1
  <1> SUFFICES ASSUME b >= WIDTH_SLOPE - 1 PROVE FALSE
    BY Sizes DEF BeginPositions
  <1>1. b >= p
    BY DEF Ahead
  <1>2. e - b >= LINE_WIDTH_MIN
    BY DEF Line
  <1> QED
    BY <1>1, <1>2, Sizes DEF BeginPositions, Positions

(* No line begins behind the last rise.                                    *)
LEMMA NoneWithoutRise ==
  ASSUME NEW p \in BeginPositions, Ahead(p), NoRise(p, IMAGE_BUFFER_SIZE),
         NEW b \in BeginPositions, NEW e \in Positions, Line(b, e)
  PROVE  b < WIDTH_SLOPE - 1
  <1> SUFFICES ASSUME b >= WIDTH_SLOPE - 1 PROVE FALSE
    BY Sizes DEF BeginPositions
  <1>1. b >= p
    BY DEF Ahead
  <1>2. e \in EndPositions /\ Rises(e) /\ e - b >= LINE_WIDTH_MIN
    BY DEF Line, EndPositions
  <1>3. p < e /\ e < IMAGE_BUFFER_SIZE
    BY <1>1, <1>2, Sizes DEF BeginPositions, Positions
  <1> QED
    BY <1>2, <1>3 DEF NoRise

(* From a begin to an end that is too near, no line begins: its own end    *)
(* would be further on than the one found.                                 *)
LEMMA NoneSkipped ==
  ASSUME NEW p \in BeginPositions, NEW q \in Positions, Ahead(p),
         q - p < LINE_WIDTH_MIN, q >= WIDTH_SLOPE => Rises(q)
  PROVE  Ahead(q)
  <1> SUFFICES ASSUME NEW b \in BeginPositions, NEW e \in Positions,
                      Line(b, e), b >= WIDTH_SLOPE - 1, b < q
               PROVE  FALSE
    BY Sizes DEF Ahead, BeginPositions, Positions
  <1>1. b >= p
    BY DEF Ahead
  <1>2. e - b >= LINE_WIDTH_MIN /\ \A c \in EndPositions : b < c /\ c < e => ~Rises(c)
    BY DEF Line, EndPositions
  <1>3. q \in EndPositions /\ q < e
    BY <1>1, <1>2, Sizes DEF BeginPositions, Positions, EndPositions
  <1>4. Rises(q)
    BY <1>3, Sizes DEF EndPositions, Positions
  <1> QED
    BY <1>2, <1>3, <1>4

(* A fall, the first rise behind it and the width between make a line.     *)
LEMMA LineFound ==
  ASSUME NEW p \in BeginPositions, NEW q \in Positions, Falls(p),
         q >= WIDTH_SLOPE => Rises(q), NoRise(p, q), ~(q - p < LINE_WIDTH_MIN)
  PROVE  Line(p, q)
  <1>1. q \in EndPositions /\ q - p >= LINE_WIDTH_MIN
    BY Sizes DEF BeginPositions, Positions, EndPositions
  <1>2. Rises(q)
    BY <1>1, Sizes DEF EndPositions, Positions
  <1> QED
    BY <1>1, <1>2 DEF Line, NoRise, EndPositions

(* All this is about the image, which no search changes.                   *)
LEMMA SameImage ==
  ASSUME UNCHANGED <<image, mean>>
  PROVE  /\ \A p : Falls(p)' <=> Falls(p)
         /\ \A p : Rises(p)' <=> Rises(p)
         /\ \A b, e : Line(b, e)' <=> Line(b, e)
         /\ \A p : Ahead(p)' <=> Ahead(p)
         /\ \A b, p : NoRise(b, p)' <=> NoRise(b, p)
  <1>1. \A p : Bright(p)' <=> Bright(p)
    BY DEF Bright
  <1>2. \A p : Dark(p)' <=> Dark(p)
    BY DEF Dark
  <1>3. \A p : Falls(p)' <=> Falls(p)
    BY <1>1, <1>2 DEF Falls
  <1>4. \A p : Rises(p)' <=> Rises(p)
    BY <1>1, <1>2 DEF Rises
  <1>5. \A b, e : Line(b, e)' <=> Line(b, e)
    BY <1>3, <1>4 DEF Line
  <1>6. \A p : Ahead(p)' <=> Ahead(p)
    BY <1>5 DEF Ahead
  <1>7. \A b, p : NoRise(b, p)' <=> NoRise(b, p)
    BY <1>4 DEF NoRise
  <1> QED
    BY <1>3, <1>4, <1>5, <1>6, <1>7

(* The search starts with nothing found.                                   *)
LEMMA LineStarts == LineInit => LineInv
  <1> SUFFICES ASSUME LineInit PROVE LineInv
    OBVIOUS
  <1> USE DEF LineInit, LineInitOn
  <1>1. LineTyped
    <2>1. 0 \in 0 .. IMAGE_BUFFER_SIZE /\ 0 \in Positions
      BY Sizes DEF Positions
    <2> QED
      BY <2>1 DEF LineTyped
  <1>2. AtStart /\ InBegin /\ InEnd /\ SeesOnlyLines /\ SeesEveryLine
    BY DEF AtStart, InBegin, InEnd, SeesOnlyLines, SeesEveryLine
  <1> QED
    BY <1>1, <1>2 DEF LineInv

(* The mean is computed, and nothing has been passed by yet.               *)
LEMMA AverageKeeps == LineInv /\ average => LineInv'
  <1> SUFFICES ASSUME LineInv, average PROVE LineInv'
    OBVIOUS
  <1> USE DEF average
  <1>1. LineTyped'
    BY DEF LineInv, LineTyped
  <1>2. InBegin'
    <2>1. (\A p : p = 0 => Ahead(p))'
      BY AllAhead, PTL
    <2>2. counter' = 0 /\ begin' = 0 /\ end' = 0 /\ ~stop' /\ ~detect_line_color'
      BY DEF LineInv, AtStart
    <2> QED
      BY <2>1, <2>2 DEF InBegin
  <1>3. AtStart' /\ InEnd' /\ SeesOnlyLines' /\ SeesEveryLine'
    BY DEF AtStart, InEnd, SeesOnlyLines, SeesEveryLine
  <1> QED
    BY <1>1, <1>2, <1>3 DEF LineInv

(* A position is tried for the begin.                                      *)
LEMMA SearchBeginKeeps == LineInv /\ search_begin => LineInv'
  <1> SUFFICES ASSUME LineInv, search_begin PROVE LineInv'
    OBVIOUS
  <1> USE DEF search_begin
  <1>0. /\ counter \in BeginPositions /\ begin = 0 /\ end = 0 /\ Ahead(counter)
        /\ ~detect_line_color
    BY DEF LineInv, InBegin
  <1>1. counter \in Positions /\ counter + 1 \in 0 .. IMAGE_BUFFER_SIZE
    BY <1>0, Sizes DEF BeginPositions, Positions
  <1>2. LineTyped'
    <2>1. stop' \in BOOLEAN
      BY DEF Falls
    <2>2. begin' \in Positions
      BY <1>1 DEF LineInv, LineTyped
    <2> QED
      BY <1>1, <2>1, <2>2 DEF LineInv, LineTyped
  <1>3. InBegin'
    <2>1. CASE Falls(counter)
      <3>1. stop' /\ begin' = counter /\ begin' = counter' - 1
        BY <2>1, <1>1 DEF Positions
      <3>2. Falls(begin)' /\ Ahead(begin)'
        BY <3>1, <2>1, <1>0 DEF Ahead, Line, Rises, Falls, Bright, Dark
      <3> QED
        BY <3>1, <3>2, <1>0 DEF InBegin
    <2>2. CASE ~Falls(counter)
      <3>1. Ahead(counter + 1)
        BY <2>2, <1>0, NextAhead
      <3>2. Ahead(counter)'
        BY <3>1 DEF Ahead, Line, Rises, Falls, Bright, Dark
      <3> QED
        BY <2>2, <3>2, <1>0 DEF InBegin
    <2> QED
      BY <2>1, <2>2
  <1>4. AtStart' /\ InEnd' /\ SeesOnlyLines' /\ SeesEveryLine'
    BY DEF AtStart, InEnd, SeesOnlyLines, SeesEveryLine
  <1> QED
    BY <1>2, <1>3, <1>4 DEF LineInv

(* The loop is left with a begin, without one, or at the very last one.    *)
LEMMA BeginSearchedKeeps == LineInv /\ begin_searched => LineInv'
  <1> SUFFICES ASSUME LineInv, begin_searched PROVE LineInv'
    OBVIOUS
  <1> USE DEF begin_searched, not_found
  <1>0. /\ counter \in 0 .. IMAGE_BUFFER_SIZE /\ begin \in Positions /\ end = 0
        /\ ~detect_line_color /\ stop \in BOOLEAN
    BY DEF LineInv, InBegin, LineTyped
  <1>1. CASE counter \in BeginPositions /\ begin # 0
    <2>1. stop /\ begin = counter - 1 /\ begin \in BeginPositions /\ Falls(begin)
          /\ Ahead(begin)
      BY <1>1 DEF LineInv, InBegin
    <2>2. NoRise(begin, counter)
      BY <2>1, <1>0 DEF NoRise, EndPositions, BeginPositions
    <2>3. /\ Falls(begin)' /\ Ahead(begin)' /\ NoRise(begin, counter)'
      BY <2>1, <2>2 DEF Ahead, NoRise, Line, Rises, Falls, Bright, Dark
    <2>4. InEnd'
      BY <1>0, <1>1, <2>1, <2>3 DEF InEnd, BeginPositions
    <2>5. LineTyped'
      BY <1>0, <1>1 DEF LineInv, LineTyped
    <2>6. AtStart' /\ InBegin' /\ SeesOnlyLines' /\ SeesEveryLine'
      BY <1>1 DEF AtStart, InBegin, SeesOnlyLines, SeesEveryLine
    <2> QED
      BY <2>4, <2>5, <2>6 DEF LineInv
  <1>2. CASE ~(counter \in BeginPositions /\ begin # 0)
    <2>1. pc' = "done" /\ ~detect_line_color'
      BY <1>0, <1>2
    <2>2. FallsAtOnce \/ \A b \in BeginPositions, e \in Positions :
                           Line(b, e) => b < WIDTH_SLOPE - 1
      <3>1. CASE stop /\ begin = 0
        BY <3>1 DEF LineInv, InBegin, FallsAtOnce
      <3>2. CASE stop /\ begin # 0
        <4>1. begin = counter - 1 /\ begin \in BeginPositions /\ Ahead(begin)
          BY <3>2 DEF LineInv, InBegin
        <4>2. begin \in Nat /\ begin >= IMAGE_BUFFER_SIZE - WIDTH_SLOPE - 1
          BY <4>1, <3>2, <1>2, <1>0, Sizes DEF BeginPositions
        <4> QED
          BY <4>1, <4>2, NoneAtTheEnd
      <3>3. CASE ~stop
        <4>1. Ahead(counter)
          BY <3>3 DEF LineInv, InBegin
        <4>2. counter \in Nat /\ counter >= IMAGE_BUFFER_SIZE - WIDTH_SLOPE - 1
          BY <3>3, <1>0, Sizes DEF BeginPositions
        <4> QED
          BY <4>1, <4>2, NoneAtTheEnd
      <3> QED
        BY <3>1, <3>2, <3>3
    <2>3. SeesEveryLine'
      BY <2>2 DEF SeesEveryLine, FallsAtOnce, Line, Rises, Falls, Bright, Dark
    <2>4. LineTyped'
      BY <1>0, <1>2 DEF LineInv, LineTyped
    <2>5. AtStart' /\ InBegin' /\ InEnd' /\ SeesOnlyLines'
      BY <2>1 DEF AtStart, InBegin, InEnd, SeesOnlyLines
    <2> QED
      BY <2>3, <2>4, <2>5 DEF LineInv
  <1> QED
    BY <1>1, <1>2

(* A position is tried for the end.                                        *)
LEMMA SearchEndKeeps == LineInv /\ search_end => LineInv'
  <1> SUFFICES ASSUME LineInv, search_end PROVE LineInv'
    OBVIOUS
  <1> USE DEF search_end
  <1>0. /\ ~detect_line_color /\ end = 0
        /\ begin \in BeginPositions /\ begin # 0 /\ begin < counter
        /\ Falls(begin) /\ Ahead(begin) /\ NoRise(begin, counter)
        /\ counter \in Positions
    BY DEF LineInv, InEnd
  <1>1. counter + 1 \in 0 .. IMAGE_BUFFER_SIZE /\ counter \in Int /\ begin \in Int
    BY <1>0, Sizes DEF Positions, BeginPositions
  <1>2. stop' \in BOOLEAN
    <2>1. stop' = FALSE \/ stop' = Bright(counter) \/ stop' = Rises(counter)
      BY DEF IsEnd
    <2>2. CASE stop' = Bright(counter)
      BY <2>2 DEF Bright
    <2>3. CASE stop' = Rises(counter)
      BY <2>3 DEF Rises
    <2> QED
      BY <2>1, <2>2, <2>3
  <1>3. LineTyped'
    <2>1. end' \in Positions
      BY <1>0 DEF LineInv, LineTyped
    <2> QED
      BY <1>0, <1>1, <1>2, <2>1 DEF LineInv, LineTyped
  <1>4. Falls(begin)' /\ Ahead(begin)'
    BY <1>0 DEF Ahead, Line, Rises, Falls, Bright, Dark
  <1>5. counter >= WIDTH_SLOPE => (stop' <=> Rises(counter))
    BY <1>2 DEF IsEnd, Rises, Bright, Dark
  <1>6. InEnd'
    <2>1. CASE stop'
      <3>1. end' = counter /\ end' = counter' - 1
        BY <2>1, <1>1
      <3>2. NoRise(begin, end)'
        BY <3>1, <1>0 DEF NoRise, Rises, Bright, Dark
      <3>3. (end >= WIDTH_SLOPE => Rises(end))'
        BY <3>1, <2>1, <1>5 DEF Rises, Bright, Dark
      <3> QED
        BY <2>1, <3>1, <3>2, <3>3, <1>0, <1>1, <1>4 DEF InEnd
    <2>2. CASE ~stop'
      <3>1. \A c \in EndPositions : begin < c /\ c < counter + 1 => ~Rises(c)
        BY <2>2, <1>0, <1>1, <1>5, Sizes DEF NoRise, EndPositions
      <3>2. NoRise(begin, counter)'
        BY <3>1 DEF NoRise, Rises, Bright, Dark
      <3> QED
        BY <2>2, <3>2, <1>0, <1>1, <1>4 DEF InEnd
    <2> QED
      BY <2>1, <2>2
  <1>7. AtStart' /\ InBegin' /\ SeesOnlyLines' /\ SeesEveryLine'
    BY DEF AtStart, InBegin, SeesOnlyLines, SeesEveryLine
  <1> QED
    BY <1>3, <1>6, <1>7 DEF LineInv

(* The loop is left without an end, with one too near, or with a line.     *)
LEMMA EndSearchedKeeps == LineInv /\ end_searched => LineInv'
  <1> SUFFICES ASSUME LineInv, end_searched PROVE LineInv'
    OBVIOUS
  <1> USE DEF end_searched
  <1>0. /\ ~detect_line_color /\ end \in Positions
        /\ begin \in BeginPositions /\ begin # 0 /\ begin < counter
        /\ Falls(begin) /\ Ahead(begin)
        /\ ~stop => end = 0 /\ NoRise(begin, counter)
        /\ stop => end = counter - 1 /\ begin < end /\ NoRise(begin, end)
                   /\ (end >= WIDTH_SLOPE => Rises(end))
    BY DEF LineInv, InEnd, LineTyped
  <1>1. begin \in Int /\ end \in Int /\ counter \in Int
    BY <1>0, Sizes DEF Positions, BeginPositions, LineInv, LineTyped
  <1>2. CASE end = 0 /\ not_found
    <2>1. ~stop /\ counter = IMAGE_BUFFER_SIZE
      BY <1>0, <1>1, <1>2, Sizes DEF Positions, BeginPositions, LineInv, LineTyped
    <2>2. \A b \in BeginPositions, e \in Positions : Line(b, e) => b < WIDTH_SLOPE - 1
      BY <2>1, <1>0, NoneWithoutRise
    <2>3. pc' = "done" /\ ~detect_line_color' /\ UNCHANGED <<counter, begin, end, stop>>
      BY <1>0, <1>2 DEF not_found
    <2>4. SeesEveryLine'
      BY <2>2 DEF SeesEveryLine, Line, Rises, Falls, Bright, Dark
    <2>5. LineTyped'
      BY <1>2 DEF not_found, LineInv, LineTyped
    <2>6. AtStart' /\ InBegin' /\ InEnd' /\ SeesOnlyLines'
      BY <2>3 DEF AtStart, InBegin, InEnd, SeesOnlyLines
    <2> QED
      BY <2>4, <2>5, <2>6 DEF LineInv
  <1>3. CASE end # 0 /\ TooSmall /\ search_on
    <2>1. Ahead(end)
      BY <1>0, <1>3, NoneSkipped DEF TooSmall
    <2>2. /\ counter' = end /\ begin' = 0 /\ end' = 0 /\ stop' = FALSE
          /\ pc' = "begin" /\ ~detect_line_color'
      BY <1>0, <1>3 DEF search_on
    <2>3. Ahead(counter)'
      BY <2>1, <2>2 DEF Ahead, Line, Rises, Falls, Bright, Dark
    <2>4. LineTyped'
      <3>1. 0 \in Positions /\ end \in 0 .. IMAGE_BUFFER_SIZE
        BY <1>0, Sizes DEF Positions
      <3>2. detect_line_color' \in BOOLEAN
        BY <1>3 DEF search_on, LineInv, LineTyped
      <3> QED
        BY <2>2, <3>1, <3>2 DEF LineTyped
    <2>5. InBegin'
      BY <2>2, <2>3 DEF InBegin
    <2>6. AtStart' /\ InEnd' /\ SeesOnlyLines' /\ SeesEveryLine'
      BY <2>2 DEF AtStart, InEnd, SeesOnlyLines, SeesEveryLine
    <2> QED
      BY <2>4, <2>5, <2>6 DEF LineInv
  <1>4. CASE /\ end # 0 /\ ~TooSmall /\ detect_line_color' = TRUE /\ pc' = "done"
             /\ UNCHANGED <<counter, begin, end, stop>>
    <2>1. stop
      BY <1>0, <1>4
    <2>2. Line(begin, end)
      BY <2>1, <1>0, <1>4, LineFound DEF TooSmall
    <2>3. \E b \in BeginPositions, e \in Positions : Line(b, e)
      BY <2>2, <1>0
    <2>4. SeesOnlyLines'
      BY <2>3 DEF SeesOnlyLines, Line, Rises, Falls, Bright, Dark
    <2>5. LineTyped'
      BY <1>4 DEF LineInv, LineTyped
    <2>6. AtStart' /\ InBegin' /\ InEnd' /\ SeesEveryLine'
      BY <1>4 DEF AtStart, InBegin, InEnd, SeesEveryLine
    <2> QED
      BY <2>4, <2>5, <2>6 DEF LineInv
  <1> QED
    BY <1>2, <1>3, <1>4

(* A step of something else changes nothing of it.                         *)
LEMMA LineStutters == LineInv /\ UNCHANGED lineVars => LineInv'
  BY DEF lineVars, LineInv, LineTyped, AtStart, InBegin, InEnd, SeesOnlyLines,
         SeesEveryLine, FallsAtOnce, Ahead, NoRise, Line, Rises, Falls, Bright, Dark

(* Where each loop of detection_line stands, and what it has passed by.    *)
THEOREM LineInvariant == LineSpec => []LineInv
  <1>1. LineInv /\ [LineNext]_lineVars => LineInv'
    BY AverageKeeps, SearchBeginKeeps, BeginSearchedKeeps, SearchEndKeeps,
       EndSearchedKeeps, LineStutters DEF LineNext
  <1> QED
    BY LineStarts, <1>1, PTL DEF LineSpec

(* Of every image: what detection_line calls a line is one.                *)
THEOREM OnlyLines == LineSpec => []SeesOnlyLines
  <1>1. LineInv => SeesOnlyLines
    BY DEF LineInv
  <1> QED
    BY LineInvariant, <1>1, PTL

(* Of every image that does not fall at its first pixel: detection_line    *)
(* misses no line but one that begins before WIDTH_SLOPE - 1.              *)
THEOREM EveryLine == LineSpec => []SeesEveryLine
  <1>1. LineInv => SeesEveryLine
    BY DEF LineInv
  <1> QED
    BY LineInvariant, <1>1, PTL

-----------------------------------------------------------------------------
(* The mean is a number: the sum of the pixels, a fold over the positions, *)
(* exists and is natural.  The library's induction theorems take an        *)
(* operator; this one takes a set.                                         *)
LEMMA Counting ==
  ASSUME NEW T \in SUBSET Nat, 0 \in T, \A n \in T : n + 1 \in T
  PROVE  T = Nat
<1> SUFFICES ASSUME Nat \ T # {} PROVE FALSE
  OBVIOUS
<1> DEFINE R == {p \in Nat \X Nat : p[1] < p[2]}
<1>1. IsWellFoundedOn(R, Nat)
  <2>1. OpToRel(<, Nat) = R
    BY DEF OpToRel
  <2> QED
    BY <2>1, NatLessThanWellFounded
<1> HIDE DEF R
<1>2. PICK x \in Nat \ T : \A y \in Nat \ T : ~(<<y, x>> \in R)
  BY <1>1, WFMin, Nat \ T \in SUBSET Nat
<1>3. x - 1 \in Nat /\ x - 1 < x
  BY SMT
<1>4. <<x - 1, x>> \in R
  BY <1>3 DEF R
<1>5. x - 1 \in T
  BY <1>2, <1>3, <1>4
<1> QED
  BY <1>3, <1>5, SMT

(* What a fold adds up at s, if it adds up g at what is smaller.           *)
Summand(f, g, s) ==
  IF s = {} THEN 0 ELSE LET x == CHOOSE y \in s : TRUE IN f[x] + g[s \ {x}]

Summing(f, S) == CHOOSE g : g = [s \in SUBSET S |-> Summand(f, g, s)]

LEMMA FoldIs ==
  ASSUME NEW S, NEW f \in [S -> Nat]
  PROVE  FoldFunction(+, 0, f) = Summing(f, S)[S]
<1>1. DOMAIN f = S
  OBVIOUS
<1> QED
  BY <1>1 DEF FoldFunction, FoldFunctionOnSet, MapThenFoldSet, Summing, Summand

(* The parts of S with no more than n elements. *)
PartsUpTo(S, n) == {s \in SUBSET S : Cardinality(s) <= n}

LEMMA PartsAreSmaller ==
  ASSUME NEW S, IsFiniteSet(S)
  PROVE  /\ PartsUpTo(S, 0) = {{}}
         /\ PartsUpTo(S, Cardinality(S)) = SUBSET S
         /\ \A n \in Nat : \A s \in PartsUpTo(S, n + 1) : \A x \in s : s \ {x} \in PartsUpTo(S, n)
         /\ \A n \in Nat : PartsUpTo(S, n) \subseteq PartsUpTo(S, n + 1)
<1>1. \A s \in SUBSET S : IsFiniteSet(s) /\ Cardinality(s) \in Nat
                          /\ Cardinality(s) <= Cardinality(S)
  BY FS_Subset, FS_CardinalityType
<1>2. \A s \in SUBSET S : Cardinality(s) <= 0 => s = {}
  BY <1>1, FS_EmptySet, SMT
<1>3. PartsUpTo(S, 0) = {{}}
  BY <1>2, FS_EmptySet, SMT DEF PartsUpTo
<1>4. ASSUME NEW n \in Nat, NEW s \in PartsUpTo(S, n + 1), NEW x \in s
      PROVE  s \ {x} \in PartsUpTo(S, n)
  <2>1. s \in SUBSET S /\ Cardinality(s) <= n + 1
    BY DEF PartsUpTo
  <2>2. Cardinality(s \ {x}) = Cardinality(s) - 1
    BY <1>1, <2>1, FS_RemoveElement
  <2>3. Cardinality(s \ {x}) <= n
    BY <1>1, <2>1, <2>2, SMT
  <2> QED
    BY <2>1, <2>3 DEF PartsUpTo
<1>5. \A n \in Nat : PartsUpTo(S, n) \subseteq PartsUpTo(S, n + 1)
  BY <1>1, SMT DEF PartsUpTo
<1> QED
  BY <1>1, <1>3, <1>4, <1>5 DEF PartsUpTo

(* A summand is a number. *)
LEMMA SummandTyped ==
  ASSUME NEW S, NEW f \in [S -> Nat], IsFiniteSet(S), NEW n \in Nat,
         NEW g, \A s \in PartsUpTo(S, n) : g[s] \in Nat, NEW s \in PartsUpTo(S, n + 1)
  PROVE  Summand(f, g, s) \in Nat
<1>1. CASE s = {}
  BY <1>1 DEF Summand
<1>2. CASE s # {}
  <2> DEFINE x == CHOOSE y \in s : TRUE
  <2>1. x \in s /\ s \in SUBSET S
    BY <1>2 DEF PartsUpTo
  <2> HIDE DEF x
  <2>2. s \ {x} \in PartsUpTo(S, n)
    BY <2>1, PartsAreSmaller
  <2>3. f[x] \in Nat /\ g[s \ {x}] \in Nat
    BY <2>1, <2>2
  <2>4. Summand(f, g, s) = f[x] + g[s \ {x}]
    BY <1>2 DEF Summand, x
  <2> QED
    BY <2>3, <2>4, SMT
<1> QED
  BY <1>1, <1>2

(* A summand depends on what is smaller. *)
LEMMA SummandSame ==
  ASSUME NEW S, NEW f, IsFiniteSet(S), NEW n \in Nat,
         NEW g, NEW h, \A s \in PartsUpTo(S, n) : g[s] = h[s], NEW s \in PartsUpTo(S, n + 1)
  PROVE  Summand(f, g, s) = Summand(f, h, s)
<1>1. CASE s = {}
  BY <1>1 DEF Summand
<1>2. CASE s # {}
  <2> DEFINE x == CHOOSE y \in s : TRUE
  <2>1. x \in s
    BY <1>2
  <2> HIDE DEF x
  <2>2. s \ {x} \in PartsUpTo(S, n)
    BY <2>1, PartsAreSmaller
  <2>3. g[s \ {x}] = h[s \ {x}]
    BY <2>2
  <2>4. Summand(f, g, s) = f[x] + g[s \ {x}] /\ Summand(f, h, s) = f[x] + h[s \ {x}]
    BY <1>2 DEF Summand, x
  <2> QED
    BY <2>3, <2>4
<1> QED
  BY <1>1, <1>2

(* There is a function that adds up.                                       *)
LEMMA SumsExist ==
  ASSUME NEW S, NEW f \in [S -> Nat], IsFiniteSet(S)
  PROVE  \E g : g = [s \in SUBSET S |-> Summand(f, g, s)]
<1> DEFINE N == {n \in Nat : \E g \in [PartsUpTo(S, n) -> Nat] :
                               \A s \in PartsUpTo(S, n) : g[s] = Summand(f, g, s)}
<1>1. 0 \in N
  <2> DEFINE g == [s \in PartsUpTo(S, 0) |-> 0]
  <2>1. \A s \in PartsUpTo(S, 0) : g[s] = Summand(f, g, s)
    BY PartsAreSmaller DEF Summand
  <2>2. g \in [PartsUpTo(S, 0) -> Nat]
    OBVIOUS
  <2> QED
    BY <2>1, <2>2
<1>2. ASSUME NEW n \in N PROVE n + 1 \in N
  <2>1. n \in Nat
    OBVIOUS
  <2>2. PICK g \in [PartsUpTo(S, n) -> Nat] : \A s \in PartsUpTo(S, n) : g[s] = Summand(f, g, s)
    OBVIOUS
  <2> DEFINE h == [s \in PartsUpTo(S, n + 1) |-> Summand(f, g, s)]
  <2>3. \A s \in PartsUpTo(S, n + 1) : Summand(f, g, s) \in Nat
    BY <2>1, SummandTyped
  <2>4. h \in [PartsUpTo(S, n + 1) -> Nat]
    BY <2>3
  <2>5. \A s \in PartsUpTo(S, n) : h[s] = g[s]
    BY <2>1, <2>2, PartsAreSmaller
  <2>6. \A s \in PartsUpTo(S, n + 1) : h[s] = Summand(f, g, s)
    OBVIOUS
  <2> HIDE DEF h
  <2>7. \A s \in PartsUpTo(S, n + 1) : Summand(f, g, s) = Summand(f, h, s)
    BY <2>1, <2>5, SummandSame
  <2>8. n + 1 \in Nat
    BY <2>1, SMT
  <2> QED
    BY <2>4, <2>6, <2>7, <2>8
<1> HIDE DEF N
<1>3. N = Nat
  <2>1. N \in SUBSET Nat
    BY DEF N
  <2> QED
    BY <1>1, <1>2, <2>1, Counting
<1>4. Cardinality(S) \in N
  BY <1>3, FS_CardinalityType
<1>5. PICK g \in [SUBSET S -> Nat] : \A s \in SUBSET S : g[s] = Summand(f, g, s)
  BY <1>4, PartsAreSmaller DEF N
<1>6. g = [s \in SUBSET S |-> Summand(f, g, s)]
  BY <1>5
<1> QED
  BY <1>6

(* What it adds up is natural. *)
LEMMA SumTyped ==
  ASSUME NEW S, NEW f \in [S -> Nat], IsFiniteSet(S)
  PROVE  FoldFunction(+, 0, f) \in Nat
<1> DEFINE g == Summing(f, S)
<1>1. g = [s \in SUBSET S |-> Summand(f, g, s)]
  BY SumsExist DEF Summing
<1> HIDE DEF g
<1>2. \A s \in SUBSET S : g[s] = Summand(f, g, s)
  BY <1>1
<1> DEFINE N == {n \in Nat : \A s \in PartsUpTo(S, n) : g[s] \in Nat}
<1>3. 0 \in N
  <2>1. {} \in SUBSET S /\ g[{}] = 0
    BY <1>2 DEF Summand
  <2>2. ASSUME NEW s \in PartsUpTo(S, 0) PROVE g[s] \in Nat
    <3>1. s = {}
      BY PartsAreSmaller
    <3> QED
      BY <2>1, <3>1
  <2> QED
    BY <2>2
<1>4. ASSUME NEW n \in N PROVE n + 1 \in N
  <2>1. n \in Nat /\ \A s \in PartsUpTo(S, n) : g[s] \in Nat
    OBVIOUS
  <2>2. \A s \in PartsUpTo(S, n + 1) : Summand(f, g, s) \in Nat
    BY <2>1, SummandTyped
  <2>3. \A s \in PartsUpTo(S, n + 1) : g[s] \in Nat
    BY <1>2, <2>2 DEF PartsUpTo
  <2> QED
    BY <2>1, <2>3
<1> HIDE DEF N
<1>5. N = Nat
  <2>1. N \in SUBSET Nat
    BY DEF N
  <2> QED
    BY <1>3, <1>4, <2>1, Counting
<1>6. Cardinality(S) \in N
  BY <1>5, FS_CardinalityType
<1>7. \A s \in SUBSET S : g[s] \in Nat
  BY <1>6, PartsAreSmaller DEF N
<1> QED
  BY <1>7, FoldIs DEF g

(* The types, when the function is called with an image.                   *)
LEMMA LineTypesStart ==
  ASSUME NEW images \in SUBSET [Positions -> Pixel], LineInitOn(images)
  PROVE  LineTypeOK
<1>1. 0 \in Positions /\ 0 \in 0 .. IMAGE_BUFFER_SIZE
  BY Sizes DEF Positions
<1>2. stop \in BOOLEAN /\ detect_line_color \in BOOLEAN
  BY Zenon DEF LineInitOn
<1>3. image \in [Positions -> Pixel]
  BY DEF LineInitOn
<1> QED
  BY <1>1, <1>2, <1>3 DEF LineInitOn, LineTypeOK

(* Every step keeps the types.                                             *)
LEMMA LineTypesStep == LineTypeOK /\ [LineNext]_lineVars => LineTypeOK'
<1> SUFFICES ASSUME LineTypeOK, [LineNext]_lineVars PROVE LineTypeOK'
  OBVIOUS
<1>0. IMAGE_BUFFER_SIZE \in Nat \ {0} /\ WIDTH_SLOPE \in Nat \ {0}
  BY SizeAssumption
<1>1. CASE average
  <2>1. image \in [Positions -> Nat]
    <3>1. image \in [Positions -> Pixel]
      BY DEF LineTypeOK
    <3>2. Pixel \subseteq Nat
      BY PixelAssumption
    <3> QED
      BY <3>1, <3>2
  <2>2. IsFiniteSet(Positions)
    BY <1>0, FS_Interval, SMT DEF Positions
  <2>3. PICK n \in Nat : n = FoldFunction(+, 0, image)
    BY <2>1, <2>2, SumTyped
  <2>4. n \div IMAGE_BUFFER_SIZE \in Nat
    BY <1>0, SMT
  <2> QED
    BY <1>1, <2>3, <2>4 DEF average, LineTypeOK
<1>2. CASE search_begin
  <2>1. counter \in BeginPositions => counter + 1 \in 0 .. IMAGE_BUFFER_SIZE
                                      /\ counter \in Positions
    BY <1>0, SMT DEF BeginPositions, Positions
  <2>2. Falls(counter) \in BOOLEAN
    BY DEF Falls, Bright, Dark
  <2> QED
    BY <1>2, <2>1, <2>2 DEF search_begin, LineTypeOK
<1>3. CASE begin_searched
  BY <1>3 DEF begin_searched, not_found, LineTypeOK
<1>4. CASE search_end
  <2>1. counter \in Positions => counter + 1 \in 0 .. IMAGE_BUFFER_SIZE
    BY <1>0, SMT DEF Positions
  <2>2. ASSUME counter \in Positions PROVE IsEnd \subseteq BOOLEAN
    <3>1. image[counter] \in Nat /\ mean \in Nat
      <4>1. image[counter] \in Pixel /\ mean \in Nat
        BY <2>2 DEF LineTypeOK
      <4>2. Pixel \subseteq Nat
        BY PixelAssumption
      <4> QED
        BY <4>1, <4>2
    <3>2. Bright(counter) \in BOOLEAN
      BY <3>1, SMT DEF Bright
    <3>3. Rises(counter) \in BOOLEAN
      BY DEF Rises
    <3> QED
      BY <3>2, <3>3 DEF IsEnd
  <2>3. /\ counter \in Positions /\ counter' = counter + 1 /\ stop' \in IsEnd
        /\ end' = IF stop' THEN counter ELSE end
        /\ UNCHANGED <<image, mean, begin, pc, detect_line_color>>
    BY <1>4 DEF search_end
  <2>4. stop' \in BOOLEAN
    BY <2>2, <2>3
  <2>5. end' \in Positions /\ counter' \in 0 .. IMAGE_BUFFER_SIZE
    BY <2>1, <2>3 DEF LineTypeOK
  <2> QED
    BY <2>3, <2>4, <2>5 DEF LineTypeOK
<1>5. CASE end_searched
  <2>1. 0 \in Positions /\ Positions \subseteq 0 .. IMAGE_BUFFER_SIZE
    BY <1>0, SMT DEF Positions
  <2> QED
    BY <1>5, <2>1 DEF end_searched, not_found, search_on, LineTypeOK
<1>6. CASE UNCHANGED lineVars
  BY <1>6 DEF lineVars, LineTypeOK
<1> QED
  BY <1>1, <1>2, <1>3, <1>4, <1>5, <1>6 DEF LineNext

(* The type invariant of the line detection, of its mean too.              *)
THEOREM LineTypes == LineSpec => []LineTypeOK
<1>1. LineInit => LineTypeOK
  BY LineTypesStart DEF LineInit
<1> QED
  BY <1>1, LineTypesStep, PTL DEF LineSpec
=============================================================================
