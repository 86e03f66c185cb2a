--------------------------- MODULE LineDetection ----------------------------
(***************************************************************************)
(* detection_line of process_image.c: the search, on one colour of a row   *)
(* of pixels, for a dark line between two bright ones.  One action is one  *)
(* iteration of one of its loops, or what stands between the loops.        *)
(***************************************************************************)
EXTENDS Integers, Functions

CONSTANTS
  IMAGE_BUFFER_SIZE, WIDTH_SLOPE, LINE_WIDTH_MIN,
  Pixel             (* the values of a pixel *)

ASSUME SizeAssumption ==
  /\ {IMAGE_BUFFER_SIZE, WIDTH_SLOPE, LINE_WIDTH_MIN} \subseteq Nat \ {0}
  /\ WIDTH_SLOPE < LINE_WIDTH_MIN
  /\ WIDTH_SLOPE < IMAGE_BUFFER_SIZE

(* The sum of the pixels stays in a uint16_t: 640 pixels of 5 bits do.     *)
ASSUME PixelAssumption ==
  /\ Pixel \subseteq Nat
  /\ \A p \in Pixel : IMAGE_BUFFER_SIZE * p < 65536

VARIABLES
  image, mean,
  counter, begin, end, stop,
  pc,
  detect_line_color

lineVars == <<image, mean, counter, begin, end, stop, pc, detect_line_color>>

Positions == 0 .. IMAGE_BUFFER_SIZE - 1

(***************************************************************************)
(* The two slopes.                                                         *)
(***************************************************************************)
Bright(c) == image[c] > mean
Dark(c) == image[c] < mean

(* Where the loops look for a begin. *)
BeginPositions == 0 .. IMAGE_BUFFER_SIZE - WIDTH_SLOPE - 1

Falls(c) == Bright(c) /\ Dark(c + WIDTH_SLOPE)

Rises(c) == Bright(c) /\ Dark(c - WIDTH_SLOPE)

(***************************************************************************)
(* The function.                                                           *)
(***************************************************************************)
average ==
  /\ pc = "mean"
  /\ mean' = FoldFunction(+, 0, image) \div IMAGE_BUFFER_SIZE
  /\ pc' = "begin"
  /\ UNCHANGED <<image, counter, begin, end, stop, detect_line_color>>

search_begin ==
  /\ pc = "begin" /\ ~stop /\ counter \in BeginPositions
  /\ counter' = counter + 1
  /\ stop' = Falls(counter)
  /\ begin' = IF Falls(counter) THEN counter ELSE begin
  /\ UNCHANGED <<image, mean, end, pc, detect_line_color>>

not_found == pc' = "done" /\ UNCHANGED detect_line_color

(* The loop is left; begin # 0 stands for "a begin was found".             *)
begin_searched ==
  /\ pc = "begin" /\ (stop \/ counter \notin BeginPositions)
  /\ IF counter \in BeginPositions /\ begin # 0
     THEN pc' = "end" /\ stop' = FALSE /\ UNCHANGED detect_line_color
     ELSE not_found /\ UNCHANGED stop
  /\ UNCHANGED <<image, mean, counter, begin, end>>

(* The first positions after an early begin are compared with what lies    *)
(* in memory before the image, which may be anything.                      *)
IsEnd == IF counter >= WIDTH_SLOPE THEN {Rises(counter)} ELSE {FALSE, Bright(counter)}

search_end ==
  /\ pc = "end" /\ ~stop /\ counter \in Positions
  /\ counter' = counter + 1
  /\ stop' \in IsEnd
  /\ end' = IF stop' THEN counter ELSE end
  /\ UNCHANGED <<image, mean, begin, pc, detect_line_color>>

TooSmall == end - begin < LINE_WIDTH_MIN

(* Seeded fault: the search goes on a line behind the end, not from it. *)
search_on_behind ==
  /\ counter' = end + LINE_WIDTH_MIN
  /\ begin' = 0 /\ end' = 0 /\ stop' = FALSE
  /\ pc' = "begin"
  /\ UNCHANGED detect_line_color

(* A line too small: the search for another one goes on from its end.      *)
search_on ==
  /\ counter' = end
  /\ begin' = 0 /\ end' = 0 /\ stop' = FALSE
  /\ pc' = "begin"
  /\ UNCHANGED detect_line_color

(* Seeded fault: the width is not looked at. *)
end_searched_any_width ==
  /\ pc = "end" /\ (stop \/ counter \notin Positions)
  /\ \/ end = 0 /\ not_found /\ UNCHANGED <<counter, begin, end, stop>>
     \/ end # 0 /\ detect_line_color' = TRUE /\ pc' = "done"
        /\ UNCHANGED <<counter, begin, end, stop>>
  /\ UNCHANGED <<image, mean>>

end_searched ==
  /\ pc = "end" /\ (stop \/ counter \notin Positions)
  /\ \/ end = 0 /\ not_found /\ UNCHANGED <<counter, begin, end, stop>>
     \/ end # 0 /\ TooSmall /\ search_on
     \/ end # 0 /\ ~TooSmall /\ detect_line_color' = TRUE /\ pc' = "done"
        /\ UNCHANGED <<counter, begin, end, stop>>
  /\ UNCHANGED <<image, mean>>

LineInitOn(images) ==
  /\ image \in images /\ mean = 0
  /\ counter = 0 /\ begin = 0 /\ end = 0 /\ stop = FALSE
  /\ pc = "mean" /\ detect_line_color = FALSE

LineInit == LineInitOn([Positions -> Pixel])

LineNext == average \/ search_begin \/ begin_searched \/ search_end \/ end_searched

LineSpec == LineInit /\ [][LineNext]_lineVars

(***************************************************************************)
(* Properties.                                                             *)
(***************************************************************************)
(* The variables have the types of the code, and the image is not read     *)
(* beyond its end.                                                         *)
LineTypeOK ==
  /\ image \in [Positions -> Pixel]
  /\ mean \in Nat
  /\ pc \in {"mean", "begin", "end", "done"}
  /\ counter \in 0 .. IMAGE_BUFFER_SIZE
  /\ begin \in Positions /\ end \in Positions
  /\ stop \in BOOLEAN /\ detect_line_color \in BOOLEAN

(* A line: a fall, and at least LINE_WIDTH_MIN further the first rise.     *)
Line(b, e) ==
  /\ b \in BeginPositions /\ e \in WIDTH_SLOPE .. IMAGE_BUFFER_SIZE - 1
  /\ Falls(b) /\ Rises(e)
  /\ e - b >= LINE_WIDTH_MIN
  /\ \A c \in WIDTH_SLOPE .. IMAGE_BUFFER_SIZE - 1 : b < c /\ c < e => ~Rises(c)

(* No line is seen where there is none: whatever lies before the image, it *)
(* can at most end a line that is then too small.                          *)
SeesOnlyLines ==
  pc = "done" /\ detect_line_color =>
    \E b \in BeginPositions, e \in Positions : Line(b, e)

(* The colour falls at the very first pixel: the code then gives up.       *)
FallsAtOnce == Falls(0)

(* No line is missed, however many that are too small come first, unless   *)
(* the image falls at its first pixel, or the line begins so early that    *)
(* what lies before the image may end it.  That the code also rejects a    *)
(* begin at the last position loses nothing.                               *)
SeesEveryLine ==
  pc = "done" /\ ~detect_line_color =>
    \/ FallsAtOnce
    \/ \A b \in BeginPositions, e \in Positions : Line(b, e) => b < WIDTH_SLOPE - 1

=============================================================================
