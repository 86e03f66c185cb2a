---------------------------- MODULE MelodyPlayer ----------------------------
(***************************************************************************)
(* melody_player.c: the thread that follows the song asked for, and        *)
(* play_melody.c of the library: the thread that plays one song at a time, *)
(* which suspends itself, is resumed with a song, looks at the flag `play` *)
(* between two notes and tells the end of a song on a condition variable.  *)
(* Neither the flag, the song asked for nor the reference of the suspended *)
(* thread is protected by the mutex.                                       *)
(***************************************************************************)
EXTENDS Integers, Peers

CONSTANTS
  Song,       (* the songs there are                *)
  NO_SONG,
  length      (* their numbers of notes             *)

ASSUME MelodyAssumption ==
  /\ NO_SONG \notin Song
  /\ length \in [Song -> Nat \ {0}]

VARIABLES
  music_to_play,     (* melody_player.c's: what main has asked for           *)
  temp,              (* ... and what the player has last acted on            *)
  call,              (* the song of the playMelody under way                 *)
  player_pc,
  play,              (* play_melody.c's: the melody is not to be cut short   *)
  play_melody_ref,   (* the melody thread is suspended, ready to be resumed  *)
  rdymsg,            (* the message of the last chThdResume                  *)
  song, thisNote,
  melody_pc

playerVars == <<temp, call, player_pc>>
melodyVars == <<song, thisNote, melody_pc>>
melodyVarsAll == <<music_to_play, playerVars, play, play_melody_ref, rdymsg, melodyVars,
                   peerVars>>

Music == Song \cup {NO_SONG}
Player == "Melody_player"
Melody == "PlayMelodyThd"

MelodyTypeOK ==
  /\ music_to_play \in Music
  /\ temp \in Music
  /\ call \in Music
  /\ player_pc \in {"switch", "check", "wait", "waiting", "change", "sleep"}
  /\ play \in BOOLEAN
  /\ play_melody_ref \in BOOLEAN
  /\ rdymsg \in Music
  /\ song \in Music
  /\ thisNote \in 0..(IF song = NO_SONG THEN 0 ELSE length[song])
  /\ melody_pc \in {"suspend", "suspended", "next", "note", "end"}
  /\ running \in {Player, Melody, Nobody}
  /\ ready \in Seq({Player, Melody})

(* main creates the melody thread before the player.                       *)
MelodyReady == <<Melody, Player>>

MelodyStarts ==
  /\ music_to_play = NO_SONG
  /\ temp = NO_SONG
  /\ call = NO_SONG
  /\ player_pc = "switch"
  /\ play = TRUE
  /\ play_melody_ref = FALSE
  /\ rdymsg = NO_SONG
  /\ song = NO_SONG
  /\ thisNote = 0
  /\ melody_pc = "suspend"

MelodyInit == MelodyStarts /\ running = Nobody /\ ready = MelodyReady

-----------------------------------------------------------------------------
(* melody_player.c and the functions it calls.                             *)

(* main, a peer of both threads, asks for another song or for none.        *)
set_music_to_play ==
  /\ running = Nobody
  /\ music_to_play' \in Music \ {music_to_play}
  /\ UNCHANGED <<playerVars, play, play_melody_ref, rdymsg, melodyVars, peerVars>>

(* chThdResume does nothing if the thread is not suspended.                *)
ResumeAndSleep(msg) ==
  IF play_melody_ref
  THEN /\ play_melody_ref' = FALSE
       /\ rdymsg' = msg
       /\ BlocksWaking(<<Melody>>)
  ELSE Blocks /\ UNCHANGED <<play_melody_ref, rdymsg>>

PlayerSilences ==
  /\ player_pc = "switch" /\ running = Player
  /\ music_to_play = NO_SONG
  /\ play' = FALSE                                   (* stopCurrentMelody *)
  /\ temp' = NO_SONG
  /\ player_pc' = "sleep"
  /\ Blocks
  /\ UNCHANGED <<music_to_play, call, play_melody_ref, rdymsg, melodyVars>>

(* The song is the same as before: ML_SIMPLE_PLAY.                         *)
PlayerRepeats ==
  /\ player_pc = "switch" /\ running = Player
  /\ music_to_play # NO_SONG /\ music_to_play = temp
  /\ play' = (play \/ play_melody_ref)
  /\ ResumeAndSleep(music_to_play)
  /\ player_pc' = "sleep"
  /\ UNCHANGED <<music_to_play, temp, call, melodyVars>>

(* It is another: ML_FORCE_CHANGE.                                         *)
PlayerForces ==
  /\ player_pc = "switch" /\ running = Player
  /\ music_to_play # NO_SONG /\ music_to_play # temp
  /\ play' = FALSE                                   (* stopCurrentMelody *)
  /\ call' = music_to_play
  /\ player_pc' = "check"
  /\ GoesOn
  /\ UNCHANGED <<music_to_play, temp, play_melody_ref, rdymsg, melodyVars>>

(* Seeded fault: waits whether or not a melody is playing. *)
PlayerChecksNothing ==
  /\ player_pc = "check" /\ running = Player
  /\ player_pc' = "wait"
  /\ GoesOn
  /\ UNCHANGED <<music_to_play, temp, call, play, play_melody_ref, rdymsg, melodyVars>>

(* waitMelodyHasFinished: the test, outside the mutex ...                  *)
PlayerChecks ==
  /\ player_pc = "check" /\ running = Player
  /\ player_pc' = IF play_melody_ref THEN "change" ELSE "wait"
  /\ GoesOn
  /\ UNCHANGED <<music_to_play, temp, call, play, play_melody_ref, rdymsg, melodyVars>>

(* ... and the wait.  Nobody else takes the mutex.                         *)
PlayerWaits ==
  /\ player_pc = "wait" /\ running = Player
  /\ player_pc' = "waiting"
  /\ Blocks
  /\ UNCHANGED <<music_to_play, temp, call, play, play_melody_ref, rdymsg, melodyVars>>

(* Seeded fault: temp is not brought up to date. *)
PlayerForgets ==
  /\ player_pc = "change" /\ running = Player
  /\ play' = TRUE
  /\ ResumeAndSleep(call)
  /\ player_pc' = "sleep"
  /\ UNCHANGED <<music_to_play, temp, call, melodyVars>>

PlayerChanges ==
  /\ player_pc = "change" /\ running = Player
  /\ play' = TRUE
  /\ ResumeAndSleep(call)
  /\ temp' = call
  /\ player_pc' = "sleep"
  /\ UNCHANGED <<music_to_play, call, melodyVars>>

PlayerTimer ==
  /\ player_pc = "sleep"
  /\ player_pc' = "switch"
  /\ Awakens(Player)
  /\ UNCHANGED <<music_to_play, temp, call, play, play_melody_ref, rdymsg, melodyVars>>

-----------------------------------------------------------------------------
(* PlayMelodyThd.                                                          *)

MelodySuspends ==
  /\ melody_pc = "suspend" /\ running = Melody
  /\ play_melody_ref' = TRUE
  /\ melody_pc' = "suspended"
  /\ Blocks
  /\ UNCHANGED <<music_to_play, playerVars, play, rdymsg, song, thisNote>>

MelodyResumed ==
  /\ melody_pc = "suspended" /\ running = Melody
  /\ song' = rdymsg
  /\ thisNote' = 0
  /\ melody_pc' = "next"
  /\ GoesOn
  /\ UNCHANGED <<music_to_play, playerVars, play, play_melody_ref, rdymsg>>

(* Seeded fault: one note too many. *)
MelodyNoteTooMany ==
  /\ melody_pc = "next" /\ running = Melody
  /\ thisNote <= length[song]
  /\ play
  /\ melody_pc' = "note"
  /\ Blocks
  /\ UNCHANGED <<music_to_play, playerVars, play, play_melody_ref, rdymsg, song, thisNote>>

(* A note and the pause after it are two sleeps, between which nothing is  *)
(* looked at.                                                              *)
MelodyNote ==
  /\ melody_pc = "next" /\ running = Melody
  /\ thisNote < length[song]
  /\ play
  /\ melody_pc' = "note"
  /\ Blocks
  /\ UNCHANGED <<music_to_play, playerVars, play, play_melody_ref, rdymsg, song, thisNote>>

MelodyTimer ==
  /\ melody_pc = "note"
  /\ thisNote' = thisNote + 1
  /\ melody_pc' = "next"
  /\ Awakens(Melody)
  /\ UNCHANGED <<music_to_play, playerVars, play, play_melody_ref, rdymsg, song>>

MelodyOver ==
  /\ melody_pc = "next" /\ running = Melody
  /\ thisNote >= length[song] \/ ~play
  /\ play' = FALSE
  /\ melody_pc' = "end"
  /\ GoesOn
  /\ UNCHANGED <<music_to_play, playerVars, play_melody_ref, rdymsg, song, thisNote>>

Player_awakes == player_pc' = IF player_pc = "waiting" THEN "change" ELSE player_pc

(* Seeded fault: the thread that is told the end runs at once, as it would *)
(* with a priority of its own.                                             *)
MelodyTellsAndYields ==
  /\ melody_pc = "end" /\ running = Melody
  /\ Player_awakes
  /\ IF player_pc = "waiting"
     THEN running' = Player /\ ready' = <<Melody>> \o ready
     ELSE GoesOn
  /\ melody_pc' = "suspend"
  /\ UNCHANGED <<music_to_play, temp, call, play, play_melody_ref, rdymsg, song, thisNote>>

(* chCondBroadcast: the player becomes ready, and the caller goes on.      *)
MelodyTells ==
  /\ melody_pc = "end" /\ running = Melody
  /\ Player_awakes
  /\ IF player_pc = "waiting" THEN GoesOnWaking(Player) ELSE GoesOn
  /\ melody_pc' = "suspend"
  /\ UNCHANGED <<music_to_play, temp, call, play, play_melody_ref, rdymsg, song, thisNote>>

-----------------------------------------------------------------------------
MelodyDispatch ==
  /\ Dispatch
  /\ UNCHANGED <<music_to_play, playerVars, play, play_melody_ref, rdymsg, melodyVars>>

PlayerThread == PlayerSilences \/ PlayerRepeats \/ PlayerForces \/ PlayerChecks
                \/ PlayerWaits \/ PlayerChanges
MelodyThread == MelodySuspends \/ MelodyResumed \/ MelodyNote \/ MelodyOver \/ MelodyTells

MelodyNext ==
  \/ set_music_to_play
  \/ PlayerThread \/ MelodyThread
  \/ PlayerTimer \/ MelodyTimer \/ MelodyDispatch

MelodySpec == MelodyInit /\ [][MelodyNext]_melodyVarsAll

(* Timers fire, and main does not keep the processor for ever.             *)
MelodyFairness ==
  /\ WF_melodyVarsAll(PlayerThread) /\ WF_melodyVarsAll(MelodyThread)
  /\ WF_melodyVarsAll(PlayerTimer) /\ WF_melodyVarsAll(MelodyTimer)
  /\ WF_melodyVarsAll(MelodyDispatch)

MelodyFairSpec == MelodySpec /\ MelodyFairness

-----------------------------------------------------------------------------
(* No song is resumed into the void: when the player has stopped the last  *)
(* song and waited for its end, the melody thread, which tells that end    *)
(* before it suspends itself, is already suspended (play_melody.c:766      *)
(* against 742; no lock orders the two).                                   *)
NoSongIsLost == player_pc = "change" /\ running = Player => play_melody_ref

(* The player does not wait for an end that has already been told: the     *)
(* test of play_melody.c:818 is not under the mutex of line 820.           *)
WaitedEndIsToCome ==
  player_pc = "waiting" => melody_pc \in {"next", "note", "end"}

(* A song that stays asked for is played to its last note, again and again *)
(* (the player polls it every 100 ms and must not force it anew).          *)
AskedSongIsPlayed ==
  \A s \in Song :
    <>[](music_to_play = s) => []<>(song = s /\ thisNote = length[s] /\ play)

=============================================================================
