------------------------------ MODULE VoiceClips ------------------------------
(***************************************************************************)
(* Saved voice clips of the control worker (voice_clips.py): a clip's      *)
(* audio file and its row in voice_captures, from the member's /clip to    *)
(* the soundboard or the bin, and the sweep that deletes old audio.  The   *)
(* maintenance loop executes one queued job and then sweeps; it may die    *)
(* between any two steps and be restarted.                                 *)
(*                                                                         *)
(* Moving the cut (voice_shift) touches neither file nor state.            *)
(***************************************************************************)
EXTENDS Naturals, FiniteSets

CONSTANTS
  Clip,             \* captures, one for each /clip interaction
  MaxVoiceFaults    \* BOUND: unanswered uploads and restarts

ASSUME VoiceBounds == IsFiniteSet(Clip) /\ MaxVoiceFaults \in Nat

VARIABLES
  capture,          \* voice_captures: [Clip -> CaptureState]
  audio,            \* clips whose file is on disk
  old,              \* clips taken more than CAPTURE_TTL ago
  sounds,           \* [Clip -> Nat]: soundboard sounds made of the clip
  worker,           \* the job or the sweep under way, and its clips
  voiceFaults

voiceVars == <<capture, audio, old, sounds, worker, voiceFaults>>

CaptureState == {"none", "draft", "publishing", "published", "discarded", "expired", "deleted"}
WorkerStep == {"job", "insert", "discard", "upload", "uploaded", "record", "sweep", "swept"}
Worker == [at : WorkerStep, what : SUBSET Clip]

VoiceTypeOK ==
  /\ capture \in [Clip -> CaptureState]
  /\ audio \subseteq Clip /\ old \subseteq Clip
  /\ sounds \in [Clip -> Nat]
  /\ worker \in Worker /\ voiceFaults \in 0..MaxVoiceFaults

VoiceInit ==
  /\ capture = [c \in Clip |-> "none"] /\ audio = {} /\ old = {}
  /\ sounds = [c \in Clip |-> 0]
  /\ worker = [at |-> "job", what |-> {}] /\ voiceFaults = 0

WorkerAt(step, c) == worker.at = step /\ c \in worker.what
WorkerTo(step, what) == worker' = [at |-> step, what |-> what]
JobOver == WorkerTo("sweep", {})
Becomes(c, state) == capture' = [capture EXCEPT ![c] = state]
VoiceFault == voiceFaults < MaxVoiceFaults /\ voiceFaults' = voiceFaults + 1
HasRow(c) == capture[c] \notin {"none", "deleted"}

(* An hour passes for the clip: between two rounds of the loop. *)
Ages(c) ==
  /\ worker.at = "job" /\ (c \in audio \/ HasRow(c))
  /\ c \notin old /\ old' = old \cup {c}
  /\ UNCHANGED <<capture, audio, sounds, worker, voiceFaults>>

-----------------------------------------------------------------------------
(* The job: run and publish.  Nothing queued, or a job that is Denied or   *)
(* fails before it changes anything, goes on to the sweep.                 *)

NoJob ==
  /\ worker.at = "job" /\ JobOver
  /\ UNCHANGED <<capture, audio, old, sounds, voiceFaults>>

(* /clip: the file first, then its row. *)
SaveAudio(c) ==
  /\ worker.at = "job" /\ capture[c] = "none" /\ c \notin audio
  /\ audio' = audio \cup {c} /\ WorkerTo("insert", {c})
  /\ UNCHANGED <<capture, old, sounds, voiceFaults>>

InsertCapture(c) ==
  /\ WorkerAt("insert", c)
  /\ Becomes(c, "draft") /\ JobOver
  /\ UNCHANGED <<audio, old, sounds, voiceFaults>>

(* Throw away, whatever became of the clip since the button was drawn. *)
DiscardAudio(c) ==
  /\ worker.at = "job" /\ HasRow(c)
  /\ audio' = audio \ {c} /\ WorkerTo("discard", {c})
  /\ UNCHANGED <<capture, old, sounds, voiceFaults>>

DiscardCapture(c) ==
  /\ WorkerAt("discard", c)
  /\ IF capture[c] = "draft" THEN Becomes(c, "discarded") ELSE UNCHANGED capture
  /\ JobOver
  /\ UNCHANGED <<audio, old, sounds, voiceFaults>>

(* The reservation, after the limit, the permission, the name and the size *)
(* were found right and the audio was read.                                *)
Reserve(c) ==
  /\ worker.at = "job" /\ c \in audio
  /\ capture[c] = "draft"
  /\ Becomes(c, "publishing") /\ WorkerTo("upload", {c})
  /\ UNCHANGED <<audio, old, sounds, voiceFaults>>

Upload(c) ==
  /\ WorkerAt("upload", c)
  /\ sounds' = [sounds EXCEPT ![c] = @ + 1] /\ WorkerTo("uploaded", {c})
  /\ UNCHANGED <<capture, audio, old, voiceFaults>>

(* 401, 403 or 404: no sound was made, and the button works again. *)
UploadDenied(c) ==
  /\ WorkerAt("upload", c)
  /\ Becomes(c, "draft") /\ JobOver
  /\ UNCHANGED <<audio, old, sounds, voiceFaults>>

(* Any other answer, or none; Discord may have made the sound. *)
UploadUncertain(c) ==
  /\ WorkerAt("upload", c) /\ VoiceFault
  /\ sounds' \in {sounds, [sounds EXCEPT ![c] = @ + 1]} /\ JobOver
  /\ UNCHANGED <<capture, audio, old>>

RemoveAudio(c) ==
  /\ WorkerAt("uploaded", c)
  /\ audio' = audio \ {c} /\ WorkerTo("record", {c})
  /\ UNCHANGED <<capture, old, sounds, voiceFaults>>

RecordSound(c) ==
  /\ WorkerAt("record", c)
  /\ Becomes(c, "published") /\ JobOver
  /\ UNCHANGED <<audio, old, sounds, voiceFaults>>

-----------------------------------------------------------------------------
(* expire: the audio of old clips, then their rows.  A published clip's    *)
(* row outlives its audio for a day.                                       *)

Sweep ==
  LET due == {c \in old : capture[c] \in {"draft", "discarded", "published"}} IN
  /\ worker.at = "sweep"
  /\ audio' = audio \ due /\ WorkerTo("swept", due)
  /\ UNCHANGED <<capture, old, sounds, voiceFaults>>

ForgetCaptures ==
  /\ worker.at = "swept"
  /\ \E day \in SUBSET {c \in old : capture[c] \in {"published", "expired"}} :
       capture' = [c \in Clip |->
         IF c \in worker.what \cup day
         THEN IF capture[c] = "published" /\ c \notin day THEN "expired" ELSE "deleted"
         ELSE capture[c]]
  /\ WorkerTo("job", {})
  /\ UNCHANGED <<audio, old, sounds, voiceFaults>>

(* Nothing about voice_captures is put right when the worker starts. *)
VoiceRestart ==
  /\ VoiceFault
  /\ \/ UNCHANGED sounds
     \/ \E c \in Clip : WorkerAt("upload", c) /\ sounds' = [sounds EXCEPT ![c] = @ + 1]
  /\ WorkerTo("job", {})
  /\ UNCHANGED <<capture, audio, old>>

WorkerStepOf(c) ==
  \/ InsertCapture(c) \/ DiscardCapture(c) \/ Upload(c) \/ UploadDenied(c)
  \/ UploadUncertain(c) \/ RemoveAudio(c) \/ RecordSound(c)

WorkerSteps == NoJob \/ Sweep \/ ForgetCaptures \/ \E c \in Clip : WorkerStepOf(c)

VoiceNext ==
  \/ WorkerSteps \/ VoiceRestart
  \/ \E c \in Clip : Ages(c) \/ SaveAudio(c) \/ DiscardAudio(c) \/ Reserve(c)

(* The loop comes round every five seconds for as long as the worker lives. *)
VoiceSpec == VoiceInit /\ [][VoiceNext]_voiceVars /\ WF_voiceVars(WorkerSteps)

-----------------------------------------------------------------------------
(* Properties *)

(* voice_clips.py:731 "an ambiguous upload stays 'publishing' for review   *)
(* instead of duplicating a sound": pressed twice, denied, unanswered or   *)
(* cut off, a clip becomes one sound at most.                              *)
SoundOnce == \A c \in Clip : sounds[c] <= 1
=============================================================================
