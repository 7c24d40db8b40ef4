---------------------------- MODULE AudioSocket ----------------------------
(***************************************************************************)
(* The AudioSocket transport of one call (agent/transport/audiosocket.py):  *)
(* the read loop that turns Asterisk's messages into pipeline frames, and   *)
(* the paced writing of the agent's audio.  Both run beside each other and  *)
(* beside the pipeline, which may cancel either.  The call's UUID has been  *)
(* read and the pipeline made (CallSession).                                *)
(*                                                                          *)
(* Samples, resampling and what Pipecat does with a frame are left out; a   *)
(* write of a frame of audio is cancelled when the caller barges in.        *)
(***************************************************************************)
EXTENDS Naturals, Sequences, SequencesExt, FiniteSets

CONSTANTS
  Digits,     \* DTMF payloads that are a digit
  Blank,      \* one of which nothing is left after decode and strip
  MaxSent,    \* bound: messages from Asterisk
  MaxChunks,  \* bound: 20 ms chunks of a frame of audio
  MaxFrames   \* bound: frames of audio the agent says

ASSUME AudioSocketAssumption ==
  /\ Blank \notin Digits
  /\ Digits \cap {"audio", "EndFrame", "CancelFrame"} = {}
  /\ {MaxSent, MaxChunks, MaxFrames} \subseteq Nat

\* What Asterisk sends: type and payload, as far as they are looked at.
Messages ==
  {<<"hangup">>, <<"uuid">>, <<"audio">>, <<"other">>} \cup ({"dtmf"} \X (Digits \cup {Blank}))

Ends == {"EndFrame", "CancelFrame"}

VARIABLES
  sent,      \* messages Asterisk has sent
  received,  \* how many of them read_frame has returned
  link       \* "open"; closed by Asterisk ("eof", maybe inside a message) or "reset"

VARIABLES
  pipeline,  \* "new", "running", "ending" and "closed" (AudioSocketTransport.disconnect)
  reader,    \* _read_task
  pushed     \* frames pushed into the pipeline

VARIABLES
  speech,    \* the frame being written: its number, chunks, those written; asleep
  heard,     \* chunks Asterisk got: frame, chunk, and whether it is the frame's last
  cut,       \* frames whose write was cancelled
  naps       \* sleeps of 20 ms that ran to their end

input  == <<sent, received, link, reader, pushed>>
output == <<speech, heard, cut, naps>>
vars   == <<input, pipeline, output>>

Silent(n) == [frame |-> n, size |-> 0, written |-> 0, asleep |-> FALSE, on |-> FALSE]

Init ==
  /\ sent = <<>> /\ received = 0 /\ link = "open"
  /\ pipeline = "new" /\ reader = "none" /\ pushed = <<>>
  /\ speech = Silent(0) /\ heard = <<>> /\ cut = {} /\ naps = 0

----------------------------------------------------------------------------
(* Asterisk, and the pipeline around the transport                          *)

Send ==
  /\ link = "open" /\ Len(sent) < MaxSent
  /\ ~Contains(sent, <<"hangup">>)
  /\ \E m \in Messages : sent' = Append(sent, m)
  /\ UNCHANGED <<received, link, pipeline, reader, pushed, output>>

Disconnect ==
  /\ link = "open" /\ link' \in {"eof", "reset"}
  /\ UNCHANGED <<sent, received, pipeline, reader, pushed, output>>

\* start: the read task is created.
Start ==
  /\ pipeline = "new"
  /\ pipeline' = "running" /\ reader' = "reading"
  /\ UNCHANGED <<sent, received, link, pushed, output>>

\* stop and cancel: an EndFrame or CancelFrame, the reader's or the agent's own,
\* has come by; the read task is cancelled.
Stop ==
  /\ pipeline = "running"
  /\ pipeline' = "ending" /\ reader' = IF reader = "reading" THEN "cancelled" ELSE reader
  /\ UNCHANGED <<sent, received, link, pushed, output>>

Close ==
  /\ pipeline = "ending" /\ pipeline' = "closed"
  /\ UNCHANGED <<input, output>>

----------------------------------------------------------------------------
(* _read_loop                                                               *)

\* Variant with a bug: what is left of a DTMF payload is not looked at.
Frames_blank(m) ==
  CASE m[1] = "dtmf"   -> <<m[2]>>
    [] m[1] = "audio"  -> <<"audio">>
    [] m[1] = "hangup" -> <<"EndFrame">>
    [] OTHER           -> <<>>

\* The frames pushed for a message: a UUID sent again, a DTMF without a digit
\* and an unknown type push none.
Frames(m) ==
  CASE m[1] = "dtmf" /\ m[2] # Blank -> <<m[2]>>
    [] m[1] = "audio"                -> <<"audio">>
    [] m[1] = "hangup"               -> <<"EndFrame">>
    [] OTHER                         -> <<>>

ReadMessage ==
  /\ reader = "reading" /\ received < Len(sent)
  /\ received' = received + 1
  /\ pushed' = pushed \o Frames(sent[received'])
  /\ reader' = IF sent[received'] = <<"hangup">> THEN "done" ELSE reader
  /\ UNCHANGED <<sent, link, pipeline, output>>

\* Variant with a bug: only the end of the stream is expected.
ReadFails_eof ==
  /\ reader = "reading" /\ received = Len(sent) /\ link = "eof"
  /\ reader' = "done" /\ pushed' = Append(pushed, "EndFrame")
  /\ UNCHANGED <<sent, received, link, pipeline, output>>

\* IncompleteReadError or ConnectionResetError; a reset also takes what has not
\* been read.
ReadFails ==
  /\ reader = "reading"
  /\ link = "reset" \/ (link = "eof" /\ received = Len(sent))
  /\ reader' = "done" /\ pushed' = Append(pushed, "EndFrame")
  /\ UNCHANGED <<sent, received, link, pipeline, output>>

\* Anything else, such as audio that cannot be resampled: that message is lost.
ReadRaises ==
  /\ reader = "reading" /\ received < Len(sent) /\ sent[received + 1] = <<"audio">>
  /\ received' = received + 1
  /\ reader' = "done" /\ pushed' = Append(pushed, "CancelFrame")
  /\ UNCHANGED <<sent, link, pipeline, output>>

Read == ReadMessage \/ ReadFails \/ ReadRaises

----------------------------------------------------------------------------
(* write_audio_frame                                                        *)

\* A closing writer takes no frame.
Speak ==
  /\ pipeline \in {"running", "ending"} /\ ~speech.on /\ speech.frame < MaxFrames
  /\ \E n \in 0..MaxChunks :
       speech' = [Silent(speech.frame + 1) EXCEPT !.size = n, !.on = TRUE]
  /\ UNCHANGED <<input, pipeline, heard, cut, naps>>

\* What Asterisk gets of a write: nothing once either side has closed.
Arrives(chunk) == heard' = IF link = "open" /\ pipeline # "closed" THEN Append(heard, chunk) ELSE heard

Chunk == [frame |-> speech.frame, chunk |-> speech.written + 1,
          last |-> speech.written + 1 = speech.size]

\* Variant with a bug: no sleep after the last chunk.
WriteChunk_unpaced ==
  /\ speech.on /\ ~speech.asleep /\ speech.written < speech.size
  /\ Arrives(Chunk)
  /\ speech' = [speech EXCEPT !.written = @ + 1, !.asleep = ~Chunk.last]
  /\ UNCHANGED <<input, pipeline, cut, naps>>

\* A chunk is written whole, and 20 ms pass.
WriteChunk ==
  /\ speech.on /\ ~speech.asleep /\ speech.written < speech.size
  /\ Arrives(Chunk)
  /\ speech' = [speech EXCEPT !.written = @ + 1, !.asleep = TRUE]
  /\ UNCHANGED <<input, pipeline, cut, naps>>

Wake ==
  /\ speech.asleep
  /\ speech' = [speech EXCEPT !.asleep = FALSE] /\ naps' = naps + 1
  /\ UNCHANGED <<input, pipeline, heard, cut>>

\* drain, which fails when the connection is gone.
Written ==
  /\ speech.on /\ ~speech.asleep /\ speech.written = speech.size
  /\ speech' = Silent(speech.frame)
  /\ UNCHANGED <<input, pipeline, heard, cut, naps>>

\* The caller barges in, or the pipeline is cancelled.
Interrupt ==
  /\ speech.on
  /\ speech' = Silent(speech.frame) /\ cut' = cut \cup {speech.frame}
  /\ UNCHANGED <<input, pipeline, heard, naps>>

Write == WriteChunk \/ Wake \/ Written

Over ==
  /\ pipeline = "closed" /\ ~speech.on
  /\ UNCHANGED vars

Next ==
  \/ Send \/ Disconnect \/ Start \/ Stop \/ Close
  \/ Read \/ Speak \/ Write \/ Interrupt \/ Over

Spec == Init /\ [][Next]_vars

\* The two coroutines go on when they can.
FairSpec == Spec /\ WF_vars(Read) /\ WF_vars(Write)

----------------------------------------------------------------------------
(* Properties                                                               *)

\* Every variable has its type.
TypeOK ==
  /\ sent \in Seq(Messages) /\ received \in 0..Len(sent)
  /\ link \in {"open", "eof", "reset"}
  /\ pipeline \in {"new", "running", "ending", "closed"}
  /\ reader \in {"none", "reading", "done", "cancelled"}
  /\ pushed \in Seq(Digits \cup Ends \cup {"audio"})
  /\ speech \in [frame : 0..MaxFrames, size : 0..MaxChunks, written : 0..MaxChunks,
                 asleep : BOOLEAN, on : BOOLEAN]
  /\ heard \in Seq([frame : 1..MaxFrames, chunk : 1..MaxChunks, last : BOOLEAN])
  /\ cut \subseteq 1..MaxFrames
  /\ naps \in Nat

\* A message that is for the pipeline, and what it says.
Meant(m) == m[1] = "audio" \/ (m[1] = "dtmf" /\ m[2] \in Digits)
Said(m) == IF m[1] = "audio" THEN "audio" ELSE m[2]

\* The pipeline gets what Asterisk sent, in its order: the digits and the audio
\* of the messages read, but for the one the loop failed on.
PipelineHearsCaller ==
  LET meant == {k \in 1..received : Meant(sent[k])}
      got   == {i \in DOMAIN pushed : pushed[i] \notin Ends}
  IN  /\ Cardinality(got) = Cardinality(meant) - IF Contains(pushed, "CancelFrame") THEN 1 ELSE 0
      /\ \A k \in meant : \A n \in got :
           n = Cardinality(meant \cap 1..k) => pushed[n] = Said(sent[k])

\* The read loop ends the pipeline exactly once, whichever of its four exits it
\* took, and pushes nothing afterwards.
EndsOnce ==
  /\ \A i \in DOMAIN pushed : pushed[i] \in Ends => i = Len(pushed)
  /\ reader = "done" <=> pushed # <<>> /\ Last(pushed) \in Ends

\* What the pipeline is given of the call: its input in order, and one end.
CallerIsHeard == PipelineHearsCaller /\ EndsOnce

\* Asterisk hears the agent's frames in order and whole, unless one was cut
\* short by an interruption.
AsteriskHearsAgent ==
  \A i \in 1..(Len(heard) - 1) :
    LET a == heard[i]  b == heard[i + 1] IN
    \/ b.frame = a.frame /\ b.chunk = a.chunk + 1 /\ ~a.last
    \/ b.frame > a.frame /\ b.chunk = 1 /\ (a.last \/ a.frame \in cut)

\* Asterisk's queue is not overrun: a chunk is only written when the one before
\* has had its 20 ms, except after an interruption, which throws audio away.
Paced == Len(heard) <= naps + Cardinality(cut) + 1

\* What Asterisk is given of the call: the agent's speech in order, no faster
\* than it is played.
AgentIsHeard == AsteriskHearsAgent /\ Paced

\* A caller who hung up, or whose connection broke, is noticed by a reader that
\* is reading, wherever in a message the stream ended.
HangupIsNoticed ==
  reader = "reading" /\ link # "open" ~> reader # "reading"
=============================================================================
