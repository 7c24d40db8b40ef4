-------------------------- MODULE AudioSocket_proofs --------------------------
(***************************************************************************)
(* Proofs about AudioSocket for any digits, however much Asterisk sends and *)
(* however long the agent speaks.                                           *)
(***************************************************************************)
EXTENDS AudioSocket, FiniteSetTheorems, TLAPS

Frame == Digits \cup Ends \cup {"audio"}
Speech == [frame : 0..MaxFrames, size : 0..MaxChunks, written : 0..MaxChunks,
           asleep : BOOLEAN, on : BOOLEAN]
Heard == [frame : 1..MaxFrames, chunk : 1..MaxChunks, last : BOOLEAN]

----------------------------------------------------------------------------
(* Towards the agent: what is written of the speech                         *)

Open == link = "open" /\ pipeline # "closed"

\* The last chunk Asterisk got is the last one written of this frame, or ends
\* an earlier one.
LastHeard ==
  LET a == heard[Len(heard)]
  IN  \/ /\ speech.on /\ speech.written > 0
         /\ a.frame = speech.frame /\ a.chunk = speech.written
         /\ a.last = (speech.written = speech.size)
      \/ /\ speech.on => speech.written = 0 /\ a.frame < speech.frame
         /\ a.frame <= speech.frame
         /\ a.last \/ a.frame \in cut

SpeechInv ==
  /\ MaxFrames \in Nat /\ MaxChunks \in Nat
  /\ link \in {"open", "eof", "reset"}
  /\ pipeline \in {"new", "running", "ending", "closed"}
  /\ speech \in Speech
  /\ heard \in Seq(Heard)
  /\ cut \subseteq 1..speech.frame
  /\ naps \in Nat
  /\ speech.on => speech.frame \notin cut /\ speech.frame > 0
  /\ speech.written <= speech.size
  /\ speech.asleep => speech.on
  /\ ~speech.on => speech.written = 0
  /\ AsteriskHearsAgent
  /\ Open /\ heard # <<>> => LastHeard
  /\ Open /\ speech.on /\ speech.written > 0 => heard # <<>>
  /\ Len(heard) <= naps + Cardinality(cut) + (IF speech.asleep THEN 1 ELSE 0)

LEMMA SpeechInit == Init => SpeechInv
<1> SUFFICES ASSUME Init PROVE SpeechInv
  OBVIOUS
<1>1. Cardinality({}) = 0
  BY FS_EmptySet
<1>2. Silent(0) \in Speech
  BY AudioSocketAssumption DEF Silent, Speech
<1>3. heard = <<>> /\ Len(heard) = 0 /\ heard \in Seq(Heard)
  BY DEF Init
<1>4. AsteriskHearsAgent
  BY <1>3 DEF AsteriskHearsAgent
<1> QED BY <1>1, <1>2, <1>3, <1>4, AudioSocketAssumption DEF Init, SpeechInv, Silent

\* cut is a finite set.
LEMMA CutCount ==
  ASSUME SpeechInv
  PROVE  IsFiniteSet(cut) /\ Cardinality(cut) \in Nat
<1>1. speech.frame \in Nat
  BY DEF SpeechInv, Speech
<1>2. IsFiniteSet(1..speech.frame)
  BY <1>1, FS_Interval
<1> QED BY <1>2, FS_Subset, FS_CardinalityType DEF SpeechInv

LEMMA SpeechFields ==
  ASSUME SpeechInv
  PROVE  /\ MaxFrames \in Nat /\ MaxChunks \in Nat /\ naps \in Nat /\ Len(heard) \in Nat
         /\ speech.frame \in 0..MaxFrames /\ speech.size \in 0..MaxChunks
         /\ speech.written \in 0..MaxChunks /\ speech.written <= speech.size
         /\ speech.on \in BOOLEAN /\ speech.asleep \in BOOLEAN
BY DEF SpeechInv, Speech

\* Steps that leave the speech alone; a side that closed does not open again.
LEMMA SpeechRests ==
  ASSUME SpeechInv, UNCHANGED output,
         link' \in {"open", "eof", "reset"}, pipeline' \in {"new", "running", "ending", "closed"},
         Open' => Open
  PROVE  SpeechInv'
BY DEF SpeechInv, output, Open, LastHeard, AsteriskHearsAgent

LEMMA SpeakInv == SpeechInv /\ Speak => SpeechInv'
<1> SUFFICES ASSUME SpeechInv, Speak PROVE SpeechInv'
  OBVIOUS
<1>1. PICK n \in 0..MaxChunks : speech' = [Silent(speech.frame + 1) EXCEPT !.size = n, !.on = TRUE]
  BY DEF Speak
<1>2. /\ speech'.frame = speech.frame + 1 /\ speech'.size = n /\ speech'.on
      /\ speech'.written = 0 /\ speech'.asleep = FALSE
  BY <1>1 DEF Silent
<1>3. speech' \in Speech
  <2>1. speech' = [frame |-> speech.frame + 1, size |-> n, written |-> 0, asleep |-> FALSE, on |-> TRUE]
    BY <1>1 DEF Silent
  <2>2. speech.frame + 1 \in 0..MaxFrames /\ 0 \in 0..MaxChunks
    BY SpeechFields DEF Speak
  <2> QED BY <2>1, <2>2 DEF Speech
<1>4. UNCHANGED <<heard, cut, naps, link, pipeline>> /\ ~speech.on
  BY DEF Speak, input
<1>5. cut \subseteq 1..speech'.frame /\ speech'.frame \notin cut /\ speech'.frame > 0
  BY <1>2 DEF SpeechInv, Speech
<1>6. ASSUME Open', heard' # <<>> PROVE LastHeard'
  <2>1. LastHeard
    BY <1>4, <1>6 DEF SpeechInv, Open
  <2>2. /\ heard[Len(heard)].frame <= speech.frame
        /\ heard[Len(heard)].last \/ heard[Len(heard)].frame \in cut
    BY <1>4, <2>1 DEF LastHeard
  <2>3. Len(heard) \in 1..Len(heard) /\ heard[Len(heard)] \in Heard
    BY <1>4, <1>6 DEF SpeechInv
  <2>4. heard[Len(heard)].frame \in Nat
    BY <2>3, SpeechFields DEF Heard
  <2> QED BY <1>2, <1>4, <2>2, <2>4, SpeechFields DEF LastHeard
<1>7. AsteriskHearsAgent'
  BY <1>4 DEF SpeechInv, AsteriskHearsAgent
<1>8. ~speech.asleep
  BY <1>4 DEF SpeechInv
<1> QED BY <1>2, <1>3, <1>4, <1>5, <1>6, <1>7, <1>8 DEF SpeechInv

LEMMA WriteChunkInv == SpeechInv /\ WriteChunk => SpeechInv'
<1> SUFFICES ASSUME SpeechInv, WriteChunk PROVE SpeechInv'
  OBVIOUS
<1>1. /\ speech.on /\ ~speech.asleep /\ speech.written < speech.size
      /\ speech' = [speech EXCEPT !.written = @ + 1, !.asleep = TRUE]
      /\ UNCHANGED <<cut, naps, link, pipeline>>
  BY DEF WriteChunk, input
<1>2. /\ speech'.frame = speech.frame /\ speech'.size = speech.size /\ speech'.on
      /\ speech'.written = speech.written + 1 /\ speech'.asleep
      /\ speech.written \in Nat /\ speech.size \in 0..MaxChunks /\ speech.frame \in 1..MaxFrames
  BY <1>1 DEF SpeechInv, Speech
<1>3. speech' \in Speech
  <2>1. speech.written + 1 \in 0..MaxChunks
    BY <1>1, <1>2, SpeechFields
  <2> QED BY <1>1, <2>1 DEF SpeechInv, Speech
<1>4. Chunk \in Heard /\ Chunk.frame = speech.frame /\ Chunk.chunk = speech.written + 1
      /\ Chunk.last = (speech.written + 1 = speech.size)
  <2>1. speech.written + 1 \in 1..MaxChunks
    BY <1>1, <1>2, SpeechFields
  <2> QED BY <1>2, <2>1 DEF Chunk, Heard
<1>5. Open' = Open /\ Cardinality(cut) \in Nat
  BY <1>1, CutCount DEF Open
<1>6. CASE ~Open
  <2>1. heard' = heard
    BY <1>6 DEF WriteChunk, Arrives, Open
  <2>2. AsteriskHearsAgent'
    BY <1>1, <2>1 DEF SpeechInv, AsteriskHearsAgent
  <2> QED BY <1>1, <1>2, <1>3, <1>5, <1>6, <2>1, <2>2 DEF SpeechInv
<1>7. CASE Open
  <2>1. heard' = Append(heard, Chunk)
    BY <1>7 DEF WriteChunk, Arrives, Open
  <2> HIDE DEF Chunk
  <2>2. /\ heard' \in Seq(Heard) /\ Len(heard) \in Nat /\ Len(heard') = Len(heard) + 1
        /\ heard'[Len(heard) + 1] = Chunk /\ heard' # <<>>
        /\ \A i \in 1..Len(heard) : heard'[i] = heard[i]
    BY <1>4, <2>1 DEF SpeechInv
  <2>3. ASSUME NEW i \in 1..(Len(heard') - 1)
        PROVE  LET a == heard'[i]  b == heard'[i + 1] IN
               \/ b.frame = a.frame /\ b.chunk = a.chunk + 1 /\ ~a.last
               \/ b.frame > a.frame /\ b.chunk = 1 /\ (a.last \/ a.frame \in cut)
    <3>1. CASE i < Len(heard)
      <4>1. i \in 1..(Len(heard) - 1) /\ heard'[i] = heard[i] /\ heard'[i + 1] = heard[i + 1]
        BY <2>2, <3>1
      <4> QED BY <4>1 DEF SpeechInv, AsteriskHearsAgent
    <3>2. CASE i = Len(heard)
      <4>1. heard'[i] = heard[Len(heard)] /\ heard'[i + 1] = Chunk /\ heard # <<>>
        BY <2>2, <3>2
      <4>2. LastHeard
        BY <1>7, <4>1 DEF SpeechInv
      <4>3. CASE speech.written > 0
        <5>1. /\ heard[Len(heard)].frame = speech.frame
              /\ heard[Len(heard)].chunk = speech.written
              /\ heard[Len(heard)].last = (speech.written = speech.size)
          BY <1>1, <4>2, <4>3 DEF LastHeard
        <5>2. ~heard[Len(heard)].last
          <6>1. ~(speech.written = speech.size)
            BY <1>1, SpeechFields
          <6> QED BY <5>1, <6>1
        <5>3. Chunk.frame = heard[Len(heard)].frame /\ Chunk.chunk = heard[Len(heard)].chunk + 1
          BY <1>4, <5>1
        <5> QED BY <4>1, <5>2, <5>3
      <4>4. CASE speech.written = 0
        BY <1>1, <1>2, <1>4, <4>1, <4>2, <4>4 DEF LastHeard
      <4> QED BY <1>2, <4>3, <4>4
    <3> QED BY <2>2, <3>1, <3>2
  <2>4. AsteriskHearsAgent'
    BY <1>1, <2>3 DEF AsteriskHearsAgent
  <2>5. LastHeard'
    BY <1>2, <1>4, <2>2 DEF LastHeard
  <2> QED BY <1>1, <1>2, <1>3, <1>5, <2>2, <2>4, <2>5 DEF SpeechInv
<1> QED BY <1>6, <1>7

LEMMA WakeInv == SpeechInv /\ Wake => SpeechInv'
<1> SUFFICES ASSUME SpeechInv, Wake PROVE SpeechInv'
  OBVIOUS
<1>1. /\ speech.asleep /\ speech' = [speech EXCEPT !.asleep = FALSE] /\ naps' = naps + 1
      /\ UNCHANGED <<heard, cut, link, pipeline>>
  BY DEF Wake, input
<1>2. /\ speech'.frame = speech.frame /\ speech'.size = speech.size /\ speech'.on = speech.on
      /\ speech'.written = speech.written /\ speech'.asleep = FALSE /\ speech' \in Speech
  BY <1>1 DEF SpeechInv, Speech
<1>3. Open' = Open /\ Cardinality(cut) \in Nat
  BY <1>1, CutCount DEF Open
<1>4. LastHeard' = LastHeard /\ AsteriskHearsAgent' = AsteriskHearsAgent
  BY <1>1, <1>2 DEF LastHeard, AsteriskHearsAgent
<1>5. Len(heard) \in Nat
  BY DEF SpeechInv
<1> QED BY <1>1, <1>2, <1>3, <1>4, <1>5 DEF SpeechInv

\* A frame is over: written whole, or cut.
LEMMA FrameOver == SpeechInv /\ (Written \/ Interrupt) => SpeechInv'
<1> SUFFICES ASSUME SpeechInv, Written \/ Interrupt PROVE SpeechInv'
  OBVIOUS
<1>1. /\ speech.on /\ speech' = Silent(speech.frame)
      /\ UNCHANGED <<heard, naps, link, pipeline>>
      /\ \/ ~speech.asleep /\ speech.written = speech.size /\ cut' = cut
         \/ cut' = cut \cup {speech.frame}
  BY DEF Written, Interrupt, input
<1>2. /\ speech'.frame = speech.frame /\ speech'.size = 0 /\ ~speech'.on
      /\ speech'.written = 0 /\ ~speech'.asleep /\ speech' \in Speech
      /\ speech.frame \in Nat /\ speech.frame > 0
  BY <1>1 DEF SpeechInv, Speech, Silent
<1>3. Open' = Open /\ Cardinality(cut) \in Nat /\ IsFiniteSet(cut) /\ Len(heard) \in Nat
  BY <1>1, CutCount DEF Open, SpeechInv
<1>4. cut' \subseteq 1..speech'.frame
  <2>1. cut \subseteq 1..speech.frame /\ speech.frame \in 1..speech.frame
    BY <1>2 DEF SpeechInv
  <2>2. cut' \subseteq cut \cup {speech.frame}
    BY <1>1
  <2> QED BY <1>2, <2>1, <2>2
<1>5. AsteriskHearsAgent'
  BY <1>1 DEF SpeechInv, AsteriskHearsAgent
<1>6. Open /\ heard # <<>> => LastHeard'
  <2> SUFFICES ASSUME Open, heard # <<>> PROVE LastHeard'
    OBVIOUS
  <2>1. LastHeard
    BY DEF SpeechInv
  <2>2. cut \subseteq cut'
    BY <1>1
  <2>3. /\ heard[Len(heard)].frame <= speech.frame
        /\ heard[Len(heard)].last \/ heard[Len(heard)].frame \in cut'
    <3>1. CASE speech.written > 0
      <4>1. /\ heard[Len(heard)].frame = speech.frame
            /\ heard[Len(heard)].last = (speech.written = speech.size)
        BY <1>1, <2>1, <3>1 DEF LastHeard
      <4>2. CASE speech.written = speech.size
        <5>1. heard[Len(heard)].last
          BY <4>1, <4>2, Zenon
        <5> QED BY <1>2, <4>1, <5>1
      <4>3. CASE cut' = cut \cup {speech.frame}
        BY <1>2, <4>1, <4>3
      <4> QED BY <1>1, <4>2, <4>3
    <3>2. CASE speech.written = 0
      <4>1. /\ heard[Len(heard)].frame <= speech.frame
            /\ heard[Len(heard)].last \/ heard[Len(heard)].frame \in cut
        BY <2>1, <3>2 DEF LastHeard
      <4> QED BY <2>2, <4>1
    <3> QED BY <3>1, <3>2, SpeechFields
  <2> QED BY <1>1, <1>2, <2>3 DEF LastHeard
<1>7. Len(heard) <= naps + Cardinality(cut')
  <2>1. CASE ~speech.asleep /\ cut' = cut
    BY <1>3, <2>1, SpeechFields DEF SpeechInv
  <2>2. CASE cut' = cut \cup {speech.frame}
    <3>1. Cardinality(cut') = Cardinality(cut) + 1
      BY <1>1, <1>3, <2>2, FS_AddElement DEF SpeechInv
    <3> QED BY <1>3, <3>1 DEF SpeechInv
  <2> QED BY <1>1, <2>1, <2>2
<1>8. speech'.on => speech'.frame \notin cut' /\ speech'.frame > 0
  BY <1>2
<1>9. link \in {"open", "eof", "reset"} /\ pipeline \in {"new", "running", "ending", "closed"}
      /\ heard \in Seq(Heard)
  BY DEF SpeechInv
<1>10. Open' /\ heard' # <<>> => LastHeard'
  BY <1>1, <1>3, <1>6
<1>11. Open' /\ speech'.on /\ speech'.written > 0 => heard' # <<>>
  BY <1>2
<1>12. Len(heard') <= naps' + Cardinality(cut') + (IF speech'.asleep THEN 1 ELSE 0)
  <2>1. CASE cut' = cut
    BY <1>1, <1>2, <1>3, <1>7, <2>1, SpeechFields
  <2>2. CASE cut' = cut \cup {speech.frame}
    <3>1. Cardinality(cut') = Cardinality(cut) + 1
      BY <1>1, <1>3, <2>2, FS_AddElement DEF SpeechInv
    <3> QED BY <1>1, <1>2, <1>3, <1>7, <3>1, SpeechFields
  <2> QED BY <1>1, <2>1, <2>2
<1> QED BY <1>1, <1>2, <1>4, <1>5, <1>8, <1>9, <1>10, <1>11, <1>12, SpeechFields DEF SpeechInv

LEMMA SpeechNext == SpeechInv /\ [Next]_vars => SpeechInv'
<1> SUFFICES ASSUME SpeechInv, [Next]_vars PROVE SpeechInv'
  OBVIOUS
<1>1. CASE Send \/ Disconnect \/ Start \/ Stop \/ Close \/ Read \/ Over \/ UNCHANGED vars
  BY <1>1, SpeechRests DEF SpeechInv, Send, Disconnect, Start, Stop, Close, Read, ReadMessage,
     ReadFails, ReadRaises, Over, vars, input, output, Open
<1> QED BY <1>1, SpeakInv, WriteChunkInv, WakeInv, FrameOver DEF Next, Write

----------------------------------------------------------------------------
(* From the caller: what is pushed of the messages read                     *)

MeantOnes == {k \in 1..received : Meant(sent[k])}
Got == {i \in DOMAIN pushed : pushed[i] \notin Ends}

\* Before start there is no read task, so no end is undone by one.
CallerInv ==
  /\ sent \in Seq(Messages) /\ received \in 0..Len(sent)
  /\ pipeline \in {"new", "running", "ending", "closed"}
  /\ reader \in {"none", "reading", "done", "cancelled"}
  /\ pushed \in Seq(Frame)
  /\ pipeline = "new" => reader = "none"
  /\ EndsOnce
  /\ PipelineHearsCaller

LEMMA UpTo ==
  \A n \in Nat : /\ \A i \in 1..(n - 1) : i \in 1..n /\ i # n
                 /\ \A i \in 1..n : i # n => i \in 1..(n - 1)
                 /\ 1..(n + 1) = 1..n \cup {n + 1} /\ n + 1 \notin 1..n
OBVIOUS

\* Which frames are not an end, when only the last can be one.
LEMMA OneEnd ==
  ASSUME NEW p \in Seq(Frame), NEW done \in BOOLEAN,
         \A i \in DOMAIN p : p[i] \in Ends => i = Len(p),
         done <=> p # <<>> /\ Last(p) \in Ends,
         NEW got, got = {i \in DOMAIN p : p[i] \notin Ends}
  PROVE  /\ ~done => got = 1..Len(p) /\ Cardinality(got) = Len(p) /\ ~Contains(p, "CancelFrame")
         /\ done => /\ got = 1..(Len(p) - 1) /\ Cardinality(got) = Len(p) - 1 /\ p # <<>>
<1>1. DOMAIN p = 1..Len(p) /\ Len(p) \in Nat /\ (p # <<>> => Len(p) - 1 \in Nat)
  OBVIOUS
<1>2. \A n \in Nat : Cardinality(1..n) = n
  <2> TAKE n \in Nat
  <2>1. Cardinality(1..n) = IF 1 > n THEN 0 ELSE n - 1 + 1
    BY FS_Interval
  <2> QED BY <2>1
<1>3. CASE ~done
  <2>1. ASSUME NEW i \in 1..Len(p) PROVE p[i] \notin Ends
    <3> SUFFICES ASSUME p[i] \in Ends PROVE FALSE
      OBVIOUS
    <3>1. i = Len(p)
      BY <1>1
    <3>2. p # <<>>
      BY <1>1
    <3> QED BY <1>3, <3>1, <3>2 DEF Last
  <2>2. got = 1..Len(p)
    BY <1>1, <2>1
  <2>3. ~Contains(p, "CancelFrame")
    <3>1. "CancelFrame" \in Ends
      BY DEF Ends
    <3> QED BY <2>1, <3>1 DEF Contains
  <2> QED BY <1>1, <1>2, <1>3, <2>2, <2>3
<1>4. CASE done
  <2>1. p # <<>> /\ p[Len(p)] \in Ends
    BY <1>4 DEF Last
  <2>2. \A i \in 1..(Len(p) - 1) : i \in 1..Len(p) /\ i # Len(p)
    BY <1>1, UpTo
  <2>3. \A i \in 1..(Len(p) - 1) : p[i] \notin Ends
    BY <1>1, <2>2
  <2>4. \A i \in 1..Len(p) : i # Len(p) => i \in 1..(Len(p) - 1)
    BY <1>1, UpTo
  <2>5. got = 1..(Len(p) - 1)
    BY <1>1, <2>1, <2>2, <2>3, <2>4
  <2> QED BY <1>1, <1>2, <1>4, <2>1, <2>5
<1> QED BY <1>3, <1>4

LEMMA GotWhich ==
  ASSUME pushed \in Seq(Frame), EndsOnce
  PROVE  /\ reader # "done" => /\ Got = 1..Len(pushed) /\ Cardinality(Got) = Len(pushed)
                               /\ ~Contains(pushed, "CancelFrame")
         /\ reader = "done" => Got = 1..(Len(pushed) - 1) /\ pushed # <<>>
<1> DEFINE done == reader = "done"
<1>1. /\ \A i \in DOMAIN pushed : pushed[i] \in Ends => i = Len(pushed)
      /\ done <=> pushed # <<>> /\ Last(pushed) \in Ends
  BY DEF EndsOnce
<1>2. Got = {i \in DOMAIN pushed : pushed[i] \notin Ends} /\ done \in BOOLEAN
  BY DEF Got
<1> HIDE DEF done
<1>3. /\ ~done => /\ Got = 1..Len(pushed) /\ Cardinality(Got) = Len(pushed)
                  /\ ~Contains(pushed, "CancelFrame")
      /\ done => Got = 1..(Len(pushed) - 1) /\ pushed # <<>>
  BY <1>1, <1>2, OneEnd
<1> QED BY <1>3 DEF done

\* The same of the next state.
LEMMA GotNext ==
  ASSUME pushed' \in Seq(Frame), EndsOnce'
  PROVE  /\ reader' # "done" => /\ Got' = 1..Len(pushed') /\ Cardinality(Got') = Len(pushed')
                                /\ ~Contains(pushed', "CancelFrame")
         /\ reader' = "done" => Got' = 1..(Len(pushed') - 1)
<1> DEFINE done == reader' = "done"
<1>1. /\ \A i \in DOMAIN pushed' : pushed'[i] \in Ends => i = Len(pushed')
      /\ done <=> pushed' # <<>> /\ Last(pushed') \in Ends
  BY DEF EndsOnce
<1>2. Got' = {i \in DOMAIN pushed' : pushed'[i] \notin Ends} /\ done \in BOOLEAN
  BY DEF Got
<1> HIDE DEF done
<1>3. /\ ~done => /\ Got' = 1..Len(pushed') /\ Cardinality(Got') = Len(pushed')
                  /\ ~Contains(pushed', "CancelFrame")
      /\ done => Got' = 1..(Len(pushed') - 1)
  BY <1>1, <1>2, OneEnd
<1> QED BY <1>3 DEF done

\* The property with its sets named.
LEMMA Hears ==
  PipelineHearsCaller <=>
    /\ Cardinality(Got) = Cardinality(MeantOnes) - IF Contains(pushed, "CancelFrame") THEN 1 ELSE 0
    /\ \A k \in MeantOnes : \A n \in Got :
         n = Cardinality(MeantOnes \cap 1..k) => pushed[n] = Said(sent[k])
BY DEF PipelineHearsCaller, MeantOnes, Got

LEMMA HearsNext ==
  PipelineHearsCaller' <=>
    /\ Cardinality(Got') = Cardinality(MeantOnes') - IF Contains(pushed', "CancelFrame") THEN 1 ELSE 0
    /\ \A k \in MeantOnes' : \A n \in Got' :
         n = Cardinality(MeantOnes' \cap 1..k) => pushed'[n] = Said(sent'[k])
BY DEF PipelineHearsCaller, MeantOnes, Got, Said

\* One more message that is for the pipeline.
LEMMA OneMoreMeant ==
  ASSUME received \in Nat, NEW longer, longer = MeantOnes \cup {received + 1}
  PROVE  /\ Cardinality(MeantOnes) \in Nat /\ Cardinality(longer) = Cardinality(MeantOnes) + 1
         /\ longer \cap 1..(received + 1) = longer
         /\ \A k \in MeantOnes : /\ longer \cap 1..k = MeantOnes \cap 1..k
                                 /\ Cardinality(MeantOnes \cap 1..k) <= Cardinality(MeantOnes)
<1>1. MeantOnes \subseteq 1..received
  BY DEF MeantOnes
<1> HIDE DEF MeantOnes
<1>2. IsFiniteSet(1..received)
  BY FS_Interval
<1>3. IsFiniteSet(MeantOnes)
  BY <1>1, <1>2, FS_Subset
<1>4. Cardinality(MeantOnes) \in Nat
  BY <1>3, FS_CardinalityType
<1>5. Cardinality(longer) = Cardinality(MeantOnes) + 1
  <2>1. received + 1 \notin MeantOnes
    BY <1>1
  <2> QED BY <1>3, <2>1, FS_AddElement
<1>6. longer \cap 1..(received + 1) = longer
  <2>1. longer \subseteq 1..(received + 1)
    BY <1>1, UpTo
  <2> QED BY <2>1
<1>7. ASSUME NEW k \in MeantOnes
      PROVE  /\ longer \cap 1..k = MeantOnes \cap 1..k
             /\ Cardinality(MeantOnes \cap 1..k) <= Cardinality(MeantOnes)
  <2>1. longer \cap 1..k = MeantOnes \cap 1..k
    BY <1>1
  <2>2. MeantOnes \cap 1..k \subseteq MeantOnes
    OBVIOUS
  <2> QED BY <1>3, <2>1, <2>2, FS_Subset
<1> QED BY <1>4, <1>5, <1>6, <1>7

LEMMA CallerInit == Init => CallerInv
<1> SUFFICES ASSUME Init PROVE CallerInv
  OBVIOUS
<1>1. received = 0 /\ pushed = <<>> /\ reader = "none" /\ Len(pushed) = 0 /\ sent = <<>>
  BY DEF Init
<1>2. EndsOnce
  BY <1>1 DEF EndsOnce
<1>3. MeantOnes = {} /\ Got = {}
  BY <1>1 DEF MeantOnes, Got
<1>4. Cardinality({}) = 0 /\ ~Contains(pushed, "CancelFrame")
  BY <1>1, FS_EmptySet DEF Contains
<1>5. PipelineHearsCaller
  BY <1>3, <1>4, Hears
<1> QED BY <1>1, <1>2, <1>5 DEF Init, CallerInv

\* A frame pushed while the reader reads keeps the ends at the end.
LEMMA EndsKept ==
  ASSUME CallerInv, reader = "reading", NEW frame \in Frame, pushed' = Append(pushed, frame),
         reader' = IF frame \in Ends THEN "done" ELSE "reading"
  PROVE  pushed' \in Seq(Frame) /\ EndsOnce'
<1>1. /\ pushed' \in Seq(Frame) /\ Len(pushed) \in Nat /\ Len(pushed') = Len(pushed) + 1
      /\ pushed'[Len(pushed')] = frame /\ pushed' # <<>> /\ DOMAIN pushed' = 1..Len(pushed')
      /\ \A i \in 1..Len(pushed) : pushed'[i] = pushed[i]
  BY DEF CallerInv
<1>2. \A i \in 1..Len(pushed) : pushed[i] \notin Ends
  <2>1. Got = 1..Len(pushed)
    BY GotWhich DEF CallerInv
  <2> QED BY <2>1 DEF Got
<1>3. ASSUME NEW i \in DOMAIN pushed', pushed'[i] \in Ends PROVE i = Len(pushed')
  BY <1>1, <1>2, <1>3
<1>4. Last(pushed') \in Ends <=> frame \in Ends
  BY <1>1 DEF Last
<1> QED BY <1>1, <1>3, <1>4 DEF EndsOnce

\* Nothing read, nothing pushed, no end come or gone.
LEMMA CallerRests ==
  ASSUME CallerInv, UNCHANGED <<received, pushed>>,
         sent' \in Seq(Messages), Len(sent) <= Len(sent'), \A k \in 1..Len(sent) : sent'[k] = sent[k],
         pipeline' \in {"running", "ending", "closed"} \/ UNCHANGED <<pipeline, reader>>,
         reader' \in {"none", "reading", "done", "cancelled"}, reader' = "done" <=> reader = "done"
  PROVE  CallerInv'
<1>1. received \in Nat /\ Len(sent) \in Nat /\ Len(sent') \in Nat /\ received <= Len(sent)
  BY DEF CallerInv
<1>2. \A k \in 1..received : sent'[k] = sent[k]
  BY <1>1
<1>3. MeantOnes' = MeantOnes /\ Got' = Got
  BY <1>2 DEF MeantOnes, Got, Meant
<1>4. \A k \in MeantOnes : sent'[k] = sent[k]
  BY <1>2 DEF MeantOnes
<1>5. PipelineHearsCaller'
  BY <1>3, <1>4, Hears, HearsNext DEF CallerInv
<1>6. EndsOnce'
  BY DEF CallerInv, EndsOnce
<1> QED BY <1>1, <1>5, <1>6 DEF CallerInv

\* An end pushed, with nothing more read or with a message that is not meant.
LEMMA EndPushed ==
  ASSUME CallerInv, reader = "reading", reader' = "done", UNCHANGED <<sent, pipeline>>,
         received' \in 0..Len(sent), MeantOnes' = MeantOnes, pushed' = Append(pushed, "EndFrame")
  PROVE  CallerInv'
<1>1. "EndFrame" \in Frame /\ "EndFrame" \in Ends
  BY DEF Frame, Ends
<1>2. pushed' \in Seq(Frame) /\ EndsOnce'
  BY <1>1, EndsKept
<1>3. Got = 1..Len(pushed) /\ Cardinality(Got) = Len(pushed) /\ ~Contains(pushed, "CancelFrame")
  BY GotWhich DEF CallerInv
<1>4. /\ Len(pushed') = Len(pushed) + 1 /\ Len(pushed) \in Nat /\ pushed'[Len(pushed')] = "EndFrame"
      /\ \A i \in 1..Len(pushed) : pushed'[i] = pushed[i]
  BY DEF CallerInv
<1>5. \A i \in 1..Len(pushed) : pushed[i] # "CancelFrame"
  BY <1>3 DEF Contains
<1>6. ~Contains(pushed', "CancelFrame")
  BY <1>4, <1>5 DEF Contains
<1>7. Got' = Got
  <2>1. Got' = 1..(Len(pushed') - 1)
    BY <1>2, GotNext
  <2> QED BY <1>3, <1>4, <2>1
<1>8. \A n \in Got : pushed'[n] = pushed[n]
  BY <1>3, <1>4
<1>9. PipelineHearsCaller'
  BY <1>3, <1>6, <1>7, <1>8, Hears, HearsNext DEF CallerInv
<1> QED BY <1>2, <1>9 DEF CallerInv

\* A message that is not for the pipeline is read, and nothing pushed.
LEMMA ReadNothing ==
  ASSUME CallerInv, UNCHANGED <<reader, sent, pipeline, pushed>>,
         received' \in 0..Len(sent), MeantOnes' = MeantOnes
  PROVE  CallerInv'
<1>1. Got' = Got /\ EndsOnce'
  BY DEF Got, EndsOnce, CallerInv
<1>2. PipelineHearsCaller'
  BY <1>1, Hears, HearsNext DEF CallerInv
<1> QED BY <1>1, <1>2 DEF CallerInv

\* A message for the pipeline is read, and its frame pushed.
LEMMA FramePushed ==
  ASSUME CallerInv, reader = "reading", UNCHANGED <<reader, sent, pipeline>>,
         received < Len(sent), received' = received + 1, Meant(sent[received + 1]),
         Said(sent[received + 1]) \in Frame \ Ends, pushed' = Append(pushed, Said(sent[received + 1]))
  PROVE  CallerInv'
<1>1. received \in Nat /\ received' \in 0..Len(sent)
  BY DEF CallerInv
<1>2. pushed' \in Seq(Frame) /\ EndsOnce'
  BY EndsKept
<1>3. /\ Got = 1..Len(pushed) /\ Cardinality(Got) = Len(pushed) /\ ~Contains(pushed, "CancelFrame")
      /\ Cardinality(MeantOnes) = Len(pushed)
  <2>1. Got = 1..Len(pushed) /\ Cardinality(Got) = Len(pushed) /\ ~Contains(pushed, "CancelFrame")
    BY GotWhich DEF CallerInv
  <2>2. Cardinality(MeantOnes) \in Nat
    BY <1>1, OneMoreMeant
  <2>3. Cardinality(Got) = Cardinality(MeantOnes) - 0
    BY <2>1, Hears DEF CallerInv
  <2> QED BY <2>1, <2>2, <2>3
<1>4. /\ Len(pushed') = Len(pushed) + 1 /\ Len(pushed) \in Nat
      /\ pushed'[Len(pushed')] = Said(sent[received + 1])
      /\ \A i \in 1..Len(pushed) : pushed'[i] = pushed[i]
  BY DEF CallerInv
<1>5. Got' = 1..Len(pushed') /\ Cardinality(Got') = Len(pushed') /\ ~Contains(pushed', "CancelFrame")
  <2>1. reader' # "done"
    OBVIOUS
  <2> QED BY <1>2, <2>1, GotNext
<1>6. MeantOnes' = MeantOnes \cup {received + 1}
  BY <1>1 DEF MeantOnes
<1>7. /\ Cardinality(MeantOnes') = Cardinality(MeantOnes) + 1
      /\ MeantOnes' \cap 1..(received + 1) = MeantOnes'
      /\ \A k \in MeantOnes : /\ MeantOnes' \cap 1..k = MeantOnes \cap 1..k
                              /\ Cardinality(MeantOnes \cap 1..k) <= Cardinality(MeantOnes)
  BY <1>1, <1>6, OneMoreMeant
<1>8. ASSUME NEW k \in MeantOnes', NEW n \in Got', n = Cardinality(MeantOnes' \cap 1..k)
      PROVE  pushed'[n] = Said(sent'[k])
  <2>1. CASE k \in MeantOnes
    <3>1. n = Cardinality(MeantOnes \cap 1..k) /\ n <= Len(pushed)
      BY <1>3, <1>7, <1>8, <2>1
    <3>2. n \in Got /\ pushed'[n] = pushed[n]
      BY <1>3, <1>4, <1>5, <3>1
    <3>3. pushed[n] = Said(sent[k])
      BY <2>1, <3>1, <3>2, Hears DEF CallerInv
    <3> QED BY <3>2, <3>3
  <2>2. CASE k = received + 1
    <3>1. n = Len(pushed')
      BY <1>3, <1>4, <1>7, <1>8, <2>2
    <3> QED BY <1>4, <2>2, <3>1
  <2> QED BY <1>6, <2>1, <2>2
<1>9. PipelineHearsCaller'
  BY <1>3, <1>4, <1>5, <1>7, <1>8, HearsNext
<1> QED BY <1>1, <1>2, <1>9 DEF CallerInv

\* The loop fails on a frame of audio: the last one meant is the one lost.
LEMMA FrameLost ==
  ASSUME CallerInv, ReadRaises
  PROVE  CallerInv'
<1>1. /\ reader = "reading" /\ reader' = "done" /\ UNCHANGED <<sent, pipeline>>
      /\ received < Len(sent) /\ received' = received + 1 /\ sent[received + 1] = <<"audio">>
      /\ pushed' = Append(pushed, "CancelFrame")
  BY DEF ReadRaises, output
<1>2. received \in Nat /\ received' \in 0..Len(sent) /\ Meant(sent[received + 1])
  BY <1>1 DEF CallerInv, Meant
<1>3. pushed' \in Seq(Frame) /\ EndsOnce'
  BY <1>1, EndsKept DEF Frame, Ends
<1>4. /\ Got = 1..Len(pushed) /\ Cardinality(Got) = Len(pushed)
      /\ Cardinality(MeantOnes) = Len(pushed)
  <2>1. Got = 1..Len(pushed) /\ Cardinality(Got) = Len(pushed) /\ ~Contains(pushed, "CancelFrame")
    BY <1>1, GotWhich DEF CallerInv
  <2>2. Cardinality(MeantOnes) \in Nat
    BY <1>2, OneMoreMeant
  <2>3. Cardinality(Got) = Cardinality(MeantOnes) - 0
    BY <2>1, Hears DEF CallerInv
  <2> QED BY <2>1, <2>2, <2>3
<1>5. /\ Len(pushed') = Len(pushed) + 1 /\ Len(pushed) \in Nat
      /\ pushed'[Len(pushed')] = "CancelFrame"
      /\ \A i \in 1..Len(pushed) : pushed'[i] = pushed[i]
  BY <1>1 DEF CallerInv
<1>6. Got' = 1..Len(pushed) /\ Contains(pushed', "CancelFrame")
  <2>1. Got' = 1..(Len(pushed') - 1)
    BY <1>1, <1>3, GotNext
  <2> QED BY <1>5, <2>1 DEF Contains
<1>7. MeantOnes' = MeantOnes \cup {received + 1}
  BY <1>1, <1>2 DEF MeantOnes
<1>8. /\ Cardinality(MeantOnes') = Cardinality(MeantOnes) + 1
      /\ MeantOnes' \cap 1..(received + 1) = MeantOnes'
      /\ \A k \in MeantOnes : MeantOnes' \cap 1..k = MeantOnes \cap 1..k
  BY <1>2, <1>7, OneMoreMeant
<1>9. ASSUME NEW k \in MeantOnes', NEW n \in Got', n = Cardinality(MeantOnes' \cap 1..k)
      PROVE  pushed'[n] = Said(sent'[k])
  <2>1. CASE k \in MeantOnes
    <3>1. n = Cardinality(MeantOnes \cap 1..k) /\ n \in Got /\ pushed'[n] = pushed[n]
      BY <1>4, <1>5, <1>6, <1>8, <1>9, <2>1
    <3>2. pushed[n] = Said(sent[k])
      BY <2>1, <3>1, Hears DEF CallerInv
    <3> QED BY <1>1, <3>1, <3>2
  <2>2. CASE k = received + 1
    <3>1. n = Len(pushed) + 1
      BY <1>4, <1>8, <1>9, <2>2
    <3> QED BY <1>5, <1>6, <3>1
  <2> QED BY <1>7, <2>1, <2>2
<1>10. Cardinality(Got') = Cardinality(MeantOnes') - 1
  BY <1>4, <1>5, <1>6, <1>8
<1>11. PipelineHearsCaller'
  BY <1>6, <1>9, <1>10, HearsNext
<1> QED BY <1>1, <1>2, <1>3, <1>11 DEF CallerInv

LEMMA ReadMessageInv ==
  ASSUME CallerInv, ReadMessage
  PROVE  CallerInv'
<1> DEFINE m == sent[received + 1]
<1>1. /\ reader = "reading" /\ received < Len(sent) /\ received' = received + 1
      /\ pushed' = pushed \o Frames(m) /\ UNCHANGED <<sent, pipeline>>
      /\ reader' = IF m = <<"hangup">> THEN "done" ELSE reader
  BY DEF ReadMessage, output
<1>2. /\ received \in Nat /\ received + 1 \in 0..Len(sent) /\ m \in Messages /\ pushed \in Seq(Frame)
      /\ MeantOnes' = IF Meant(m) THEN MeantOnes \cup {received + 1} ELSE MeantOnes
  <2>1. received \in Nat /\ Len(sent) \in Nat /\ received + 1 \in 1..Len(sent)
    BY <1>1 DEF CallerInv
  <2>2. m \in Messages /\ pushed \in Seq(Frame)
    BY <2>1 DEF CallerInv
  <2>3. MeantOnes' = {k \in 1..(received + 1) : Meant(sent[k])}
    BY <1>1 DEF MeantOnes
  <2>4. 1..(received + 1) = 1..received \cup {received + 1}
    BY <2>1, UpTo
  <2>5. MeantOnes = {k \in 1..received : Meant(sent[k])}
    BY DEF MeantOnes
  <2>6. ASSUME Meant(m) PROVE MeantOnes' = MeantOnes \cup {received + 1}
    BY <2>3, <2>4, <2>5, <2>6
  <2>7. ASSUME ~Meant(m) PROVE MeantOnes' = MeantOnes
    BY <2>3, <2>4, <2>5, <2>7
  <2> QED BY <2>1, <2>2, <2>6, <2>7
<1> HIDE DEF m
<1>3. CASE m = <<"hangup">>
  <2>1. Frames(m) = <<"EndFrame">> /\ ~Meant(m)
    BY <1>3 DEF Frames, Meant
  <2>2. pushed' = Append(pushed, "EndFrame")
    BY <1>1, <1>2, <2>1
  <2> QED BY <1>1, <1>2, <1>3, <2>1, <2>2, EndPushed
<1>4. CASE m = <<"audio">>
  <2>1. Frames(m) = <<"audio">> /\ Meant(m) /\ Said(m) = "audio" /\ m # <<"hangup">>
    BY <1>4 DEF Frames, Meant, Said
  <2>2. pushed' = Append(pushed, Said(m))
    BY <1>1, <1>2, <2>1
  <2>3. Said(m) \in Frame \ Ends
    BY <2>1 DEF Frame, Ends
  <2> QED BY <1>1, <2>1, <2>2, <2>3, FramePushed DEF m
<1>5. CASE m = <<"uuid">> \/ m = <<"other">> \/ m = <<"dtmf", Blank>>
  <2>1. Frames(m) = <<>> /\ ~Meant(m) /\ m # <<"hangup">>
    BY <1>5, AudioSocketAssumption DEF Frames, Meant
  <2>2. pushed' = pushed
    BY <1>1, <1>2, <2>1
  <2> QED BY <1>1, <1>2, <2>1, <2>2, ReadNothing
<1>6. ASSUME NEW d \in Digits, m = <<"dtmf", d>> PROVE CallerInv'
  <2>1. Frames(m) = <<d>> /\ Meant(m) /\ Said(m) = d /\ m # <<"hangup">>
    BY <1>6, AudioSocketAssumption DEF Frames, Meant, Said
  <2>2. pushed' = Append(pushed, Said(m))
    BY <1>1, <1>2, <2>1
  <2>3. Said(m) \in Frame \ Ends
    BY <2>1, AudioSocketAssumption DEF Frame, Ends
  <2> QED BY <1>1, <2>1, <2>2, <2>3, FramePushed DEF m
<1>7. \/ m = <<"hangup">> \/ m = <<"audio">> \/ m = <<"uuid">> \/ m = <<"other">>
      \/ m = <<"dtmf", Blank>>
      \/ \E d \in Digits : m = <<"dtmf", d>>
  BY <1>2 DEF Messages
<1> QED BY <1>3, <1>4, <1>5, <1>6, <1>7

LEMMA CallerNext == CallerInv /\ [Next]_vars => CallerInv'
<1> SUFFICES ASSUME CallerInv, [Next]_vars PROVE CallerInv'
  OBVIOUS
<1>1. CASE Send
  <2>1. PICK m \in Messages : sent' = Append(sent, m)
    BY <1>1 DEF Send
  <2>2. /\ sent' \in Seq(Messages) /\ Len(sent) <= Len(sent')
        /\ \A k \in 1..Len(sent) : sent'[k] = sent[k]
    BY <2>1 DEF CallerInv
  <2>3. UNCHANGED <<received, pipeline, reader, pushed>>
    BY <1>1 DEF Send
  <2> QED BY <2>2, <2>3, CallerRests DEF CallerInv
<1>2. CASE Disconnect \/ Start \/ Stop \/ Close \/ Speak \/ Write \/ Interrupt \/ Over \/ UNCHANGED vars
  <2>1. UNCHANGED <<sent, received, pushed>>
    BY <1>2 DEF Disconnect, Start, Stop, Close, Speak, Write, WriteChunk, Wake, Written, Interrupt,
       Over, vars, input
  <2>2. /\ pipeline' \in {"running", "ending", "closed"} \/ UNCHANGED <<pipeline, reader>>
        /\ reader' \in {"none", "reading", "done", "cancelled"}
        /\ reader' = "done" <=> reader = "done"
    BY <1>2 DEF CallerInv, Disconnect, Start, Stop, Close, Speak, Write, WriteChunk, Wake, Written,
       Interrupt, Over, vars, input
  <2>3. Len(sent) <= Len(sent)
    BY DEF CallerInv
  <2> QED BY <2>1, <2>2, <2>3, CallerRests DEF CallerInv
<1>3. CASE ReadFails
  <2>1. /\ reader = "reading" /\ reader' = "done" /\ UNCHANGED <<sent, pipeline, received>>
        /\ pushed' = Append(pushed, "EndFrame")
    BY <1>3 DEF ReadFails
  <2>2. MeantOnes' = MeantOnes
    BY <2>1 DEF MeantOnes
  <2>3. received' \in 0..Len(sent)
    BY <2>1 DEF CallerInv
  <2> QED BY <2>1, <2>2, <2>3, EndPushed
<1> QED BY <1>1, <1>2, <1>3, FrameLost, ReadMessageInv DEF Next, Read

----------------------------------------------------------------------------

\* Every variable keeps its type.
THEOREM TypeCorrect == Spec => []TypeOK
<1>1. SpeechInv /\ CallerInv => TypeOK
  <2> SUFFICES ASSUME SpeechInv, CallerInv PROVE TypeOK
    OBVIOUS
  <2>1. cut \subseteq 1..MaxFrames
    BY SpeechFields DEF SpeechInv
  <2> QED BY <2>1 DEF SpeechInv, CallerInv, TypeOK, Speech, Heard, Frame
<1> QED BY <1>1, SpeechInit, SpeechNext, CallerInit, CallerNext, PTL DEF Spec

\* Whatever is sent, and however the reading ends, the pipeline gets the
\* caller's audio and digits in their order, and one end (_read_loop).
THEOREM CallerHeard == Spec => []CallerIsHeard
<1>1. CallerInv => CallerIsHeard
  BY DEF CallerInv, CallerIsHeard
<1> QED BY <1>1, CallerInit, CallerNext, PTL DEF Spec

\* However long the agent speaks and wherever it is interrupted, Asterisk gets
\* its speech in order and no faster than it is played (write_audio_frame).
THEOREM AgentHeard == Spec => []AgentIsHeard
<1>1. SpeechInv => AgentIsHeard
  <2> SUFFICES ASSUME SpeechInv PROVE AgentIsHeard
    OBVIOUS
  <2>1. Paced
    BY SpeechFields, CutCount DEF SpeechInv, Paced
  <2> QED BY <2>1 DEF SpeechInv, AgentIsHeard
<1> QED BY <1>1, SpeechInit, SpeechNext, PTL DEF Spec
=============================================================================
