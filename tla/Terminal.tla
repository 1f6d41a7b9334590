------------------------------ MODULE Terminal ------------------------------
(***************************************************************************)
(* services/terminal-service: the rows of terminal sessions, their output  *)
(* and the recorder, which numbers the chunks of a recorded session,       *)
(* buffers them and writes the file when the session is closed.  A step is *)
(* an SQL statement, a critical section of Recorder.mu or of a             *)
(* recording's own mutex, or the write of the file.                        *)
(***************************************************************************)
EXTENDS Naturals, Sequences

CONSTANTS
  Calls,      \* requests in flight at one time
  RowIds,     \* ids of sessions; a row is never deleted
  Takes,      \* recordings that are started, over all sessions
  MaxChunks   \* chunks that one recording gets at most

VARIABLES
  terminals,  \* rows of terminal_sessions: the status of each id, or "none"
  outputs,    \* the numbered rows of terminal_outputs
  active,     \* Recorder.recordings: the take of a session, or 0
  buffer,     \* RecordingState: Format, the chunks in the Buffer, SequenceNum
  castFiles,  \* the recording files by session and extension: the take that was
              \* written last
  termCall    \* requests in flight

terminalVars == <<terminals, outputs, active, buffer, castFiles, termCall>>

Status == {"open", "closed"}   \* "pending" and "active" are open
Numbers == 1 .. MaxChunks
Formats == {"asciinema", "raw", "html"}
RecordingState == [format : Formats, lines : Seq(Numbers), number : 0 .. MaxChunks]
TerminalOutput == [session : RowIds, take : Takes, number : Numbers]

Idle == [op |-> "none"]
Call ==
  {Idle}
    \cup [op : {"update", "close", "ask", "stop", "record"}, id : RowIds]
    \cup [op : {"file", "number"}, id : RowIds, take : Takes]
    \cup [op : {"insert"}, output : TerminalOutput]

TypeOK ==
  /\ terminals \in [RowIds -> Status \cup {"none"}]
  /\ outputs \subseteq TerminalOutput
  /\ active \in [RowIds -> Takes \cup {0}]
  /\ DOMAIN buffer \subseteq Takes
  /\ \A t \in DOMAIN buffer : buffer[t] \in RecordingState
  /\ castFiles \in [RowIds \X Formats -> Takes \cup {0}]
  /\ termCall \in [Calls -> Call]

\* NewRecorder
Init ==
  /\ terminals = [id \in RowIds |-> "none"]
  /\ outputs = {}
  /\ active = [id \in RowIds |-> 0]
  /\ buffer = <<>>
  /\ castFiles = [file \in RowIds \X Formats |-> 0]
  /\ termCall = [k \in Calls |-> Idle]

recorderVars == <<outputs, active, buffer, castFiles>>

Become(k, call) == termCall' = [termCall EXCEPT ![k] = call]
Answer(k) == Become(k, Idle)
Known(id) == terminals[id] # "none"

-----------------------------------------------------------------------------
(* Reads *)

\* The numbers of the rows of a session after a cursor; the order is theirs.
GetOutputs(id, after) == {o \in outputs : o.session = id /\ o.number > after}

IsRecording(id) == active[id] # 0

\* The recording that runs; its format decides what can be read from it.
Running(id) == buffer[active[id]]

\* GetPlaybackData answers an error when there is nothing to play back.
PlaybackFails(id) == ~IsRecording(id) \/ Running(id).format # "asciinema"

\* The lines of the buffer after the first `after`.
GetPlaybackData(id, after) ==
  LET lines == Running(id).lines IN {lines[i] : i \in after + 1 .. Len(lines)}

\* The whole buffer of a running recording, whatever its format is; of an html
\* recording it is empty.
GetAsciinemaData(id) == {Running(id).lines[i] : i \in 1 .. Len(Running(id).lines)}

-----------------------------------------------------------------------------
(* Sessions *)

CreateTerminalSession(k, id) ==
  /\ termCall[k] = Idle
  /\ ~Known(id)
  /\ terminals' = [terminals EXCEPT ![id] = "open"]
  /\ UNCHANGED <<recorderVars, termCall>>

UpdateTerminalSession(k, id) ==
  /\ termCall[k] = Idle
  /\ Known(id)
  /\ Become(k, [op |-> "update", id |-> id])
  /\ UNCHANGED <<terminals, recorderVars>>

\* UPDATE ... WHERE id, whatever the row has become by then, with a status of
\* the request's or the one that was read.
UpdateSession(k, status) ==
  /\ termCall[k].op = "update"
  /\ terminals' = [terminals EXCEPT ![termCall[k].id] = status]
  /\ Answer(k)
  /\ UNCHANGED recorderVars

CloseTerminalSession(k, id) ==
  /\ termCall[k] = Idle
  /\ Known(id)
  /\ Become(k, [op |-> "close", id |-> id])
  /\ UNCHANGED <<terminals, recorderVars>>

CloseSession(k) ==
  /\ termCall[k].op = "close"
  /\ terminals' = [terminals EXCEPT ![termCall[k].id] = "closed"]
  /\ Become(k, [termCall[k] EXCEPT !.op = "ask"])
  /\ UNCHANGED recorderVars

AskWhetherRecording(k) ==
  /\ termCall[k].op = "ask"
  /\ IF IsRecording(termCall[k].id) THEN Become(k, [termCall[k] EXCEPT !.op = "stop"])
     ELSE Answer(k)
  /\ UNCHANGED <<terminals, recorderVars>>

-----------------------------------------------------------------------------
(* The recorder *)

StartRecording(k, id) ==
  /\ termCall[k] = Idle
  /\ Known(id)
  /\ Become(k, [op |-> "record", id |-> id])
  /\ UNCHANGED <<terminals, recorderVars>>

\* StartRecording of the recorder, in the format that was asked for; the
\* session may be closed by now.
StartTake(k, format) ==
  /\ termCall[k].op = "record"
  /\ LET id == termCall[k].id IN
     \/ IsRecording(id) /\ UNCHANGED <<active, buffer>>
     \/ /\ ~IsRecording(id)
        /\ LET t == Len(buffer) + 1 IN
           /\ t \in Takes
           /\ active' = [active EXCEPT ![id] = t]
           /\ buffer' = Append(buffer,
                [format |-> format, lines |-> <<>>, number |-> 0])
  /\ Answer(k)
  /\ UNCHANGED <<terminals, outputs, castFiles>>

\* The lookup under Recorder.mu.  A chunk of a session that is not recorded
\* is inserted with the number 0: no cursor from 0 on reads it, and it is left
\* out here.
WriteOutput(k, id) ==
  /\ termCall[k] = Idle
  /\ IsRecording(id)
  /\ Become(k, [op |-> "number", id |-> id, take |-> active[id]])
  /\ UNCHANGED <<terminals, recorderVars>>

\* What a chunk adds to the buffer: a line, its bytes, or nothing to html.
Buffered(take, n) == IF take.format = "html" THEN take.lines ELSE Append(take.lines, n)

\* Slip: the number is taken and not counted.
NumberForgotten(k) ==
  /\ termCall[k].op = "number"
  /\ LET call == termCall[k]
         take == buffer[call.take]
         n == take.number + 1
     IN  /\ Len(take.lines) < MaxChunks
         /\ buffer' = [buffer EXCEPT ![call.take].lines = Buffered(take, n)]
         /\ Become(k, [op |-> "insert",
                       output |-> [session |-> call.id, take |-> call.take, number |-> n]])
  /\ UNCHANGED <<terminals, outputs, active, castFiles>>

\* Under the mutex of the recording: the chunk's number and its line.
NumberChunk(k) ==
  /\ termCall[k].op = "number"
  /\ LET call == termCall[k]
         take == buffer[call.take]
         n == take.number + 1
     IN  /\ n \in Numbers
         /\ buffer' = [buffer EXCEPT ![call.take] =
              [take EXCEPT !.lines = Buffered(take, n), !.number = n]]
         /\ Become(k, [op |-> "insert",
                       output |-> [session |-> call.id, take |-> call.take, number |-> n]])
  /\ UNCHANGED <<terminals, outputs, active, castFiles>>

\* The mutex is given up before the INSERT, whose error is ignored.
CreateOutput(k) ==
  /\ termCall[k].op = "insert"
  /\ outputs' \in {outputs, outputs \cup {termCall[k].output}}
  /\ Answer(k)
  /\ UNCHANGED <<terminals, active, buffer, castFiles>>

\* The recording leaves the map; a call that has looked it up still has it.
StopRecording(k) ==
  /\ termCall[k].op = "stop"
  /\ LET id == termCall[k].id IN
     /\ active' = [active EXCEPT ![id] = 0]
     /\ IF IsRecording(id) THEN Become(k, [op |-> "file", id |-> id, take |-> active[id]])
        ELSE Answer(k)
  /\ UNCHANGED <<terminals, outputs, buffer, castFiles>>

\* os.WriteFile, over an earlier file of the same extension; the recording
\* that is returned is dropped, and so is an error, with the buffer.
WriteRecordingFile(k) ==
  /\ termCall[k].op = "file"
  /\ LET call == termCall[k] IN
     castFiles' \in
       {castFiles, [castFiles EXCEPT ![<<call.id, buffer[call.take].format>>] = call.take]}
  /\ Answer(k)
  /\ UNCHANGED <<terminals, outputs, active, buffer>>

\* The process ends and another starts: what it was recording is forgotten
\* unwritten.  (Buffers keep their places, so that later takes are numbered on.)
Restart ==
  /\ active' = [id \in RowIds |-> 0]
  /\ termCall' = [k \in Calls |-> Idle]
  /\ UNCHANGED <<terminals, outputs, buffer, castFiles>>

Next ==
  \/ \E k \in Calls :
       \/ \E id \in RowIds :
            \/ CreateTerminalSession(k, id) \/ UpdateTerminalSession(k, id)
            \/ CloseTerminalSession(k, id) \/ StartRecording(k, id) \/ WriteOutput(k, id)
       \/ \E status \in Status : UpdateSession(k, status)
       \/ \E format \in Formats : StartTake(k, format)
       \/ CloseSession(k) \/ AskWhetherRecording(k)
       \/ NumberChunk(k) \/ CreateOutput(k) \/ StopRecording(k) \/ WriteRecordingFile(k)
  \/ Restart

Spec == Init /\ [][Next]_terminalVars

-----------------------------------------------------------------------------

\* A client may follow a recorded session by its rows or, with the same
\* cursor, by playback, though chunks are numbered, buffered and inserted by
\* overlapping requests.  Of an asciinema recording the playback has, after any
\* number, every chunk that the rows have; of a raw one, which has no playback,
\* the data has; an html one keeps nothing but its rows.  And no two chunks of
\* a recording have one number (one being inserted is not there yet).
PlaybackAgreesWithRows ==
  /\ \A id \in RowIds, after \in 0 .. MaxChunks :
       IsRecording(id) =>
         LET rows == {o.number : o \in {r \in GetOutputs(id, after) : r.take = active[id]}} IN
         /\ ~PlaybackFails(id) => rows \subseteq GetPlaybackData(id, after)
         /\ Running(id).format # "html" => rows \subseteq GetAsciinemaData(id)
  /\ \A k \in Calls : termCall[k].op = "insert" =>
       termCall[k].output \notin outputs
         /\ \A j \in Calls \ {k} : termCall[j] # termCall[k]

\* What a client has seen of a recording stands: its rows are kept, a chunk
\* keeps its number and what is buffered its place in the playback, and no
\* later chunk takes a number at or below one that was given, across stops and
\* restarts.
ChunksStand ==
  [][/\ outputs \subseteq outputs'
     /\ \A t \in DOMAIN buffer :
          /\ t \in DOMAIN buffer' /\ buffer[t].number <= buffer'[t].number
          /\ \A i \in DOMAIN buffer[t].lines :
               i \in DOMAIN buffer'[t].lines /\ buffer'[t].lines[i] = buffer[t].lines[i]
     /\ \A o \in outputs' \ outputs : o.number <= buffer[o.take].number]_terminalVars
=============================================================================
