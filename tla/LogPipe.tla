------------------------------- MODULE LogPipe -------------------------------
(***************************************************************************)
(* A Logger of src/base/Log and the thread that empties it.  Writers put a *)
(* line together in m_tmpBuffer and flush it into the ring m_buffer; the   *)
(* log thread takes the records out, prints them, and copies them to a     *)
(* mapped file, changing to a new file before one is full.                 *)
(*                                                                         *)
(* The ring is the queue that CircularBuffer implements, and is modelled   *)
(* as one, with the number of bytes it holds.  Writers take the lock that  *)
(* LOCK_SDK_LOG stands for; a Logger that is used without one is safe for  *)
(* one writer only.                                                        *)
(***************************************************************************)
EXTENDS Naturals, Sequences, SequencesExt

CONSTANTS Writers,   \* the threads that log
          MaxLine,   \* MAXLINE_LOG, the size of m_tmpBuffer
          Byte,      \* how many values a byte has
          Prefix,    \* PREFIX_LEVEL_LEN + PREFIX_TIME_LEN
          IntSize,   \* sizeof(int)
          Capacity,  \* the size of m_buffer
          FileSize,  \* DEFAULT_LOGFILESIZE
          Parts,     \* what operator<< is called with; see Writes
          MaxParts,  \* bound: calls of operator<< for one line
          MaxLines,  \* bound: lines in all
          None

(* A part has a number of characters, and the number that operator<< asks  *)
(* to be free first: its own for a text, a constant for a number.  The     *)
(* lowest byte of MAXLINE_LOG, which is 2048, is 0.                        *)
ASSUME LogPipeAssumption ==
    /\ MaxLine \in Nat /\ Prefix \in Nat /\ IntSize \in Nat /\ Capacity \in Nat \ {0}
    /\ FileSize \in Nat /\ Prefix < MaxLine /\ MaxLine < FileSize
    /\ Byte \in Nat \ {0} /\ MaxLine % Byte = 0
    /\ Parts \subseteq [chars : Nat, reserve : Nat]
    /\ \A p \in Parts : p.chars <= p.reserve + 1
    /\ MaxParts \in Nat /\ MaxLines \in Nat /\ None \notin Writers

VARIABLES
    lock,      \* the writer that holds the lock
    wpc,       \* where each writer is: idle, wait, append, publish
    tmp,       \* m_tmpBuffer from its prefix on: <<writer, part>> each
    pos,       \* m_pos, until Flush adds the line feed
    overrun,   \* Flush wrote the line feed over m_pos: modelled no further
    allowed,   \* m_curLevel is one that m_level lets through
    mine,      \* history: what each writer put into its line
    staged,    \* what lies in the ring beyond its write position
    ring,      \* m_buffer: the records in it; see Line
    used,      \* m_buffer: the bytes in it
    cpc,       \* where Update is: idle, test, level, length, print, file, copy,
               \*   free, valid
    file,      \* the log file: see File
    valid,     \* m_valid
    alive,     \* m_running of LogThread
    exiting,   \* ~LogManager runs
    gone,      \* the Logger was deleted
    lines,     \* bound: lines begun
    accepted,  \* history: the records that were flushed
    out,       \* history: the records that were printed
    filed,     \* history: the records that were copied to a file
    missed     \* history: a record was flushed between the last IsEmpty and Valid

writing  == <<lock, wpc, tmp, pos, overrun, allowed, mine, staged, lines>>
queue    == <<ring, used>>
manager  == <<valid, alive, exiting, gone>>
history  == <<accepted, out, filed, missed>>
vars     == <<writing, queue, cpc, file, manager, history>>

File == [open : BOOLEAN,    \* m_file is valid
         mapped : BOOLEAN,  \* m_pMemory is neither 0 nor -1
         offset : Nat,      \* m_offset
         failed : BOOLEAN]  \* history: open or mmap has failed

(* What a writer means by a text: all of it, and the line feed. *)
WholeLine(text) == [text |-> text, length |-> pos + 1]

(* What Flush appends.  It has ended the line with '\n' and '\0' then: if   *)
(* the '\n' is the last byte of m_tmpBuffer, the '\0' falls on the lowest   *)
(* byte of m_pos, which lies behind it and is pushed as the length.        *)
LowByte    == IF pos + 1 = MaxLine THEN (pos + 1) % Byte ELSE 0
Line(text) == [text |-> text, length |-> (pos + 1) - LowByte]

(* Logger() and Init; the log thread was started. *)
Init ==
    /\ lock = None /\ wpc = [w \in Writers |-> "idle"]
    /\ tmp = <<>> /\ pos = Prefix /\ overrun = FALSE /\ allowed = FALSE
    /\ mine = [w \in Writers |-> <<>>]
    /\ staged = None /\ ring = <<>> /\ used = 0
    /\ cpc = "idle"
    /\ file = [open |-> FALSE, mapped |-> FALSE, offset |-> FileSize, failed |-> FALSE]
    /\ valid = TRUE /\ alive = TRUE /\ exiting = FALSE /\ gone = FALSE
    /\ lines = 0
    /\ accepted = <<>> /\ out = <<>> /\ filed = <<>> /\ missed = FALSE

-----------------------------------------------------------------------------
(* A writer: LOCK_SDK_LOG, INF(log) << ... << ..., UNLOCK_SDK_LOG. *)

Goes(w, here, there) == ~overrun /\ wpc[w] = here /\ wpc' = [wpc EXCEPT ![w] = there]

Begin(w) ==
    /\ Goes(w, "idle", "wait")
    /\ valid /\ alive /\ lines < MaxLines
    /\ lines' = lines + 1
    /\ UNCHANGED <<lock, tmp, pos, overrun, allowed, mine, staged, queue, cpc, file, manager, history>>

(* Mutant of SetCurLevel: the lock is not waited for. *)
SetCurLevelUnlocked(w) ==
    /\ Goes(w, "wait", "append")
    /\ lock' = w
    /\ allowed' \in BOOLEAN
    /\ UNCHANGED <<tmp, pos, overrun, mine, staged, lines, queue, cpc, file, manager, history>>

SetCurLevel(w) ==
    /\ Goes(w, "wait", "append")
    /\ lock = None /\ lock' = w
    /\ allowed' \in BOOLEAN
    /\ UNCHANGED <<tmp, pos, overrun, mine, staged, lines, queue, cpc, file, manager, history>>

(* operator<<: what does not fit is left out, and so is everything if the  *)
(* level is forbidden.                                                     *)
AppendPart(w, p) ==
    /\ Goes(w, "append", "append") /\ Len(mine[w]) < MaxParts
    /\ allowed /\ pos + p.reserve < MaxLine
    /\ tmp' = Append(tmp, <<w, p>>) /\ pos' = pos + p.chars
    /\ mine' = [mine EXCEPT ![w] = Append(@, <<w, p>>)]
    /\ UNCHANGED <<lock, overrun, allowed, staged, lines, queue, cpc, file, manager, history>>

(* _Reset, and the lock is released. *)
Leave(w) ==
    /\ wpc' = [wpc EXCEPT ![w] = "idle"] /\ lock' = None
    /\ tmp' = <<>> /\ pos' = Prefix /\ allowed' = FALSE
    /\ mine' = [mine EXCEPT ![w] = <<>>]

(* Mutant of RoomFor: the integers before the text are not counted. *)
RoomForText(line) == used + line.length < Capacity

(* The last PushDataAt of the three, which asks for the most room. *)
RoomFor(line) == used + 2 * IntSize + line.length < Capacity

(* Flush: level, length and text are put behind the write position. *)
Stage(w) ==
    /\ Goes(w, "append", "publish")
    /\ allowed /\ pos > Prefix /\ pos < MaxLine /\ RoomFor(Line(tmp))
    /\ staged' = Line(tmp)
    /\ UNCHANGED <<lock, tmp, pos, overrun, allowed, mine, lines, queue, cpc, file, manager,
                   history>>

(* Flush of a line that is forbidden, empty, or does not fit the ring. *)
DropLine(w) ==
    /\ wpc[w] = "append"
    /\ \/ ~allowed \/ pos <= Prefix
       \/ pos < MaxLine /\ ~RoomFor(Line(tmp))
    /\ Leave(w)
    /\ UNCHANGED <<overrun, staged, lines, queue, cpc, file, manager, history>>

(* Flush of a line that is as long as m_tmpBuffer: the '\n' is written over *)
(* m_pos, and the '\0' beyond it.                                          *)
Overrun(w) ==
    /\ Goes(w, "append", "append")
    /\ allowed /\ pos > Prefix /\ pos = MaxLine
    /\ overrun' = TRUE
    /\ UNCHANGED <<lock, tmp, pos, allowed, mine, staged, lines, queue, cpc, file, manager,
                   history>>

(* AdjustWritePtr makes the record visible. *)
Publish(w) ==
    /\ wpc[w] = "publish"
    /\ ring' = Append(ring, staged) /\ used' = used + 2 * IntSize + staged.length
    /\ staged' = None
    /\ accepted' = Append(accepted, WholeLine(mine[w]))
    /\ missed' = (missed \/ cpc = "valid")
    /\ Leave(w)
    /\ UNCHANGED <<overrun, lines, cpc, file, manager, out, filed>>

-----------------------------------------------------------------------------
(* The log thread: LogManager::Update over and over, and ~LogManager. *)

Reads(here, there) == ~overrun /\ cpc = here /\ cpc' = there

(* LogThread::Run, or the destructor, calls Update. *)
CallUpdate ==
    /\ Reads("idle", "test")
    /\ ~gone /\ (alive \/ exiting)
    /\ UNCHANGED <<writing, queue, file, manager, history>>

(* Mutant of TestEmpty: the last record is not looked at. *)
TestAlmostEmpty ==
    /\ Reads("test", IF Len(ring) <= 1 THEN "valid" ELSE "level")
    /\ UNCHANGED <<writing, queue, file, manager, history>>

TestEmpty ==
    /\ Reads("test", IF ring = <<>> THEN "valid" ELSE "level")
    /\ UNCHANGED <<writing, queue, file, manager, history>>

(* The level, and then the length, are peeked and read. *)
ReadInt ==
    /\ Reads("level", "length") \/ Reads("length", "print")
    /\ used' = used - IntSize
    /\ UNCHANGED <<writing, ring, file, manager, history>>

Record == Head(ring)

PrintRecord ==
    /\ Reads("print", "file")
    /\ out' = Append(out, Record)
    /\ UNCHANGED <<writing, queue, file, manager, accepted, filed, missed>>

(* Mutant of MustChange: no room is kept for the line to come. *)
MustChangeLate == ~file.open \/ file.offset >= FileSize

(* _CheckChangeFile *)
MustChange == ~file.open \/ file.offset + MaxLine >= FileSize

(* _CloseLogFile and _OpenLogFile of a file that is new, or, within the    *)
(* same millisecond, of the one that was just closed.                      *)
ChangeFile(size) ==
    /\ Reads("file", "file") /\ MustChange
    /\ size \in {0} \cup (IF file.open THEN {file.offset} ELSE {})
    /\ file' = [file EXCEPT !.open = TRUE, !.mapped = TRUE, !.offset = size]
    /\ UNCHANGED <<writing, queue, manager, history>>

(* open fails, or mmap does: the loop is left. *)
ChangeFails(opened) ==
    /\ Reads("file", "copy") /\ MustChange
    /\ file' = [open |-> opened, mapped |-> FALSE, offset |-> 0, failed |-> TRUE]
    /\ UNCHANGED <<writing, queue, manager, history>>

KeepFile ==
    /\ Reads("file", "copy") /\ ~MustChange
    /\ UNCHANGED <<writing, queue, file, manager, history>>

Copy ==
    /\ Reads("copy", "free")
    /\ \/ /\ file.mapped
          /\ file' = [file EXCEPT !.offset = @ + Record.length]
          /\ filed' = Append(filed, Record)
       \/ ~file.mapped /\ UNCHANGED <<file, filed>>
    /\ UNCHANGED <<writing, queue, manager, accepted, out, missed>>

Free ==
    /\ Reads("free", "test")
    /\ ring' = Tail(ring) /\ used' = used - Record.length
    /\ UNCHANGED <<writing, file, manager, history>>

(* The end of LogManager::Update: a Logger that is not valid any more is   *)
(* deleted; the destructor deletes every one.                              *)
TestValid ==
    /\ Reads("valid", "idle")
    /\ gone' = (~valid \/ exiting)
    /\ UNCHANGED <<writing, queue, file, valid, alive, exiting, history>>

-----------------------------------------------------------------------------
AllIdle == \A w \in Writers : wpc[w] = "idle"

(* SetValid(false), after the last line. *)
Invalidate ==
    /\ valid /\ AllIdle /\ ~gone
    /\ valid' = FALSE
    /\ UNCHANGED <<writing, queue, cpc, file, alive, exiting, gone, history>>

(* StopLog, when the network threads have ended. *)
StopLog ==
    /\ alive /\ AllIdle
    /\ alive' = FALSE
    /\ UNCHANGED <<writing, queue, cpc, file, valid, exiting, gone, history>>

(* ~LogManager, when the log thread has ended. *)
Exit ==
    /\ ~alive /\ ~exiting /\ cpc = "idle" /\ ~gone
    /\ exiting' = TRUE
    /\ UNCHANGED <<writing, queue, cpc, file, valid, alive, gone, history>>

-----------------------------------------------------------------------------
Write(w) ==
    \/ SetCurLevel(w) \/ Stage(w) \/ DropLine(w) \/ Overrun(w) \/ Publish(w)
    \/ \E p \in Parts : AppendPart(w, p)

(* _MakeFileName has a new name, as the time goes on. *)
FreshFile == ChangeFile(0)

Consume ==
    \/ CallUpdate \/ TestEmpty \/ ReadInt \/ PrintRecord \/ KeepFile \/ Copy \/ Free
    \/ TestValid \/ Exit
    \/ \E size \in {0, file.offset} : ChangeFile(size)
    \/ \E opened \in BOOLEAN : ChangeFails(opened)

Next ==
    \/ Consume \/ Invalidate \/ StopLog
    \/ \E w \in Writers : Begin(w) \/ Write(w)

(* The log thread goes on, a line that was begun is finished, and a new    *)
(* name for the file is found at last.                                     *)
Spec ==
    /\ Init /\ [][Next]_vars
    /\ WF_vars(Consume) /\ SF_vars(FreshFile)
    /\ \A w \in Writers : WF_vars(Stage(w) \/ DropLine(w) \/ Overrun(w) \/ Publish(w))

-----------------------------------------------------------------------------
(* The variables keep their types: m_pos stays in the line or is just      *)
(* behind m_tmpBuffer, and the ring never holds as many bytes as it has    *)
(* cells.                                                                  *)
Texts == {s \in Seq(Writers \X Parts) : Len(s) <= MaxParts}
Lines == [text : Texts, length : Nat]

TypeOK ==
    /\ lock \in Writers \cup {None}
    /\ wpc \in [Writers -> {"idle", "wait", "append", "publish"}]
    /\ allowed \in BOOLEAN /\ tmp \in Texts /\ pos \in Prefix .. MaxLine
    /\ overrun \in BOOLEAN
    /\ mine \in [Writers -> Texts] /\ staged \in Lines \cup {None}
    /\ ring \in Seq(Lines) /\ accepted \in Seq(Lines)
    /\ out \in Seq(Lines) /\ filed \in Seq(Lines)
    /\ used \in 0 .. Capacity - 1
    /\ cpc \in {"idle", "test", "level", "length", "print", "file", "copy", "free",
                "valid"}
    /\ file \in File
    /\ valid \in BOOLEAN /\ alive \in BOOLEAN /\ exiting \in BOOLEAN
    /\ gone \in BOOLEAN /\ missed \in BOOLEAN

(* What comes out is what was flushed, line by line and in order, each     *)
(* with the parts of one writer and the length that they and the line feed *)
(* have; what is not out yet is in the ring.  Unless a file could not be   *)
(* opened or mapped, every line that was printed is in a file too.  All of *)
(* this until a line is as long as m_tmpBuffer, where the model stops.     *)
OutInOrder ==
    LET waiting == IF cpc \in {"file", "copy", "free"} THEN Tail(ring) ELSE ring
    IN  /\ accepted = out \o waiting
        /\ ~file.failed /\ cpc \notin {"file", "copy"} => filed = out

(* A record is never copied beyond the end of the mapping; one that Flush  *)
(* is about to publish has room in the ring; and with its '\n' and '\0' a   *)
(* line ends at most one byte behind m_tmpBuffer, which a text may reach,  *)
(* or two, after a number of one character more than operator<< asked for. *)
WritesFit ==
    /\ cpc = "copy" /\ file.mapped => file.offset + Record.length <= FileSize
    /\ staged # None => used + 2 * IntSize + staged.length < Capacity
    /\ \/ pos + 2 <= MaxLine + 1
       \/ pos + 2 = MaxLine + 2 /\ Last(tmp)[2].chars > Last(tmp)[2].reserve

(* Every line that was flushed comes out, before the Logger is deleted or  *)
(* when the program exits, unless it was flushed between the last IsEmpty  *)
(* of Update and its look at m_valid (or a line was as long as             *)
(* m_tmpBuffer).                                                           *)
ComesOut == out # accepted ~> out = accepted \/ (gone /\ missed) \/ overrun
=============================================================================
