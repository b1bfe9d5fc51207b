------------------------------- MODULE LogFiles -------------------------------
(***************************************************************************)
(* The logging backend (logging/src/lib.rs): records go through lossy      *)
(* channels to the original stderr and to a file rotated by size, and what *)
(* others write to stderr comes back through a pipe as records.            *)
(*                                                                         *)
(* Threads: any caller of the log, one worker per channel (external, from  *)
(* tracing_appender), the capture thread.  A line is a number, the size of *)
(* a file the lines in it.  The process may be killed between any two      *)
(* steps and start again; nothing in the program calls jfn_log_shutdown.   *)
(* Filters, formats and redaction change no state.                         *)
(***************************************************************************)
EXTENDS Integers, Sequences, SequencesExt, FiniteSets

CONSTANTS
  FileLimit,   \* MAX_FILE_BYTES, in lines
  MaxBackups,  \* MAX_BACKUPS
  ChannelCap,  \* room in a channel
  PipeCap,     \* room in the pipe, in pieces
  MaxLines,    \* bound on the lines written
  MaxFaults,   \* bound on file operations that fail
  MaxKills,    \* bound on the times the process is killed
  NoFile

Line == [from : {"app", "stderr"}, n : 0..MaxLines]

ASSUME LogAssumption ==
  /\ FileLimit \in Nat \ {0} /\ MaxBackups \in Nat \ {0}
  /\ ChannelCap \in Nat \ {0} /\ PipeCap \in Nat \ {0}
  /\ MaxLines \in Nat /\ MaxFaults \in Nat /\ MaxKills \in Nat
  /\ NoFile \notin Seq(Line)

VARIABLES
  logAt,    \* jfn_log_init: how far it has come
  disk,     \* the log file (0) and its backups: lines, or NoFile
  file,     \* RotatingFile: the slot its open file is in, bytes_written
  rotating, \* the rotation the file worker is in: next step, or "no"
  channels,  \* the lines in the two channels
  stderrTo, \* where stderr leads, and where the console writer's copy does
  pipe,     \* pieces of lines in the pipe; the capture thread's partial line
  seenLines,\* history: lines written to the file; whether a line came back
  spent     \* lines, faults and kills so far

logVars == <<logAt, disk, file, rotating, channels, stderrTo, pipe, seenLines, spent>>

Slots == 0..MaxBackups
Done(how) == [at |-> how, i |-> 0]

NewProcess ==
  /\ logAt' = "start" /\ rotating' = Done("no")
  /\ file' = [slot |-> -1, bytes |-> 0]
  /\ channels' = [console |-> <<>>, file |-> <<>>]
  /\ stderrTo' = [fd |-> "real", copy |-> "none"]
  /\ pipe' = [pieces |-> <<>>, partial |-> <<>>]

LogInit ==
  /\ logAt = "start" /\ rotating = Done("no")
  /\ disk = [i \in Slots |-> NoFile]
  /\ file = [slot |-> -1, bytes |-> 0]
  /\ channels = [console |-> <<>>, file |-> <<>>]
  /\ stderrTo = [fd |-> "real", copy |-> "none"]
  /\ pipe = [pieces |-> <<>>, partial |-> <<>>]
  /\ seenLines = [written |-> <<>>, fed |-> FALSE]
  /\ spent = [lines |-> 0, faults |-> 0, kills |-> 0]

Killed ==
  /\ spent.kills < MaxKills /\ spent' = [spent EXCEPT !.kills = @ + 1]
  /\ NewProcess /\ UNCHANGED <<disk, seenLines>>

-----------------------------------------------------------------------------
(* rotate_backups and the open that follows, step by step: the oldest       *)
(* backup goes, each other moves up, the file becomes the first.            *)

(* The name i becomes i + 1; an open file goes with its name.               *)
Moved(i) ==
  /\ disk' = [disk EXCEPT ![i + 1] = disk[i], ![i] = NoFile]
  /\ file' = IF file.slot = i THEN [file EXCEPT !.slot = i + 1] ELSE file

Fails == spent.faults < MaxFaults /\ spent' = [spent EXCEPT !.faults = @ + 1]

RemoveOldest ==
  /\ rotating.at = "remove"
  /\ disk' = [disk EXCEPT ![MaxBackups] = NoFile]
  /\ file' = IF file.slot = MaxBackups THEN [file EXCEPT !.slot = -1] ELSE file
  /\ rotating' = [at |-> "move", i |-> MaxBackups - 1]
  /\ UNCHANGED <<logAt, channels, stderrTo, pipe, seenLines, spent>>

(* Mutant of NextMove: one backup and the file, whatever lies between. *)
NextMoveOnce(i) == IF i = 0 THEN Done("open") ELSE [at |-> "move", i |-> 0]

NextMove(i) == IF i = 0 THEN Done("open") ELSE [at |-> "move", i |-> i - 1]

(* A rename that fails ends the rotation; the removal may not.              *)
Rename ==
  /\ rotating.at = "move"
  /\ LET i == rotating.i IN
     \/ /\ disk[i] = NoFile /\ UNCHANGED <<disk, file, spent>> /\ rotating' = NextMove(i)
     \/ /\ disk[i] # NoFile /\ Moved(i) /\ UNCHANGED spent /\ rotating' = NextMove(i)
     \/ /\ disk[i] # NoFile /\ Fails /\ UNCHANGED <<disk, file>> /\ rotating' = Done("failed")
  /\ UNCHANGED <<logAt, channels, stderrTo, pipe, seenLines>>

OpenFresh ==
  /\ rotating.at = "open"
  /\ \/ /\ disk' = [disk EXCEPT ![0] = <<>>] /\ file' = [slot |-> 0, bytes |-> 0]
        /\ rotating' = Done("opened") /\ UNCHANGED spent
     \/ Fails /\ rotating' = Done("failed") /\ UNCHANGED <<disk, file>>
  /\ UNCHANGED <<logAt, channels, stderrTo, pipe, seenLines>>

-----------------------------------------------------------------------------
(* jfn_log_init: the copy of stderr first, the file, the dispatcher, the    *)
(* redirection of stderr last.                                               *)
DupStderr ==
  /\ logAt = "start" /\ logAt' = "file"
  /\ stderrTo' = [stderrTo EXCEPT !.copy = stderrTo.fd]
  /\ rotating' = Done("remove")
  /\ UNCHANGED <<disk, file, channels, pipe, seenLines, spent>>

(* Without a file the log goes to the console alone.                        *)
FileOpened ==
  /\ logAt = "file" /\ rotating.at \in {"opened", "failed"}
  /\ logAt' = IF rotating.at = "opened" THEN "both" ELSE "console"
  /\ rotating' = Done("no")
  /\ UNCHANGED <<disk, file, channels, stderrTo, pipe, seenLines, spent>>

(* Mutant of InitOrder: the redirection comes first. *)
InitOrderRedirectFirst == stderrTo.fd = "real" /\ logAt = "start"
InitOrder == stderrTo.fd = "real" /\ logAt \in {"both", "console"}

StartCapture ==
  /\ InitOrder
  /\ stderrTo' = [stderrTo EXCEPT !.fd = "pipe"]
  /\ UNCHANGED <<logAt, disk, file, rotating, channels, pipe, seenLines, spent>>

-----------------------------------------------------------------------------
(* A record goes to both channels; a full one drops it.                     *)
Lossy(q, l) == IF Len(q) < ChannelCap THEN Append(q, l) ELSE q
Emitted(l) == [console |-> Lossy(channels.console, l),
               file |-> IF logAt = "both" THEN Lossy(channels.file, l) ELSE channels.file]

Log ==
  /\ logAt \in {"both", "console"} /\ spent.lines < MaxLines
  /\ spent' = [spent EXCEPT !.lines = @ + 1]
  /\ channels' = Emitted([from |-> "app", n |-> spent.lines])
  /\ UNCHANGED <<logAt, disk, file, rotating, stderrTo, pipe, seenLines>>

(* ffmpeg or a CEF process: a line in two pieces, once stderr is a pipe.    *)
ForeignWrite ==
  /\ stderrTo.fd = "pipe" /\ spent.lines < MaxLines /\ Len(pipe.pieces) + 2 <= PipeCap
  /\ spent' = [spent EXCEPT !.lines = @ + 1]
  /\ LET l == [from |-> "stderr", n |-> spent.lines] IN
       pipe' = [pipe EXCEPT !.pieces = @ \o <<[of |-> l, end |-> FALSE], [of |-> l, end |-> TRUE]>>]
  /\ UNCHANGED <<logAt, disk, file, rotating, channels, stderrTo, seenLines>>

(* capture_loop: a line is emitted when its end has been read.              *)
CaptureRead ==
  /\ stderrTo.fd = "pipe" /\ pipe.pieces # <<>>
  /\ LET p == Head(pipe.pieces) IN
       /\ pipe' = [pieces |-> Tail(pipe.pieces),
                   partial |-> IF p.end THEN <<>> ELSE Append(pipe.partial, p.of)]
       /\ channels' = IF p.end /\ logAt \in {"both", "console"} THEN Emitted(p.of) ELSE channels
       /\ seenLines' = [seenLines EXCEPT !.fed = @ \/ (p.end /\ p.of.from = "app")]
  /\ UNCHANGED <<logAt, disk, file, rotating, stderrTo, spent>>

(* The console worker writes to the copy.                                   *)
ConsoleWrite ==
  /\ channels.console # <<>>
  /\ channels' = [channels EXCEPT !.console = Tail(@)]
  /\ LET l == Head(channels.console) IN
       IF stderrTo.copy = "pipe"
         THEN /\ Len(pipe.pieces) < PipeCap
              /\ pipe' = [pipe EXCEPT !.pieces = Append(@, [of |-> l, end |-> TRUE])]
         ELSE UNCHANGED pipe
  /\ UNCHANGED <<logAt, disk, file, rotating, stderrTo, seenLines, spent>>

-----------------------------------------------------------------------------
(* The file worker: maybe_rotate, then the write.                           *)
Due == file.bytes + 1 > FileLimit

FileBegin ==
  /\ logAt = "both" /\ channels.file # <<>> /\ rotating.at = "no" /\ Due
  /\ rotating' = Done("remove")
  /\ UNCHANGED <<logAt, disk, file, channels, stderrTo, pipe, seenLines, spent>>

FileWrite ==
  /\ logAt = "both" /\ channels.file # <<>>
  /\ rotating.at = "opened" \/ (rotating.at = "no" /\ ~Due)
  /\ rotating' = Done("no") /\ channels' = [channels EXCEPT !.file = Tail(@)]
  /\ LET l == Head(channels.file) IN
       /\ disk' = [disk EXCEPT ![file.slot] = Append(@, l)]
       /\ seenLines' = [seenLines EXCEPT !.written = Append(@, l)]
  /\ file' = [file EXCEPT !.bytes = @ + 1]
  /\ UNCHANGED <<logAt, stderrTo, pipe, spent>>

(* A write whose rotation failed is an error, and its line is gone.         *)
FileDrop ==
  /\ logAt = "both" /\ channels.file # <<>> /\ rotating.at = "failed"
  /\ rotating' = Done("no") /\ channels' = [channels EXCEPT !.file = Tail(@)]
  /\ UNCHANGED <<logAt, disk, file, stderrTo, pipe, seenLines, spent>>

LogNext ==
  \/ Killed \/ RemoveOldest \/ Rename \/ OpenFresh
  \/ DupStderr \/ FileOpened \/ StartCapture
  \/ Log \/ ForeignWrite \/ CaptureRead \/ ConsoleWrite
  \/ FileBegin \/ FileWrite \/ FileDrop

LogSpec == LogInit /\ [][LogNext]_logVars

-----------------------------------------------------------------------------
(* The variables hold the values of their types.                            *)
LogTypeOK ==
  /\ logAt \in {"start", "file", "both", "console"}
  /\ disk \in [Slots -> Seq(Line) \cup {NoFile}]
  /\ file \in [slot : Slots \cup {-1}, bytes : 0..FileLimit]
  /\ rotating \in [at : {"no", "remove", "move", "open", "opened", "failed"}, i : 0..(MaxBackups - 1)]
  /\ channels \in [console : Seq(Line), file : Seq(Line)]
  /\ stderrTo \in [fd : {"real", "pipe"}, copy : {"none", "real", "pipe"}]
  /\ pipe.pieces \in Seq([of : Line, end : BOOLEAN])

(* The files, from the oldest backup to the log, hold what was written      *)
(* last, in order and without a gap, whichever operation fails and wherever *)
(* the process is killed (rotate_backups).                                  *)
Content(i) == IF disk[i] = NoFile THEN <<>> ELSE disk[i]
InFiles == FlattenSeq([i \in 1..(MaxBackups + 1) |-> Content(MaxBackups + 1 - i)])
FilesInOrder == IsSuffix(InFiles, seenLines.written)

(* Without a fault or a kill no line that was written is lost before as     *)
(* many backups as there may be are full.                                   *)
OnlyOldestLost ==
  spent.faults = 0 /\ spent.kills = 0 =>
    \/ Len(InFiles) = Len(seenLines.written)
    \/ Len(InFiles) >= MaxBackups * FileLimit

(* What the log writes to the console never comes back as a record          *)
(* (make_console_writer).                                                   *)
NeverFedBack == ~seenLines.fed

(* The log keeps its newest lines in order and does not log itself.         *)
LogKept == FilesInOrder /\ OnlyOldestLost /\ NeverFedBack
===============================================================================
