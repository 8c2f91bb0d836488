----------------------------- MODULE SerialLine -----------------------------
(***************************************************************************)
(* SerialLink with the bytes of the lines: what the device sends, what     *)
(* SerialPort::readLine makes of it, and what the command handler gets.    *)
(* A timeout, which counts from the start of the call and not from the     *)
(* last byte, drops the part of a line that has come in; open() and a      *)
(* device that goes away drop what nobody has read yet.                    *)
(*                                                                         *)
(* Byte i of line k is <<k, i>>; the byte after the last is its '\n'.  The *)
(* '\r' before it belongs to it, as readLine strips it.                    *)
(***************************************************************************)
EXTENDS SerialLink, Naturals, Sequences

CONSTANTS LineLens,     \* LineLens[k]: the length of line k
          MaxLineLen    \* MAX_LINE_LEN

ASSUME LineAssumption == LineLens \in Seq(Nat) /\ MaxLineLen \in Nat

VARIABLES
  wire,     \* bytes that were sent and not read yet
  text,     \* response, in readLine() and until it has been handled
  next,     \* the next byte the device sends
  torn      \* history: lines of which a byte was dropped

lvars == <<wire, text, next, torn>>

Lines == DOMAIN LineLens
Rest(k, i) == [j \in 1..(LineLens[k] - i + 1) |-> <<k, i + j - 1>>]   \* from byte i on
IsNewline(b) == b[2] = LineLens[b[1]] + 1
LinesOf(bytes) == {bytes[j][1] : j \in DOMAIN bytes}

LineTypeOK ==
  /\ TypeOK
  /\ \A j \in DOMAIN wire : wire[j][1] \in Lines /\ wire[j][2] \in 1..(LineLens[wire[j][1]] + 1)
  /\ \A j \in DOMAIN text : text[j][1] \in Lines /\ text[j][2] \in 1..LineLens[text[j][1]]
  /\ next[1] \in 1..(Len(LineLens) + 1)
  /\ torn \subseteq Lines
  /\ s.port # "open" => wire = << >>
  /\ at.reader \notin {"reading", "line"} => text = << >>

LineInit ==
  /\ Init
  /\ wire = << >> /\ text = << >>
  /\ next = <<1, 1>>
  /\ torn = {}

-----------------------------------------------------------------------------
\* The device sends a byte; nobody gets it unless the port is open.
SendByte ==
  /\ s.device = "plugged" /\ next[1] \in Lines
  /\ IF s.port = "open" THEN wire' = Append(wire, next) /\ UNCHANGED torn
     ELSE torn' = torn \union {next[1]} /\ UNCHANGED wire
  /\ next' = IF IsNewline(next) THEN <<next[1] + 1, 1>> ELSE <<next[1], next[2] + 1>>
  /\ UNCHANGED <<vars, text>>

\* One read of readLine() that is not the end of a line.
ReadByte ==
  /\ at.reader = "reading" /\ s.port = "open"
  /\ wire # << >> /\ ~IsNewline(Head(wire))
  /\ text' = Append(text, Head(wire)) /\ wire' = Tail(wire)
  /\ UNCHANGED <<vars, next, torn>>

AtNewline == wire # << >> /\ IsNewline(Head(wire))

\* Mutant: the end of the line is not taken from the input.
LineRead_Peek ==
  /\ GotLine
  /\ AtNewline /\ Len(text) <= MaxLineLen
  /\ UNCHANGED lvars

LineRead ==
  /\ GotLine
  /\ AtNewline /\ Len(text) <= MaxLineLen
  /\ wire' = Tail(wire)
  /\ UNCHANGED <<text, next, torn>>

\* Mutant: a line that is too long is cut instead of dropped.
LineTooLong_Cut ==
  /\ GotLine
  /\ AtNewline /\ Len(text) > MaxLineLen
  /\ text' = SubSeq(text, 1, MaxLineLen) /\ wire' = Tail(wire)
  /\ UNCHANGED <<next, torn>>

LineTooLong ==
  /\ NoLine
  /\ s.port = "open" /\ AtNewline /\ Len(text) > MaxLineLen
  /\ text' = << >> /\ wire' = Tail(wire)
  /\ torn' = torn \union LinesOf(text)
  /\ UNCHANGED next

\* Timeout, error, or the port is closed.
ReadFails ==
  /\ NoLine
  /\ text' = << >>
  /\ torn' = torn \union LinesOf(text)
  /\ UNCHANGED <<wire, next>>

LineHandled ==
  /\ HandleLine
  /\ text' = << >>
  /\ UNCHANGED <<wire, next, torn>>

\* Mutant: open() leaves the input of the previous time.
Dropped_Keep == UNCHANGED <<wire, torn>>

\* The bytes that nobody has read are lost.
Dropped == wire' = << >> /\ torn' = torn \union LinesOf(wire)

DropInput ==
  /\ Reopen \/ Opened \/ PortClosed \/ Stopped \/ Unplug
  /\ Dropped
  /\ UNCHANGED <<text, next>>

OtherStep ==
  /\ \/ LoopEnds \/ ReadLine \/ CheckRunning \/ Reconnect \/ StillOpen
     \/ ReopenFails \/ SleepEnds \/ WriteLine \/ Written
     \/ HttpSession \/ AskOpen \/ IsOpen \/ OpenKnown
     \/ Start \/ StartReader \/ StartHttp \/ HttpFails
     \/ StopHttp \/ StopReader \/ ClosePort \/ JoinReader \/ Stop \/ ReleaseOwner
     \/ Signal \/ Plug \/ Exited
  /\ UNCHANGED lvars

LineNext ==
  \/ SendByte \/ ReadByte \/ LineRead \/ LineTooLong \/ ReadFails \/ LineHandled
  \/ DropInput \/ OtherStep

\* As in SerialLink; nothing says that the device sends or that bytes are read.
LineSpec == LineInit /\ [][LineNext]_<<vars, lvars>> /\ Fairness

-----------------------------------------------------------------------------
(* Properties *)

(* What the command handler gets is one line that the device sent, whole, or *)
(* the end of a line whose beginning was dropped: never two lines in one,    *)
(* never a line without its end, and whole unless a timeout, an open or the  *)
(* loss of the device fell into it.                                          *)
LineIsWhole ==
  at.reader = "line" =>
    IF text = << >> THEN TRUE
    ELSE LET k == text[1][1]
             i == text[1][2]
         IN  text = Rest(k, i) /\ (i = 1 \/ k \in torn)

(* Lines are handled in the order in which they were sent and none twice,    *)
(* not even when the port was closed, reopened or lost in between: what is   *)
(* still to come was sent after what is being handled.                       *)
LinesInOrder ==
  at.reader = "line" /\ text # << >> =>
    \A j \in DOMAIN wire : wire[j][1] > text[1][1]
=============================================================================
