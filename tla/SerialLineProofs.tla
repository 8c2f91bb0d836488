-------------------------- MODULE SerialLineProofs --------------------------
(***************************************************************************)
(* Proofs about SerialLink and SerialLine, for lines of any number and     *)
(* length: what a shutdown leaves behind, and which lines the command      *)
(* handler gets.                                                           *)
(***************************************************************************)
EXTENDS SerialLine, SequenceTheorems, TLAPS

(* The steps of a thread inside its critical sections, and all of them.     *)
ReaderInside == {"reading", "opening", "sleeping", "writing"}
MainInside   == {"opening", "closing", "stopping"}
HttpInside   == {"asking"}
ThreadSteps ==
  [reader : ReaderInside \union {"none", "loop", "failed", "reconnect", "line", "answer", "exited"},
   main   : MainInside \union {"start", "reader", "http", "serving", "stop http",
                               "stop reader", "close", "join", "stop", "release", "exited"},
   http   : HttpInside \union {"none", "idle", "is_open"}]

(* io_mutex_ is held by the thread that is in a critical section, handlers  *)
(* of HTTP run while the server does, and nothing comes after the reader    *)
(* has been joined.                                                         *)
LinkInv ==
  /\ s \in SharedState
  /\ at \in ThreadSteps
  /\ s.io = "reader" <=> at.reader \in ReaderInside
  /\ s.io = "main" <=> at.main \in MainInside
  /\ s.io = "http" <=> at.http \in HttpInside
  /\ at.http # "none" => at.main \in {"serving", "stop http"}
  /\ at.main \in {"start", "opening", "reader"} => at.reader = "none"
  /\ at.main \in {"stop", "stopping", "release", "exited"} => at.reader = "exited"
  /\ at.main \in {"release", "exited"} => s.port = "closed"
  /\ at.main = "exited" => s.owner = "NONE"

-----------------------------------------------------------------------------
(* What the bytes have to do with each other. *)

Byte == {b \in Nat \X Nat : b[1] \in Lines /\ b[2] \in 1..(LineLens[b[1]] + 1)}

After(b) == IF IsNewline(b) THEN <<b[1] + 1, 1>> ELSE <<b[1], b[2] + 1>>

(* The byte of the wire at j, and then the one the device sends next.       *)
Coming(j) == IF j \in DOMAIN wire THEN wire[j] ELSE next

(* On the wire the bytes of lines follow each other, and so does the next.  *)
WireInv ==
  /\ wire \in Seq(Byte)
  /\ s.port # "open" => wire = << >>
  /\ next \in Nat \X Nat
  /\ next[1] \in 1..(Len(LineLens) + 1)
  /\ IF next[1] \in Lines THEN next[2] \in 1..(LineLens[next[1]] + 1) ELSE next[2] = 1
  /\ \A j \in DOMAIN wire : Coming(j + 1) = After(wire[j])
  /\ \A j \in DOMAIN wire : wire[j][1] <= next[1]
  /\ \A j, k \in DOMAIN wire : j <= k => wire[j][1] <= wire[k][1]

(* What has been read is a piece of one line, which begins with the line or *)
(* where something was dropped.  At the end of the line it is complete; up  *)
(* to then the rest of the line comes next.                                 *)
TextInv ==
  /\ text \in Seq(Byte)
  /\ at.reader \notin {"reading", "line"} => text = << >>
  /\ text # << >> =>
       LET k == text[1][1]
           i == text[1][2]
       IN  /\ \A j \in DOMAIN text : text[j] = <<k, i + j - 1>> /\ i + j - 1 <= LineLens[k]
           /\ i = 1 \/ k \in torn
           /\ at.reader = "line" =>
                /\ Len(text) = LineLens[k] - i + 1
                /\ k < next[1] /\ \A j \in DOMAIN wire : k < wire[j][1]
           /\ at.reader = "reading" /\ s.port = "open" => Coming(1) = <<k, i + Len(text)>>

(* Where the rest of a line comes, its beginning is in text or was dropped. *)
TornInv ==
  /\ torn \subseteq Lines
  /\ Coming(1)[2] > 1 =>
       Coming(1)[1] \in torn \union IF at.reader = "reading" THEN LinesOf(text) ELSE {}

LineInv == LinkInv /\ WireInv /\ TextInv /\ TornInv

-----------------------------------------------------------------------------
(* SerialLink. *)

(* A step of the reader changes nothing about the others.                   *)
LEMMA ReaderMoves ==
  ASSUME LinkInv, NEW p, NEW q \in {"answer", "reconnect", "exited"}, NEW n, Step("reader", p, q, n)
  PROVE  /\ at' \in ThreadSteps /\ at'.reader = q /\ at'.main = at.main /\ at'.http = at.http
         /\ at.reader = p /\ s' = n
BY DEF LinkInv, ThreadSteps, Step

(* The same of the main thread that gets the signal.                        *)
LEMMA MainSignalled ==
  ASSUME LinkInv, Signal
  PROVE  /\ at' \in ThreadSteps /\ at'.reader = at.reader /\ at'.http = at.http
         /\ at.main = "serving" /\ at'.main = "stop http" /\ s' = s
BY DEF LinkInv, ThreadSteps, Step, Signal

(* Every step keeps the threads where they belong.                          *)
LEMMA LinkStep == LinkInv /\ [Next]_vars => LinkInv'
<1>. SUFFICES ASSUME LinkInv, [Next]_vars
              PROVE  LinkInv'
  OBVIOUS
<1>. USE DEF LinkInv, SharedState, ThreadSteps, ReaderInside, MainInside, HttpInside
<1>1. CASE ReaderStep
  <2>. USE DEF Step, Enter, Leave, Opening
  <2>1. CASE LoopEnds
    BY <2>1 DEF LoopEnds
  <2>2. CASE CheckRunning
    <3>1. PICK q \in {"reconnect", "exited"} : Step("reader", "failed", q, s)
      BY <2>2 DEF CheckRunning
    <3>2. at.reader = "failed" /\ s' = s /\ at' \in ThreadSteps
          /\ at'.reader = q /\ at'.main = at.main /\ at'.http = at.http
      BY <3>1, ReaderMoves
    <3>. HIDE DEF SharedState, ThreadSteps
    <3>. QED BY <3>1, <3>2
  <2>3. CASE ReadLine
    BY <2>3 DEF ReadLine
  <2>4. CASE Reconnect
    BY <2>4 DEF Reconnect
  <2>5. CASE WriteLine
    BY <2>5 DEF WriteLine
  <2>6. CASE GotLine
    BY <2>6 DEF GotLine
  <2>7. CASE NoLine
    BY <2>7 DEF NoLine
  <2>8. CASE StillOpen
    BY <2>8 DEF StillOpen
  <2>9. CASE SleepEnds
    BY <2>9 DEF SleepEnds
  <2>10. CASE Written
    BY <2>10 DEF Written
  <2>11. CASE Reopen
    BY <2>11 DEF Reopen
  <2>12. CASE ReopenFails
    BY <2>12 DEF ReopenFails
  <2>13. CASE HandleLine
    <3>1. PICK n : /\ Step("reader", "line", "answer", n)
                   /\ n = s \/ \E o \in {"SERIAL", "NONE"} : n = [s EXCEPT !.owner = o]
      BY <2>13 DEF HandleLine
    <3>2. at.reader = "line" /\ s' = n /\ at' \in ThreadSteps
          /\ at'.reader = "answer" /\ at'.main = at.main /\ at'.http = at.http
      BY <3>1, ReaderMoves
    <3>3. n \in SharedState /\ n.io = s.io /\ n.port = s.port
      BY <3>1
    <3>4. at.main # "exited"
      BY <3>2
    <3>. HIDE DEF SharedState, ThreadSteps
    <3>. QED BY <3>2, <3>3, <3>4
  <2>. QED BY <1>1, <2>1, <2>2, <2>3, <2>4, <2>5, <2>6, <2>7, <2>8, <2>9, <2>10, <2>11, <2>12, <2>13
       DEF ReaderStep
<1>2. CASE HttpSession \/ AskOpen \/ IsOpen \/ OpenKnown
  <2>. USE DEF Step, Enter, Leave
  <2>1. CASE HttpSession
    BY <2>1 DEF HttpSession
  <2>2. CASE AskOpen
    BY <2>2 DEF AskOpen
  <2>3. CASE IsOpen
    BY <2>3 DEF IsOpen
  <2>4. CASE OpenKnown
    BY <2>4 DEF OpenKnown
  <2>. QED BY <1>2, <2>1, <2>2, <2>3, <2>4
<1>3. CASE MainStep \/ Signal
  <2>. USE DEF Step, Enter, Leave, Opening
  <2>1. CASE Start
    BY <2>1 DEF Start
  <2>2. CASE ClosePort
    BY <2>2 DEF ClosePort
  <2>3. CASE Stop
    BY <2>3 DEF Stop
  <2>4. CASE Opened
    BY <2>4 DEF Opened
  <2>5. CASE StartReader
    BY <2>5 DEF StartReader
  <2>6. CASE StartHttp
    BY <2>6 DEF StartHttp
  <2>7. CASE StopHttp
    BY <2>7 DEF StopHttp
  <2>8. CASE HttpFails
    BY <2>8 DEF HttpFails
  <2>9. CASE Signal
    <3>1. /\ at' \in ThreadSteps /\ at'.reader = at.reader /\ at'.http = at.http
          /\ at.main = "serving" /\ at'.main = "stop http" /\ s' = s
      BY <2>9, MainSignalled
    <3>. HIDE DEF SharedState, ThreadSteps
    <3>. QED BY <3>1
  <2>10. CASE JoinReader
    BY <2>10 DEF JoinReader
  <2>11. CASE StopReader
    BY <2>11 DEF StopReader
  <2>12. CASE ReleaseOwner
    BY <2>12 DEF ReleaseOwner
  <2>13. CASE PortClosed
    BY <2>13 DEF PortClosed
  <2>14. CASE Stopped
    BY <2>14 DEF Stopped
  <2>. QED BY <1>3, <2>1, <2>2, <2>3, <2>4, <2>5, <2>6, <2>7, <2>8, <2>9, <2>10, <2>11, <2>12, <2>13, <2>14
       DEF MainStep
<1>4. CASE Plug \/ Unplug
  <2>1. at' = at
    BY <1>4 DEF Plug, Unplug
  <2>2. /\ s' \in SharedState
        /\ s'.io = s.io /\ s'.owner = s.owner
        /\ s.port = "closed" => s'.port = "closed"
    BY <1>4 DEF Plug, Unplug
  <2>. HIDE DEF SharedState, ThreadSteps, ReaderInside, MainInside, HttpInside
  <2>. QED BY <2>1, <2>2
<1>5. CASE UNCHANGED vars
  <2>1. s' = s /\ at' = at
    BY <1>5 DEF vars
  <2>. HIDE DEF SharedState, ThreadSteps, ReaderInside, MainInside, HttpInside
  <2>. QED BY <2>1
<1>. QED BY <1>1, <1>2, <1>3, <1>4, <1>5 DEF Next, Exited

(* Initially only the main thread is there.                                 *)
LEMMA LinkInit == Init => LinkInv
  BY DEF Init, LinkInv, SharedState, ThreadSteps, ReaderInside, MainInside, HttpInside

(* Every reachable state has the threads where they belong.                 *)
THEOREM LinkInvariant == Spec => []LinkInv
  BY LinkInit, LinkStep, PTL DEF Spec

(* The mutex has the holder that its critical section says.                 *)
THEOREM LinkTypeCorrect == Spec => []TypeOK
<1>1. LinkInv => TypeOK
  <2>. SUFFICES ASSUME LinkInv, NEW t \in {"reader", "main", "http"}
                PROVE  at[t] \in IF s.io = t THEN Inside[t] ELSE Outside[t]
    BY DEF LinkInv, TypeOK, ThreadSteps
  <2>. USE DEF LinkInv, SharedState, ThreadSteps, ReaderInside, MainInside, HttpInside, Inside, Outside
  <2>1. CASE t = "reader"
    BY <2>1
  <2>2. CASE t = "main"
    BY <2>2
  <2>3. CASE t = "http"
    BY <2>3
  <2>. QED BY <2>1, <2>2, <2>3
<1>. QED BY <1>1, LinkInvariant, PTL

(* After the shutdown the port is closed, the session lock is free and      *)
(* nobody is in a critical section, whatever the reader did meanwhile.      *)
THEOREM ShutdownSafe == Spec => []ShutdownLeavesNothing
<1>1. LinkInv => ShutdownLeavesNothing
  BY DEF LinkInv, SharedState, ReaderInside, MainInside, HttpInside, ShutdownLeavesNothing
<1>. QED BY <1>1, LinkInvariant, PTL

-----------------------------------------------------------------------------
(* SerialLine takes the steps of SerialLink. *)

(* Every step of SerialLine is one of SerialLink, or leaves it as it is.    *)
LEMMA LineStepIsLinkStep == LineNext => [Next]_vars
<1>1. SendByte \/ ReadByte => UNCHANGED vars
  BY DEF SendByte, ReadByte, vars
<1>2. LineRead \/ LineTooLong \/ ReadFails \/ LineHandled => ReaderStep
  BY DEF LineRead, LineTooLong, ReadFails, LineHandled, ReaderStep
<1>3. DropInput => ReaderStep \/ MainStep \/ Unplug
  BY DEF DropInput, ReaderStep, MainStep
<1>4. OtherStep => Next
  BY DEF OtherStep, Next, ReaderStep, MainStep
<1>. QED BY <1>1, <1>2, <1>3, <1>4 DEF LineNext, Next

(* What SerialLink promises, its liveness included, SerialLine keeps.       *)
THEOREM LineImplementsLink == LineSpec => FairSpec
<1>1. LineInit => Init
  BY DEF LineInit
<1>2. [LineNext]_<<vars, lvars>> => [Next]_vars
  BY LineStepIsLinkStep
<1>. QED BY <1>1, <1>2, PTL DEF LineSpec, FairSpec, Spec

(* The steps without bytes neither change the port nor bring a reader with  *)
(* text out of its place.                                                   *)
LEMMA OtherEffect ==
  ASSUME LinkInv, OtherStep
  PROVE  /\ s'.port = s.port
         /\ at.reader \in {"reading", "line"} => at'.reader = at.reader
         /\ at'.reader = "line" => at.reader = "line"
         /\ at'.reader = "reading" => at.reader \in {"reading", "loop"}
<1>. USE DEF LinkInv, SharedState, ThreadSteps, ReaderInside, MainInside, HttpInside, Step, Enter, Leave
<1>1. CASE LoopEnds \/ ReadLine \/ CheckRunning \/ Reconnect \/ WriteLine
  BY <1>1 DEF LoopEnds, ReadLine, CheckRunning, Reconnect, WriteLine
<1>2. CASE StillOpen \/ ReopenFails \/ SleepEnds \/ Written
  BY <1>2 DEF StillOpen, ReopenFails, SleepEnds, Written
<1>3. CASE HttpSession \/ AskOpen
  BY <1>3 DEF HttpSession, AskOpen
<1>4. CASE IsOpen \/ OpenKnown
  BY <1>4 DEF IsOpen, OpenKnown
<1>5. CASE Start \/ StartReader \/ StartHttp \/ HttpFails \/ StopHttp
  BY <1>5 DEF Start, StartReader, StartHttp, HttpFails, StopHttp
<1>6. CASE StopReader \/ ClosePort \/ JoinReader \/ Stop
  BY <1>6 DEF StopReader, ClosePort, JoinReader, Stop
<1>7. CASE ReleaseOwner \/ Signal
  BY <1>7 DEF ReleaseOwner, Signal
<1>8. CASE Plug \/ Exited
  BY <1>8 DEF Plug, Exited, vars
<1>. QED BY <1>1, <1>2, <1>3, <1>4, <1>5, <1>6, <1>7, <1>8 DEF OtherStep

(* The port is opened and closed, and the device lost, in places where the  *)
(* reader is not reading, or goes on with a port that is not open.          *)
LEMMA DropEffect ==
  ASSUME LinkInv, DropInput
  PROVE  /\ at.reader \in {"reading", "line"} => at'.reader = at.reader
         /\ at'.reader \in {"reading", "line"} => at'.reader = at.reader
         /\ at'.reader = "reading" => s'.port # "open"
<1>. USE DEF LinkInv, SharedState, ThreadSteps, ReaderInside, MainInside, HttpInside
<1>1. CASE Reopen
  BY <1>1 DEF Reopen, Opening, Step
<1>2. CASE Opened
  BY <1>2 DEF Opened, Opening, Step
<1>3. CASE PortClosed \/ Stopped
  BY <1>3 DEF PortClosed, Stopped, Leave, Step
<1>4. CASE Unplug
  BY <1>4 DEF Unplug
<1>. QED BY <1>1, <1>2, <1>3, <1>4 DEF DropInput

-----------------------------------------------------------------------------
(* The wire. *)

(* The first of the bytes to come, and what comes after a byte.             *)
LEMMA ComingFirst ==
  ASSUME WireInv
  PROVE  /\ wire = << >> => Coming(1) = next
         /\ wire # << >> => /\ 1 \in DOMAIN wire /\ Coming(1) = wire[1]
                            /\ wire[1] = Head(wire) /\ wire[1] \in Byte
         /\ Coming(1) \in Nat \X Nat
<1>1. wire \in Seq(Byte) /\ next \in Nat \X Nat
  BY DEF WireInv
<1>2. Len(wire) \in Nat /\ DOMAIN wire = 1..Len(wire) /\ (wire # << >> => Len(wire) # 0)
  BY <1>1, LenProperties, EmptySeq
<1>3. CASE wire = << >>
  <2>1. 1 \notin DOMAIN wire
    BY <1>3
  <2>. QED BY <1>1, <1>3, <2>1 DEF Coming
<1>4. CASE wire # << >>
  <2>1. 1 \in DOMAIN wire /\ wire[1] \in Byte
    BY <1>1, <1>2, <1>4, ElementOfSeq
  <2>2. wire[1] = Head(wire)
    BY <1>1, <1>4, HeadTailProperties
  <2>. QED BY <1>4, <2>1, <2>2 DEF Coming, Byte
<1>. QED BY <1>3, <1>4

(* A byte leaves the wire: the first.                                       *)
Taken == wire # << >> /\ wire' = Tail(wire) /\ next' = next

(* What was to come after it comes first then, and if it ends a line, only  *)
(* later lines are left.                                                    *)
LEMMA TakeByte ==
  ASSUME WireInv, Taken, s'.port = "open"
  PROVE  /\ WireInv'
         /\ Coming(1)' = After(wire[1])
         /\ IsNewline(wire[1]) =>
              wire[1][1] < next[1] /\ \A j \in DOMAIN wire' : wire[1][1] < wire'[j][1]
<1>0. PICK n \in Nat : n = Len(wire)
  BY LenProperties DEF WireInv
<1>1. /\ n \in Nat \ {0} /\ DOMAIN wire = 1..n
      /\ \A j \in 1..n : wire[j] \in Byte
  BY <1>0, LenProperties, EmptySeq, ElementOfSeq DEF WireInv, Taken
<1>2. /\ wire' \in Seq(Byte) /\ Len(wire') = n - 1
      /\ \A j \in 1..(n - 1) : wire'[j] = wire[j + 1]
  BY <1>0, HeadTailProperties DEF WireInv, Taken
<1>3. DOMAIN wire' = 1..(n - 1)
  BY <1>2, LenProperties
<1>4. \A j \in 1..n : Coming(j)' = Coming(j + 1)
  BY <1>1, <1>2, <1>3 DEF Coming, Taken
<1>5. Coming(1)' = After(wire[1])
  <2>1. Coming(1)' = Coming(1 + 1)
    BY <1>1, <1>4
  <2>2. Coming(1 + 1) = After(wire[1])
    BY <1>1 DEF WireInv
  <2>. QED BY <2>1, <2>2
<1>6. WireInv'
  <2>1. \A j \in DOMAIN wire' : Coming(j + 1)' = After(wire'[j])
    <3>. SUFFICES ASSUME NEW j \in 1..(n - 1)
                  PROVE  Coming(j + 1)' = After(wire'[j])
      BY <1>3
    <3>1. j + 1 \in 1..n /\ wire'[j] = wire[j + 1]
      BY <1>1, <1>2
    <3>2. Coming(j + 1)' = Coming((j + 1) + 1)
      BY <1>4, <3>1
    <3>3. Coming((j + 1) + 1) = After(wire[j + 1])
      BY <1>1, <3>1 DEF WireInv
    <3>. QED BY <3>1, <3>2, <3>3
  <2>2. \A j \in DOMAIN wire' : wire'[j][1] <= next'[1]
    BY <1>1, <1>2, <1>3 DEF WireInv, Taken
  <2>3. \A j, k \in DOMAIN wire' : j <= k => wire'[j][1] <= wire'[k][1]
    <3>. SUFFICES ASSUME NEW j \in 1..(n - 1), NEW k \in 1..(n - 1), j <= k
                  PROVE  wire'[j][1] <= wire'[k][1]
      BY <1>3
    <3>1. wire'[j] = wire[j + 1] /\ wire'[k] = wire[k + 1]
      BY <1>2
    <3>2. j + 1 \in DOMAIN wire /\ k + 1 \in DOMAIN wire /\ j + 1 <= k + 1
      BY <1>1
    <3>3. wire[j + 1][1] <= wire[k + 1][1]
      BY <3>2 DEF WireInv
    <3>. QED BY <3>1, <3>3
  <2>. QED BY <1>2, <2>1, <2>2, <2>3 DEF WireInv, After, IsNewline, Taken
<1>7. ASSUME IsNewline(wire[1])
      PROVE  wire[1][1] < next[1] /\ \A j \in DOMAIN wire' : wire[1][1] < wire'[j][1]
  <2>1. Coming(1)'[1] = wire[1][1] + 1 /\ wire[1][1] \in Nat
    BY <1>1, <1>5, <1>7 DEF After, Byte
  <2>2. CASE n = 1
    <3>1. 1 \notin DOMAIN wire'
      BY <1>3, <2>2
    <3>2. Coming(1)' = next
      BY <3>1 DEF Coming, Taken
    <3>. QED BY <1>3, <2>1, <2>2, <3>2
  <2>3. CASE n # 1
    <3>1. Coming(1)' = wire'[1] /\ 1 \in DOMAIN wire'
      BY <1>1, <1>3, <2>3 DEF Coming
    <3>2. \A j \in DOMAIN wire' : wire'[1][1] <= wire'[j][1] /\ wire'[j] \in Byte
      <4>1. ASSUME NEW j \in DOMAIN wire'
            PROVE  wire'[1][1] <= wire'[j][1]
        <5>1. 1 <= j
          BY <1>3
        <5>. QED BY <1>6, <3>1, <5>1 DEF WireInv
      <4>2. \A j \in 1..(n - 1) : wire'[j] \in Byte
        BY <1>1, <1>2
      <4>. QED BY <1>3, <4>1, <4>2
    <3>3. wire'[1][1] <= next[1] /\ next[1] \in Nat
      BY <1>6, <3>1 DEF WireInv, Taken
    <3>. QED BY <2>1, <3>1, <3>2, <3>3 DEF Byte
  <2>. QED BY <2>2, <2>3
<1>. QED BY <1>5, <1>6, <1>7

(* The device sends a byte into an open port ...                            *)
LEMMA PutByte ==
  ASSUME WireInv, SendByte
  PROVE  /\ next' = After(next) /\ next \in Byte /\ next' \in Nat \X Nat
         /\ next'[1] \in 1..(Len(LineLens) + 1)
         /\ IF next'[1] \in Lines THEN next'[2] \in 1..(LineLens[next'[1]] + 1) ELSE next'[2] = 1
         /\ next[1] <= next'[1]
         /\ next'[2] > 1 => next'[1] = next[1]
<1>1. next' = After(next) /\ next[1] \in Lines
  BY DEF SendByte, After
<1>2. /\ Lines = 1..Len(LineLens) /\ Len(LineLens) \in Nat
      /\ \A k \in Lines : LineLens[k] \in Nat
  BY LineAssumption, LenProperties, ElementOfSeq DEF Lines
<1>3. next = <<next[1], next[2]>> /\ next[1] \in Nat /\ next[2] \in 1..(LineLens[next[1]] + 1)
  BY <1>1 DEF WireInv
<1>4. CASE IsNewline(next)
  <2>1. next' = <<next[1] + 1, 1>>
    BY <1>1, <1>4 DEF After
  <2>. QED BY <1>1, <1>2, <1>3, <2>1 DEF Byte
<1>5. CASE ~IsNewline(next)
  <2>1. next' = <<next[1], next[2] + 1>> /\ next[2] < LineLens[next[1]] + 1
    BY <1>1, <1>2, <1>3, <1>5 DEF After, IsNewline
  <2>. QED BY <1>1, <1>2, <1>3, <2>1 DEF Byte
<1>. QED BY <1>4, <1>5

(* ... or into one that is not, where it is lost.                           *)
LEMMA SendKeepsWire ==
  ASSUME WireInv, SendByte
  PROVE  /\ WireInv'
         /\ wire # << >> => Coming(1)' = Coming(1)
         /\ wire = << >> /\ s.port = "open" => Coming(1)' = next
         /\ \A j \in DOMAIN wire' :
              wire'[j] = next \/ (j \in DOMAIN wire /\ wire'[j] = wire[j])
<1>1. /\ next' = After(next) /\ next \in Byte /\ next' \in Nat \X Nat
      /\ next'[1] \in 1..(Len(LineLens) + 1)
      /\ IF next'[1] \in Lines THEN next'[2] \in 1..(LineLens[next'[1]] + 1) ELSE next'[2] = 1
      /\ next[1] <= next'[1]
  BY PutByte
<1>2. s' = s
  BY DEF SendByte, vars
<1>3. CASE s.port # "open"
  <2>1. wire' = << >> /\ wire = << >>
    BY <1>3 DEF SendByte, WireInv
  <2>2. DOMAIN wire' = {} /\ wire' \in Seq(Byte)
    BY <2>1, EmptySeq
  <2>3. WireInv'
    BY <1>1, <1>2, <1>3, <2>1, <2>2 DEF WireInv
  <2>. QED BY <1>3, <2>1, <2>2, <2>3
<1>4. CASE s.port = "open"
  <2>0. PICK n \in Nat : n = Len(wire)
    BY LenProperties DEF WireInv
  <2>1. /\ n \in Nat /\ DOMAIN wire = 1..n
        /\ \A j \in 1..n : wire[j] \in Byte
    BY <2>0, LenProperties, ElementOfSeq DEF WireInv
  <2>2. /\ wire' \in Seq(Byte) /\ Len(wire') = n + 1
        /\ \A j \in 1..n : wire'[j] = wire[j]
        /\ wire'[n + 1] = next
    <3>1. wire' = Append(wire, next) /\ wire \in Seq(Byte)
      BY <1>4 DEF SendByte, WireInv
    <3>. QED BY <1>1, <2>0, <3>1, AppendProperties
  <2>3. DOMAIN wire' = 1..(n + 1)
    BY <2>2, LenProperties
  <2>4. \A j \in 1..(n + 1) : Coming(j)' = Coming(j)
    BY <2>1, <2>2, <2>3 DEF Coming
  <2>5. Coming(n + 2)' = next'
    <3>1. n + 2 \notin DOMAIN wire'
      BY <2>1, <2>3
    <3>. QED BY <3>1 DEF Coming
  <2>6. \A j \in DOMAIN wire' : Coming(j + 1)' = After(wire'[j])
    <3>. SUFFICES ASSUME NEW j \in 1..(n + 1)
                  PROVE  Coming(j + 1)' = After(wire'[j])
      BY <2>3
    <3>1. CASE j \in 1..n
      <4>1. Coming(j + 1)' = Coming(j + 1)
        BY <2>1, <2>4, <3>1
      <4>2. Coming(j + 1) = After(wire[j])
        BY <2>1, <3>1 DEF WireInv
      <4>. QED BY <2>2, <3>1, <4>1, <4>2
    <3>2. CASE j = n + 1
      BY <1>1, <2>1, <2>2, <2>5, <3>2
    <3>. QED BY <2>1, <3>1, <3>2
  <2>7. \A j \in DOMAIN wire' : wire'[j] \in Byte /\ wire'[j][1] <= next[1]
    <3>1. TAKE j \in DOMAIN wire'
    <3>2. CASE j \in DOMAIN wire
      BY <1>1, <2>1, <2>2, <2>3, <3>2 DEF WireInv
    <3>3. CASE j \notin DOMAIN wire
      BY <1>1, <2>1, <2>2, <2>3, <3>3 DEF WireInv, Byte
    <3>. QED BY <3>2, <3>3
  <2>8. \A j \in DOMAIN wire' : wire'[j][1] <= next'[1]
    BY <1>1, <2>7 DEF Byte
  <2>9. \A j, k \in DOMAIN wire' : j <= k => wire'[j][1] <= wire'[k][1]
    BY <2>1, <2>2, <2>3, <2>7 DEF WireInv
  <2>10. WireInv'
    BY <1>1, <1>2, <1>4, <2>2, <2>6, <2>8, <2>9 DEF WireInv
  <2>11. Coming(1)' = Coming(1)
    BY <2>1, <2>4
  <2>12. \A j \in DOMAIN wire' : wire'[j] = next \/ (j \in DOMAIN wire /\ wire'[j] = wire[j])
    BY <2>1, <2>2, <2>3
  <2>. QED BY <1>4, <2>10, <2>11, <2>12, ComingFirst
<1>. QED BY <1>3, <1>4

(* The wire is emptied.  The bytes before a rest that is still to come are   *)
(* among those that are lost.                                                *)
LEMMA DropWire ==
  ASSUME WireInv, Dropped, next' = next
  PROVE  /\ WireInv'
         /\ Coming(1)' = next
         /\ wire # << >> /\ next[2] > 1 => next[1] \in LinesOf(wire)
<1>1. wire' \in Seq(Byte) /\ DOMAIN wire' = {} /\ wire' = << >>
  BY EmptySeq DEF Dropped
<1>2. WireInv' /\ Coming(1)' = next
  BY <1>1 DEF WireInv, Coming
<1>3. ASSUME wire # << >>, next[2] > 1
      PROVE  next[1] \in LinesOf(wire)
  <2>0. PICK n \in Nat : n = Len(wire)
    BY LenProperties DEF WireInv
  <2>1. n \in DOMAIN wire /\ n + 1 \notin DOMAIN wire
    BY <1>3, <2>0, LenProperties, EmptySeq DEF WireInv
  <2>2. next = After(wire[n])
    <3>1. Coming(n + 1) = After(wire[n])
      BY <2>1 DEF WireInv
    <3>. QED BY <2>1, <3>1 DEF Coming
  <2>3. next[1] = wire[n][1]
    BY <1>3, <2>2 DEF After
  <2>. QED BY <2>1, <2>3 DEF LinesOf
<1>. QED BY <1>2, <1>3

-----------------------------------------------------------------------------
(* The text. *)

(* Nothing has been read, or was dropped again.                             *)
LEMMA NoText ==
  ASSUME text' = << >>
  PROVE  TextInv' /\ LinesOf(text)' = {}
<1>1. text' \in Seq(Byte) /\ DOMAIN text' = {}
  BY EmptySeq
<1>. QED BY <1>1 DEF TextInv, LinesOf

(* Bytes are bytes of lines.                                                *)
LEMMA LinesOfBytes ==
  ASSUME NEW bytes \in Seq(Byte)
  PROVE  LinesOf(bytes) \subseteq Lines
<1>1. \A j \in DOMAIN bytes : bytes[j] \in Byte
  BY LenProperties, ElementOfSeq
<1>. QED BY <1>1 DEF LinesOf, Byte

(* The device sends.                                                        *)
LEMMA SendKeepsText ==
  ASSUME LineInv, SendByte
  PROVE  TextInv' /\ TornInv'
<1>1. /\ text' = text /\ at' = at /\ s' = s
      /\ torn \subseteq torn' /\ torn' \subseteq Lines
  BY DEF SendByte, vars, LineInv, TornInv
<1>2. /\ next' = After(next) /\ next \in Byte /\ next[1] <= next'[1]
      /\ next' \in Nat \X Nat
      /\ next'[2] > 1 => next'[1] = next[1]
  BY PutByte DEF LineInv
<1>3. s.port = "open" => Coming(1)' = Coming(1) /\ torn' = torn
  <2>1. s.port = "open" => Coming(1)' = Coming(1)
    BY SendKeepsWire, ComingFirst DEF LineInv
  <2>. QED BY <2>1 DEF SendByte
<1>4. s.port # "open" => Coming(1)' = next' /\ torn' = torn \union {next[1]}
  <2>. SUFFICES ASSUME s.port # "open"
                PROVE  Coming(1)' = next' /\ torn' = torn \union {next[1]}
    OBVIOUS
  <2>1. wire' = << >>
    BY DEF LineInv, WireInv, SendByte
  <2>2. DOMAIN wire' = {}
    BY <2>1
  <2>. QED BY <2>2 DEF Coming, SendByte
<1>5. TextInv'
  <2>. SUFFICES ASSUME text # << >>
                PROVE  TextInv'
    BY <1>1, NoText
  <2>. DEFINE k == text[1][1]
              i == text[1][2]
  <2>1. /\ text' \in Seq(Byte) /\ text'[1] = text[1] /\ Len(text') = Len(text)
        /\ at.reader \notin {"reading", "line"} => text' = << >>
        /\ \A j \in DOMAIN text' : text'[j] = <<k, i + j - 1>> /\ i + j - 1 <= LineLens[k]
        /\ i = 1 \/ k \in torn'
    BY <1>1 DEF LineInv, TextInv
  <2>2. ASSUME at.reader = "line"
        PROVE  /\ Len(text) = LineLens[k] - i + 1
               /\ k < next'[1] /\ \A j \in DOMAIN wire' : k < wire'[j][1]
    <3>1. /\ Len(text) = LineLens[k] - i + 1
          /\ k < next[1] /\ \A j \in DOMAIN wire : k < wire[j][1]
      BY <2>2 DEF LineInv, TextInv
    <3>2. k \in Nat
      <4>1. 1 \in DOMAIN text /\ text[1] \in Byte
        BY LenProperties, EmptySeq, ElementOfSeq DEF LineInv, TextInv
      <4>. QED BY <4>1 DEF Byte
    <3>3. k < next'[1]
      BY <1>2, <3>1, <3>2 DEF Byte
    <3>. QED BY <3>1, <3>3, SendKeepsWire DEF LineInv
  <2>3. at.reader = "reading" /\ s.port = "open" => Coming(1)' = <<k, i + Len(text)>>
    BY <1>3 DEF LineInv, TextInv
  <2>. QED BY <1>1, <2>1, <2>2, <2>3 DEF TextInv
<1>6. TornInv'
  <2>1. CASE s.port = "open"
    BY <1>1, <1>3, <2>1 DEF LineInv, TornInv, LinesOf
  <2>2. CASE s.port # "open"
    BY <1>1, <1>2, <1>4, <2>2 DEF TornInv
  <2>. QED BY <2>1, <2>2
<1>. QED BY <1>5, <1>6

(* What has been read, in terms of its first byte.                          *)
LEMMA TextBytes ==
  ASSUME LineInv, text # << >>
  PROVE  /\ 1 \in DOMAIN text /\ text[1] \in Byte
         /\ text[1][1] \in Lines /\ text[1][1] \in Nat /\ text[1][2] \in Nat \ {0}
         /\ LineLens[text[1][1]] \in Nat
         /\ text[1][1] \in LinesOf(text)
         /\ LinesOf(text) = {text[1][1]}
<1>1. 1 \in DOMAIN text /\ text[1] \in Byte
  BY LenProperties, EmptySeq, ElementOfSeq DEF LineInv, TextInv
<1>2. \A k \in Lines : LineLens[k] \in Nat
  BY LineAssumption, LenProperties, ElementOfSeq DEF Lines
<1>3. text[1][1] \in Lines /\ text[1][1] \in Nat /\ text[1][2] \in Nat \ {0}
  BY <1>1, <1>2 DEF Byte
<1>4. \A j \in DOMAIN text : text[j][1] = text[1][1]
  BY DEF LineInv, TextInv
<1>. QED BY <1>1, <1>2, <1>3, <1>4 DEF LinesOf

(* A byte that does not end the line is read.                               *)
LEMMA ReadKeepsText ==
  ASSUME LineInv, ReadByte
  PROVE  WireInv' /\ TextInv' /\ TornInv'
<1>. DEFINE b == wire[1]
<1>1. /\ Taken /\ s' = s /\ at' = at /\ torn' = torn
      /\ at.reader = "reading" /\ s.port = "open"
  BY DEF ReadByte, Taken, vars
<1>2. WireInv' /\ Coming(1)' = After(b)
  BY <1>1, TakeByte DEF LineInv
<1>3. wire # << >> /\ b = Head(wire) /\ b = Coming(1) /\ b \in Byte
  BY ComingFirst DEF LineInv, ReadByte
<1>4. ~IsNewline(b) /\ text' = Append(text, b)
  BY <1>3 DEF ReadByte
<1>5. Coming(1)' = <<b[1], b[2] + 1>>
  BY <1>2, <1>4 DEF After
<1>6. b = <<b[1], b[2]>> /\ b[1] \in Lines /\ b[2] \in Nat \ {0} /\ b[2] <= LineLens[b[1]]
  <2>1. LineLens[b[1]] \in Nat
    BY <1>3, LineAssumption, LenProperties, ElementOfSeq DEF Byte, Lines
  <2>. QED BY <1>3, <1>4, <2>1 DEF Byte, IsNewline
<1>. HIDE DEF b
<1>7. PICK n \in Nat : n = Len(text) /\ DOMAIN text = 1..n
  BY LenProperties DEF LineInv, TextInv
<1>8. /\ text' \in Seq(Byte) /\ Len(text') = n + 1 /\ DOMAIN text' = 1..(n + 1)
      /\ \A j \in 1..n : text'[j] = text[j]
      /\ text'[n + 1] = b
  <2>1. text \in Seq(Byte)
    BY DEF LineInv, TextInv
  <2>2. /\ text' \in Seq(Byte) /\ Len(text') = n + 1
        /\ \A j \in 1..n : text'[j] = text[j]
        /\ text'[n + 1] = b
    BY <1>3, <1>4, <1>7, <2>1, AppendProperties
  <2>. QED BY <2>2, LenProperties
<1>9. TornInv'
  <2>1. torn \subseteq Lines
    BY DEF LineInv, TornInv
  <2>2. b[1] \in LinesOf(text)'
    BY <1>7, <1>8 DEF LinesOf
  <2>. QED BY <1>1, <1>5, <2>1, <2>2 DEF TornInv
<1>10. TextInv'
  <2>1. CASE text = << >>
    <3>1. n = 0 /\ text'[1] = b /\ DOMAIN text' = {1} /\ text' # << >>
      BY <1>7, <1>8, <2>1
    <3>2. b[2] = 1 \/ b[1] \in torn
      <4>1. LinesOf(text) = {}
        BY <2>1 DEF LinesOf
      <4>. QED BY <1>1, <1>3, <1>6, <4>1 DEF LineInv, TornInv
    <3>3. Coming(1)' = <<text'[1][1], text'[1][2] + Len(text')>>
      BY <1>5, <1>8, <3>1
    <3>4. \A j \in DOMAIN text' : text'[j] = <<b[1], b[2] + j - 1>> /\ b[2] + j - 1 <= LineLens[b[1]]
      BY <1>6, <3>1
    <3>. QED BY <1>1, <1>8, <3>1, <3>2, <3>3, <3>4 DEF TextInv
  <2>2. CASE text # << >>
    <3>. DEFINE k == text[1][1]
                i == text[1][2]
    <3>1. /\ 1 \in DOMAIN text /\ k \in Nat /\ i \in Nat
      BY <2>2, TextBytes
    <3>2. /\ \A j \in DOMAIN text : text[j] = <<k, i + j - 1>> /\ i + j - 1 <= LineLens[k]
          /\ i = 1 \/ k \in torn
          /\ Coming(1) = <<k, i + n>>
      BY <1>1, <1>7, <2>2 DEF LineInv, TextInv
    <3>3. text'[1] = text[1] /\ text' # << >>
      BY <1>7, <1>8, <3>1
    <3>. HIDE DEF k, i
    <3>4. b[1] = k /\ b[2] = i + n /\ b = <<k, i + (n + 1) - 1>>
      BY <1>3, <1>6, <3>1, <3>2
    <3>5. Coming(1)' = <<k, i + Len(text')>>
      BY <1>5, <1>8, <3>1, <3>4
    <3>6. \A j \in DOMAIN text' : text'[j] = <<k, i + j - 1>> /\ i + j - 1 <= LineLens[k]
      <4>. SUFFICES ASSUME NEW j \in 1..(n + 1)
                    PROVE  text'[j] = <<k, i + j - 1>> /\ i + j - 1 <= LineLens[k]
        BY <1>8
      <4>1. CASE j \in 1..n
        BY <1>7, <1>8, <3>2, <4>1
      <4>2. CASE j = n + 1
        BY <1>6, <1>8, <3>1, <3>4, <4>2
      <4>. QED BY <4>1, <4>2
    <3>. QED BY <1>1, <1>8, <3>2, <3>3, <3>5, <3>6 DEF TextInv, k, i
  <2>. QED BY <2>1, <2>2
<1>. QED BY <1>2, <1>9, <1>10

(* The end of a line is read: nothing of the line is left on the wire.      *)
LEMMA NewlineIsLast ==
  ASSUME LineInv, Taken, AtNewline, s'.port = "open"
  PROVE  /\ WireInv' /\ Coming(1)'[2] = 1
         /\ Coming(1)[2] = LineLens[Coming(1)[1]] + 1
         /\ Coming(1)[1] < next'[1] /\ \A j \in DOMAIN wire' : Coming(1)[1] < wire'[j][1]
<1>1. wire # << >> /\ Coming(1) = wire[1] /\ IsNewline(wire[1])
  BY ComingFirst DEF LineInv, AtNewline
<1>2. /\ WireInv' /\ Coming(1)' = After(wire[1])
      /\ wire[1][1] < next[1] /\ \A j \in DOMAIN wire' : wire[1][1] < wire'[j][1]
  BY <1>1, TakeByte DEF LineInv
<1>3. Coming(1)'[2] = 1
  BY <1>1, <1>2 DEF After
<1>. QED BY <1>1, <1>2, <1>3 DEF IsNewline, Taken

(* readLine() returns a line.                                               *)
LEMMA LineReadKeepsText ==
  ASSUME LineInv, LineRead
  PROVE  WireInv' /\ TextInv' /\ TornInv'
<1>1. /\ at.reader = "reading" /\ at'.reader = "line" /\ s.port = "open" /\ s'.port = "open"
      /\ Taken /\ AtNewline /\ text' = text /\ torn' = torn
  BY DEF LineRead, GotLine, Leave, Step, Taken, AtNewline, LineInv, LinkInv, SharedState, ThreadSteps
<1>2. /\ WireInv' /\ Coming(1)'[2] = 1
      /\ Coming(1)[2] = LineLens[Coming(1)[1]] + 1
      /\ Coming(1)[1] < next'[1] /\ \A j \in DOMAIN wire' : Coming(1)[1] < wire'[j][1]
  BY <1>1, NewlineIsLast
<1>3. TornInv'
  BY <1>1, <1>2 DEF LineInv, TornInv
<1>4. TextInv'
  <2>. SUFFICES ASSUME text # << >>
                PROVE  TextInv'
    BY <1>1, NoText
  <2>. DEFINE k == text[1][1]
              i == text[1][2]
  <2>1. /\ text \in Seq(Byte)
        /\ \A j \in DOMAIN text : text[j] = <<k, i + j - 1>> /\ i + j - 1 <= LineLens[k]
        /\ i = 1 \/ k \in torn
        /\ Coming(1) = <<k, i + Len(text)>>
    BY <1>1 DEF LineInv, TextInv
  <2>2. i \in Nat /\ LineLens[k] \in Nat /\ Len(text) \in Nat
    BY <2>1, TextBytes, LenProperties
  <2>. HIDE DEF k, i
  <2>3. /\ Len(text) = LineLens[k] - i + 1
        /\ k < next'[1] /\ \A j \in DOMAIN wire' : k < wire'[j][1]
    BY <1>2, <2>1, <2>2
  <2>. QED BY <1>1, <2>1, <2>3 DEF TextInv, k, i
<1>. QED BY <1>2, <1>3, <1>4

(* readLine() drops what it has: a line that is too long is at its end then. *)
LEMMA NoLineKeepsText ==
  ASSUME LineInv, LineTooLong \/ ReadFails
  PROVE  WireInv' /\ TextInv' /\ TornInv'
<1>1. /\ at.reader = "reading" /\ at'.reader = "failed" /\ s'.port = s.port
      /\ text' = << >> /\ torn' = torn \union LinesOf(text)
  BY DEF LineTooLong, ReadFails, NoLine, Leave, Step, LineInv, LinkInv, SharedState, ThreadSteps
<1>2. TextInv'
  BY <1>1, NoText
<1>3. torn' \subseteq Lines
  BY <1>1, LinesOfBytes DEF LineInv, TextInv, TornInv
<1>4. CASE LineTooLong
  <2>1. Taken /\ AtNewline /\ s'.port = "open"
    BY <1>1, <1>4 DEF LineTooLong, Taken, AtNewline
  <2>2. WireInv' /\ Coming(1)'[2] = 1
    BY <2>1, NewlineIsLast
  <2>. QED BY <1>2, <1>3, <2>2 DEF TornInv
<1>5. CASE ReadFails
  <2>1. wire' = wire /\ next' = next
    BY <1>5 DEF ReadFails
  <2>2. WireInv' /\ Coming(1)' = Coming(1)
    BY <1>1, <2>1 DEF LineInv, WireInv, Coming
  <2>. QED BY <1>1, <1>2, <1>3, <2>2 DEF LineInv, TornInv
<1>. QED BY <1>4, <1>5

(* The command handler is done with the line.                               *)
LEMMA HandledKeepsText ==
  ASSUME LineInv, LineHandled
  PROVE  WireInv' /\ TextInv' /\ TornInv'
<1>1. /\ at.reader = "line" /\ at'.reader = "answer" /\ s'.port = s.port
      /\ text' = << >> /\ wire' = wire /\ next' = next /\ torn' = torn
  BY DEF LineHandled, HandleLine, Step, LineInv, LinkInv, SharedState, ThreadSteps
<1>2. WireInv' /\ Coming(1)' = Coming(1)
  BY <1>1 DEF LineInv, WireInv, Coming
<1>. QED BY <1>1, <1>2, NoText DEF LineInv, TornInv

(* Input is dropped: what is being read is not gone on with.                *)
LEMMA DropKeepsText ==
  ASSUME LineInv, DropInput
  PROVE  WireInv' /\ TextInv' /\ TornInv'
<1>1. /\ Dropped /\ wire' = << >> /\ torn' = torn \union LinesOf(wire)
      /\ next' = next /\ text' = text
  BY DEF DropInput, Dropped
<1>2. /\ at.reader \in {"reading", "line"} => at'.reader = at.reader
      /\ at'.reader \in {"reading", "line"} => at'.reader = at.reader
      /\ at'.reader = "reading" => s'.port # "open"
  BY DropEffect DEF LineInv
<1>3. /\ WireInv' /\ Coming(1)' = next
      /\ wire # << >> /\ next[2] > 1 => next[1] \in LinesOf(wire)
  BY <1>1, DropWire DEF LineInv
<1>4. TextInv'
  <2>1. DOMAIN wire' = {}
    BY <1>1
  <2>. QED BY <1>1, <1>2, <2>1 DEF LineInv, TextInv
<1>5. TornInv'
  <2>1. torn' \subseteq Lines
    BY <1>1, LinesOfBytes DEF LineInv, WireInv, TornInv
  <2>2. LinesOf(text)' = LinesOf(text)
    BY <1>1 DEF LinesOf
  <2>3. wire = << >> => Coming(1) = next
    BY ComingFirst DEF LineInv
  <2>. QED BY <1>1, <1>2, <1>3, <2>1, <2>2, <2>3 DEF LineInv, TornInv
<1>. QED BY <1>3, <1>4, <1>5

(* The other steps have nothing to do with the bytes.                       *)
LEMMA OtherKeepsText ==
  ASSUME LineInv, OtherStep
  PROVE  WireInv' /\ TextInv' /\ TornInv'
<1>1. wire' = wire /\ text' = text /\ next' = next /\ torn' = torn
  BY DEF OtherStep, lvars
<1>2. /\ s'.port = s.port
      /\ at.reader \in {"reading", "line"} => at'.reader = at.reader
      /\ at'.reader = "line" => at.reader = "line"
      /\ at'.reader = "reading" => at.reader \in {"reading", "loop"}
  BY OtherEffect DEF LineInv
<1>3. WireInv' /\ Coming(1)' = Coming(1)
  BY <1>1, <1>2 DEF LineInv, WireInv, Coming
<1>4. TextInv'
  BY <1>1, <1>2, <1>3 DEF LineInv, TextInv
<1>5. TornInv'
  BY <1>1, <1>2, <1>3 DEF LineInv, TornInv, LinesOf
<1>. QED BY <1>3, <1>4, <1>5

-----------------------------------------------------------------------------
(* Every step keeps the threads, the wire and the text together.            *)
LEMMA LineStep == LineInv /\ [LineNext]_<<vars, lvars>> => LineInv'
<1>. SUFFICES ASSUME LineInv, [LineNext]_<<vars, lvars>>
              PROVE  LineInv'
  OBVIOUS
<1>1. LinkInv'
  BY LineStepIsLinkStep, LinkStep DEF LineInv
<1>2. CASE SendByte
  BY <1>1, <1>2, SendKeepsWire, SendKeepsText DEF LineInv
<1>3. CASE ReadByte
  BY <1>1, <1>3, ReadKeepsText DEF LineInv
<1>4. CASE LineRead
  BY <1>1, <1>4, LineReadKeepsText DEF LineInv
<1>5. CASE LineTooLong \/ ReadFails
  BY <1>1, <1>5, NoLineKeepsText DEF LineInv
<1>6. CASE LineHandled
  BY <1>1, <1>6, HandledKeepsText DEF LineInv
<1>7. CASE DropInput
  BY <1>1, <1>7, DropKeepsText DEF LineInv
<1>8. CASE OtherStep
  BY <1>1, <1>8, OtherKeepsText DEF LineInv
<1>9. CASE UNCHANGED <<vars, lvars>>
  <2>1. s' = s /\ at' = at /\ wire' = wire /\ text' = text /\ next' = next /\ torn' = torn
    BY <1>9 DEF vars, lvars
  <2>2. LinkInv'
    BY <1>1, <2>1 DEF LinkInv
  <2>3. WireInv' /\ Coming(1)' = Coming(1)
    BY <2>1 DEF LineInv, WireInv, Coming
  <2>4. TextInv'
    BY <2>1, <2>3 DEF LineInv, TextInv
  <2>5. TornInv'
    BY <2>1, <2>3 DEF LineInv, TornInv, LinesOf
  <2>. QED BY <2>2, <2>3, <2>4, <2>5 DEF LineInv
<1>. QED BY <1>2, <1>3, <1>4, <1>5, <1>6, <1>7, <1>8, <1>9 DEF LineNext

(* Initially nothing has been sent.                                         *)
LEMMA LineStart == LineInit => LineInv
<1>. SUFFICES ASSUME LineInit
              PROVE  LineInv
  OBVIOUS
<1>1. wire \in Seq(Byte) /\ DOMAIN wire = {} /\ text \in Seq(Byte) /\ text = << >>
  BY EmptySeq DEF LineInit
<1>2. /\ Lines = 1..Len(LineLens) /\ Len(LineLens) \in Nat
      /\ \A k \in Lines : LineLens[k] \in Nat
  BY LineAssumption, LenProperties, ElementOfSeq DEF Lines
<1>3. LinkInv
  BY LinkInit DEF LineInit
<1>4. WireInv
  BY <1>1, <1>2 DEF WireInv, LineInit
<1>5. TextInv
  BY <1>1 DEF TextInv
<1>6. TornInv
  BY <1>1 DEF TornInv, LineInit, Coming
<1>. QED BY <1>3, <1>4, <1>5, <1>6 DEF LineInv

(* Every reachable state has them together.                                 *)
THEOREM LineInvariant == LineSpec => []LineInv
  BY LineStart, LineStep, PTL DEF LineSpec

(* The bytes are bytes of lines, a port that is not open has no input, and  *)
(* there is text only while a line is read or handled.                      *)
THEOREM LineTypeCorrect == LineSpec => []LineTypeOK
<1>1. LineSpec => []TypeOK
  BY LineImplementsLink, LinkTypeCorrect, PTL DEF FairSpec
<1>2. LineInv /\ TypeOK => LineTypeOK
  <2>. SUFFICES ASSUME LineInv, TypeOK
                PROVE  LineTypeOK
    OBVIOUS
  <2>1. \A j \in DOMAIN wire : wire[j] \in Byte
    BY LenProperties, ElementOfSeq DEF LineInv, WireInv
  <2>2. \A j \in DOMAIN text : text[j][1] \in Lines /\ text[j][2] \in 1..LineLens[text[j][1]]
    <3>. SUFFICES ASSUME NEW j \in DOMAIN text
                  PROVE  text[j][1] \in Lines /\ text[j][2] \in 1..LineLens[text[j][1]]
      OBVIOUS
    <3>1. text # << >>
      OBVIOUS
    <3>2. j \in Nat \ {0}
      BY LenProperties DEF LineInv, TextInv
    <3>3. text[j] = <<text[1][1], text[1][2] + j - 1>> /\ text[1][2] + j - 1 <= LineLens[text[1][1]]
      BY <3>1 DEF LineInv, TextInv
    <3>. QED BY <3>1, <3>2, <3>3, TextBytes
  <2>. QED BY <2>1, <2>2 DEF LineInv, WireInv, TextInv, TornInv, LineTypeOK, Byte
<1>. QED BY <1>1, <1>2, LineInvariant, PTL

(* What the command handler gets is one line, whole unless something of it  *)
(* was dropped, and always with its end.                                    *)
THEOREM WholeLines == LineSpec => []LineIsWhole
<1>1. LineInv => LineIsWhole
  <2>. SUFFICES ASSUME LineInv, at.reader = "line", text # << >>
                PROVE  text = Rest(text[1][1], text[1][2]) /\ (text[1][2] = 1 \/ text[1][1] \in torn)
    BY DEF LineIsWhole
  <2>. DEFINE k == text[1][1]
              i == text[1][2]
  <2>1. /\ \A j \in DOMAIN text : text[j] = <<k, i + j - 1>>
        /\ i = 1 \/ k \in torn
        /\ Len(text) = LineLens[k] - i + 1
    BY DEF LineInv, TextInv
  <2>2. text = [j \in 1..Len(text) |-> text[j]]
    BY LenProperties DEF LineInv, TextInv
  <2>. HIDE DEF k, i
  <2>3. text = Rest(k, i)
    BY <2>1, <2>2 DEF Rest
  <2>. QED BY <2>1, <2>3 DEF k, i
<1>. QED BY <1>1, LineInvariant, PTL

(* What is still to come was sent after the line that is being handled.     *)
THEOREM OrderedLines == LineSpec => []LinesInOrder
<1>1. LineInv => LinesInOrder
  <2>. SUFFICES ASSUME LineInv, at.reader = "line", text # << >>, NEW j \in DOMAIN wire
                PROVE  wire[j][1] > text[1][1]
    BY DEF LinesInOrder
  <2>1. text[1][1] < wire[j][1] /\ text[1][1] \in Nat
    BY TextBytes DEF LineInv, TextInv
  <2>2. wire[j][1] \in Nat
    BY LenProperties, ElementOfSeq DEF LineInv, WireInv, Byte
  <2>. QED BY <2>1, <2>2
<1>. QED BY <1>1, LineInvariant, PTL
=============================================================================
