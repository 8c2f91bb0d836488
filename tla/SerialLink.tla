----------------------------- MODULE SerialLink -----------------------------
(***************************************************************************)
(* The serial port of SerialDaemon and the threads that share it through   *)
(* io_mutex_: the reader (readLine, reconnect, answer), the main thread    *)
(* (start, then the shutdown of main.cpp) and the libmicrohttpd thread,    *)
(* whose status requests ask is_open().  Every critical section of         *)
(* io_mutex_ has a step that enters and a step that leaves it.             *)
(*                                                                         *)
(* A serial device is configured.  SerialPort's own mutex_ is only taken   *)
(* inside io_mutex_ and is left out, as are the two ways of opening a      *)
(* device.  Of the bytes, readLine leaves that it ends with a line or      *)
(* without one (SerialLine has the bytes); of the AT commands, that they   *)
(* end and may release owner_.                                             *)
(***************************************************************************)

VARIABLES
  s,    \* the shared state
  at    \* at[t]: the next step of thread t

vars == <<s, at>>

(* port is "stale" when it is open on a device that was unplugged since.    *)
SharedState ==
  [device  : {"plugged", "absent"},
   port    : {"closed", "open", "stale"},
   io      : {"free", "reader", "main", "http"},   \* the holder of io_mutex_
   running : BOOLEAN,                              \* reader_running_
   owner   : {"NONE", "HTTP", "SERIAL"}]           \* owner_

(* The steps that leave a critical section of io_mutex_, and the others.    *)
Inside == [reader |-> {"reading", "opening", "sleeping", "writing"},
           main   |-> {"opening", "closing", "stopping"},
           http   |-> {"asking"}]
Outside == [reader |-> {"none", "loop", "failed", "reconnect", "line", "answer",
                        "exited"},
            main   |-> {"start", "reader", "http", "serving", "stop http",
                        "stop reader", "close", "join", "stop", "release", "exited"},
            http   |-> {"none", "idle", "is_open"}]

TypeOK ==
  /\ s \in SharedState
  /\ \A t \in DOMAIN at :
       at[t] \in IF s.io = t THEN Inside[t] ELSE Outside[t]

Init ==
  /\ \E d \in {"plugged", "absent"} :
       s = [device |-> d, port |-> "closed", io |-> "free", running |-> FALSE,
            owner |-> "NONE"]
  /\ at = [reader |-> "none", main |-> "start", http |-> "none"]

(* Thread t goes from p to q: with the shared state as n, entering a        *)
(* critical section, or leaving it.                                         *)
Step(t, p, q, n) == at[t] = p /\ at' = [at EXCEPT ![t] = q] /\ s' = n
Enter(t, p, q)   == s.io = "free" /\ Step(t, p, q, [s EXCEPT !.io = t])
Leave(t, p, q, port) == Step(t, p, q, [s EXCEPT !.io = "free", !.port = port])

(* open() succeeds exactly when there is a device.                          *)
Opening(t, p, q) ==
  Step(t, p, q,
       [s EXCEPT !.io = "free",
                 !.port = IF s.device = "plugged" THEN "open" ELSE "closed"])

-----------------------------------------------------------------------------
(* The reader thread                                                       *)

LoopEnds == ~s.running /\ Step("reader", "loop", "exited", s)
ReadLine == s.running /\ Enter("reader", "loop", "reading")
GotLine  == s.port = "open" /\ Leave("reader", "reading", "line", s.port)

(* Port closed, timeout, line too long, or an error of the device.          *)
NoLine == Leave("reader", "reading", "failed", s.port)

CheckRunning ==
  Step("reader", "failed", IF s.running THEN "reconnect" ELSE "exited", s)

Reconnect == Enter("reader", "reconnect", "opening")
StillOpen == s.port # "closed" /\ Leave("reader", "opening", "loop", s.port)

(* Mutant: the reader leaves a closed port closed.                          *)
Reopen_Never == s.port = "closed" /\ Leave("reader", "opening", "loop", s.port)
Reopen ==
  s.port = "closed" /\ s.device = "plugged" /\ Opening("reader", "opening", "loop")

(* The second of sleep after a failed open() is spent inside io_mutex_.     *)
ReopenFails ==
  /\ s.port = "closed" /\ s.device = "absent"
  /\ Step("reader", "opening", "sleeping", s)
SleepEnds == Leave("reader", "sleeping", "loop", s.port)

(* The session lock (see SessionLock): BUSY under HTTP, else the command    *)
(* runs, and AT+RESET releases the lock.                                    *)
HandleLine ==
  \/ s.owner = "HTTP" /\ Step("reader", "line", "answer", s)
  \/ /\ s.owner # "HTTP"
     /\ \E o \in {"SERIAL", "NONE"} :
          Step("reader", "line", "answer", [s EXCEPT !.owner = o])

WriteLine == Enter("reader", "answer", "writing")
Written   == Leave("reader", "writing", "loop", s.port)

ReaderStep ==
  \/ LoopEnds \/ ReadLine \/ GotLine \/ NoLine \/ CheckRunning
  \/ Reconnect \/ StillOpen \/ Reopen \/ ReopenFails \/ SleepEnds
  \/ HandleLine \/ WriteLine \/ Written

-----------------------------------------------------------------------------
(* The HTTP thread: sessions, and is_open() for GET /api/status.  It takes  *)
(* no new request once main() is in MHD_stop_daemon().                      *)

HttpSession ==
  /\ at.main = "serving"
  /\ \E o \in {"NONE", "HTTP"} :
       /\ o = "HTTP" => s.owner = "NONE"
       /\ Step("http", "idle", "idle", [s EXCEPT !.owner = o])

AskOpen   == at.main = "serving" /\ Step("http", "idle", "is_open", s)
IsOpen    == Enter("http", "is_open", "asking")
OpenKnown == Leave("http", "asking", "idle", s.port)

-----------------------------------------------------------------------------
(* The main thread                                                         *)

Start  == Enter("main", "start", "opening")
Opened == Opening("main", "opening", "reader")

StartReader ==
  /\ at.main = "reader"
  /\ at' = [at EXCEPT !.main = "http", !.reader = "loop"]
  /\ s' = [s EXCEPT !.running = TRUE]

StartHttp ==
  /\ at.main = "http"
  /\ at' = [at EXCEPT !.main = "serving", !.http = "idle"]
  /\ UNCHANGED s

(* The port of the server is taken: main() calls stop() and returns.        *)
HttpFails == Step("main", "http", "stop reader", s)

(* SIGTERM or SIGINT has cleared g_running: the main loop ends.             *)
Signal == Step("main", "serving", "stop http", s)

(* MHD_stop_daemon() joins the HTTP thread.                                 *)
StopHttp ==
  /\ at.main = "stop http" /\ at.http = "idle"
  /\ at' = [at EXCEPT !.main = "stop reader", !.http = "none"]
  /\ UNCHANGED s

StopReader == Step("main", "stop reader", "close", [s EXCEPT !.running = FALSE])
ClosePort  == Enter("main", "close", "closing")

(* Mutant: io_mutex_ is held over the join.                                 *)
PortClosed_HoldLock == Step("main", "closing", "join", [s EXCEPT !.port = "closed"])
PortClosed == Leave("main", "closing", "join", "closed")

JoinReader == at.reader = "exited" /\ Step("main", "join", "stop", s)

(* The second close, in stop() itself.                                      *)
Stop == Enter("main", "stop", "stopping")

(* Mutant: stop() relies on the close in stop_reader().                     *)
Stopped_KeepPort == Leave("main", "stopping", "release", s.port)
Stopped == Leave("main", "stopping", "release", "closed")

ReleaseOwner == Step("main", "release", "exited", [s EXCEPT !.owner = "NONE"])

MainStep ==
  \/ Start \/ Opened \/ StartReader \/ StartHttp \/ HttpFails
  \/ StopHttp \/ StopReader \/ ClosePort \/ PortClosed \/ JoinReader
  \/ Stop \/ Stopped \/ ReleaseOwner

-----------------------------------------------------------------------------
(* The device                                                              *)

Plug ==
  /\ s.device = "absent"
  /\ s' = [s EXCEPT !.device = "plugged"]
  /\ UNCHANGED at

Unplug ==
  /\ s.device = "plugged"
  /\ s' = [s EXCEPT !.device = "absent", !.port = IF @ = "open" THEN "stale" ELSE @]
  /\ UNCHANGED at

Exited == at.main = "exited" /\ UNCHANGED vars

Next ==
  \/ ReaderStep
  \/ HttpSession \/ AskOpen \/ IsOpen \/ OpenKnown
  \/ MainStep \/ Signal
  \/ Plug \/ Unplug
  \/ Exited

Spec == Init /\ [][Next]_vars

(* Every thread runs, and gets io_mutex_ in the end although the others may *)
(* take it again and again.  The standard does not promise the latter: the  *)
(* reader leaves the mutex free for an instant only between two reads.      *)
Fairness ==
  /\ WF_vars(ReaderStep) /\ WF_vars(IsOpen \/ OpenKnown) /\ WF_vars(MainStep)
  /\ SF_vars(ReadLine) /\ SF_vars(Reconnect) /\ SF_vars(WriteLine)
  /\ SF_vars(IsOpen)
  /\ SF_vars(Start) /\ SF_vars(ClosePort) /\ SF_vars(Stop)

FairSpec == Spec /\ Fairness

-----------------------------------------------------------------------------
(* Properties                                                              *)

(* After the shutdown the port is closed and nobody owns the session lock,  *)
(* although the reader may reopen the port behind the back of stop_reader() *)
(* and may take the lock while it is being joined.                          *)
ShutdownLeavesNothing ==
  at.main = "exited" => s.port = "closed" /\ s.owner = "NONE" /\ s.io = "free"

(* A shutdown completes: no join waits for a thread that waits for          *)
(* io_mutex_.                                                               *)
ShutdownCompletes == at.main = "stop http" ~> at.main = "exited"

Serving == at.main = "serving"

(* A port that could not be opened is opened once the device is there.      *)
ClosedPortIsReopened ==
  s.port = "closed" /\ Serving ~> s.port = "open" \/ s.device = "absent" \/ ~Serving

(* serial_daemon.cpp:146: after a timeout or an error the reader tries to   *)
(* reconnect.  Here: a device that was unplugged and came back is reopened. *)
StalePortIsReopened ==
  s.port = "stale" /\ s.device = "plugged" /\ Serving
    ~> s.port = "open" \/ s.device = "absent" \/ ~Serving
=============================================================================
