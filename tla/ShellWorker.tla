----------------------------- MODULE ShellWorker -----------------------------
(***************************************************************************)
(* SshShellWorker: one SSH shell on a thread of its own.                   *)
(*                                                                         *)
(* start is one call that connects, opens the shell and then loops: take   *)
(* the pending input and write it, apply the pending window size, read     *)
(* until there is nothing to read.  at names the point it has reached.     *)
(* The GUI thread calls sendInput, resizePty and stop at any time, under   *)
(* the worker's mutexes; the worker answers with signals that wait in the  *)
(* GUI's event queue.  A byte of input is its place in what was typed.     *)
(***************************************************************************)
EXTENDS Naturals, Sequences, SequencesExt

CONSTANTS
  Sizes,      \* window sizes
  NoSize,     \* no window size is waiting (0 columns in the code)
  FirstSize   \* what a terminal without a size gets (80 x 24)

ASSUME WorkerAssumption == NoSize \notin Sizes /\ FirstSize \notin Sizes

VARIABLES
  at,         \* where start stands; "gone" once the worker is deleted
  stop,       \* m_stopRequested
  pending,    \* m_pendingInputBytes
  taken,      \* pendingInput of the loop: what is left to write
  size,       \* m_pendingColumns and m_pendingRows
  remoteSize, \* the size the remote terminal has
  refused,    \* history: was the last change of size refused
  sent,       \* history: the input written to the channel
  events      \* the worker's signals in the GUI's event queue

input  == <<pending, taken, sent>>
sizes  == <<size, remoteSize, refused>>
worker == <<at, stop, input, sizes>>
wvars  == <<worker, events>>

InLoop  == {"loop", "write", "resize", "read"}
Running == InLoop \cup {"connecting", "opening", "cleanup"}
Points  == Running \cup {"none", "returned", "gone"}
\* libssh may stay in a call here for as long as its time limit.
Blocking == {"connecting", "opening"}
Signals == {"connected", "disconnected", "finished", "threadFinished"}

NoWorker ==
  /\ at = "none" /\ stop = FALSE
  /\ pending = <<>> /\ taken = <<>> /\ sent = <<>>
  /\ size = NoSize /\ remoteSize = FirstSize /\ refused = FALSE
  /\ events = <<>>

\* A new worker, given the size of the terminal, in a thread that starts it.
NewWorker(initialSize) ==
  /\ at' = "connecting" /\ stop' = FALSE
  /\ pending' = <<>> /\ taken' = <<>> /\ sent' = <<>>
  /\ size' = initialSize /\ remoteSize' = FirstSize /\ refused' = FALSE
-----------------------------------------------------------------------------
(***************************************************************************)
(* Calls from the GUI thread.                                              *)
(***************************************************************************)

SendInput(byte) ==
  /\ pending' = Append(pending, byte)
  /\ UNCHANGED <<at, stop, taken, sent, sizes>>

\* The latest size wins.
ResizePty(n) ==
  /\ size' = n
  /\ UNCHANGED <<at, stop, input, remoteSize, refused>>

RequestStop ==
  /\ stop' = TRUE
  /\ UNCHANGED <<at, input, sizes>>
-----------------------------------------------------------------------------
(***************************************************************************)
(* The worker thread.                                                      *)
(***************************************************************************)

Emit(signals) == events' = events \o signals
Goto(point) == at' = point

\* ssh_connect, the host key, the authentication: blocking, with time limits
\* of their own; the stop flag is not looked at.
Connect ==
  /\ at = "connecting" /\ Goto("opening")
  /\ UNCHANGED <<stop, input, sizes, events>>

\* An early return: whatever fails before the loop.
FailToOpen ==
  /\ at \in {"connecting", "opening"}
  /\ Goto("returned") /\ Emit(<<"finished">>)
  /\ UNCHANGED <<stop, input, sizes>>

\* Seeded fault: a size that was never set is asked for.
RawSize == size

StartSize == IF size = NoSize THEN FirstSize ELSE size

\* The terminal is opened with the size that waits, if one does.
OpenShell ==
  /\ at = "opening" /\ Goto("loop")
  /\ remoteSize' = StartSize
  /\ size' = NoSize
  /\ Emit(<<"connected">>)
  /\ UNCHANGED <<stop, input, refused>>

\* Seeded fault: the loop looks at the connection only.
IgnoresStop ==
  /\ at = "loop" /\ Goto("write")
  /\ taken' = pending /\ pending' = <<>>
  /\ UNCHANGED <<stop, sent, sizes, events>>

TakeInput ==
  /\ at = "loop" /\ ~stop /\ Goto("write")
  /\ taken' = pending /\ pending' = <<>>
  /\ UNCHANGED <<stop, sent, sizes, events>>

\* The stop flag at the head of the loop, or the transport is gone.
LeaveLoop ==
  /\ at = "loop" /\ Goto("cleanup")
  /\ UNCHANGED <<stop, input, sizes, events>>

\* ssh_channel_write takes some of it.
WriteSome ==
  /\ at = "write" /\ ~stop
  /\ \E n \in 1..Len(taken) :
       /\ sent' = sent \o SubSeq(taken, 1, n)
       /\ taken' = SubSeq(taken, n + 1, Len(taken))
  /\ UNCHANGED <<at, stop, pending, sizes, events>>

\* Seeded fault: what is left goes behind what was typed meanwhile.
RequeueBehind == pending \o taken

\* requeuePendingInputBytes puts what is left in front.
Requeued == taken \o pending

\* All is written, or the channel takes no more now, or this turn's budget of
\* 64 KiB is used up, or the worker is to stop.
EndWrite ==
  /\ at = "write" /\ Goto("resize")
  /\ pending' = Requeued /\ taken' = <<>>
  /\ UNCHANGED <<stop, sent, sizes, events>>

\* An error of the channel.  What was taken is lost with the connection.
Lose ==
  /\ at \in {"write", "read"} /\ Goto("cleanup")
  /\ UNCHANGED <<stop, input, sizes, events>>

ApplySize ==
  /\ at = "resize" /\ Goto("read")
  /\ size' = NoSize
  /\ IF size \in {NoSize, remoteSize} THEN UNCHANGED <<remoteSize, refused>>
     ELSE \/ remoteSize' = size /\ refused' = FALSE
          \/ refused' = TRUE /\ UNCHANGED remoteSize
  /\ UNCHANGED <<stop, input, events>>

\* The two read loops go on while there is output, whatever the stop flag says;
\* then end of file is checked.
ReadUntilDry ==
  /\ at = "read" /\ at' \in {"loop", "cleanup"}
  /\ UNCHANGED <<stop, input, sizes, events>>

Cleanup ==
  /\ at = "cleanup" /\ Goto("returned")
  /\ Emit(<<"disconnected", "finished">>)
  /\ UNCHANGED <<stop, input, sizes>>

WorkerStep ==
  \/ Connect \/ FailToOpen \/ OpenShell \/ TakeInput \/ LeaveLoop \/ WriteSome
  \/ EndWrite \/ Lose \/ ApplySize \/ ReadUntilDry \/ Cleanup

\* The event loop of the thread ends, once told to; the worker is deleted.
ThreadEnds ==
  /\ at = "returned" /\ Goto("gone")
  /\ Emit(<<"threadFinished">>)
  /\ UNCHANGED <<stop, input, sizes>>
=============================================================================
