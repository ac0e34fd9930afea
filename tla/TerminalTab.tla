----------------------------- MODULE TerminalTab -----------------------------
(***************************************************************************)
(* WebTerminalTab and the worker of its shell.                             *)
(*                                                                         *)
(* The GUI thread handles one click or one event at a time.  The worker's  *)
(* signals reach the tab through the event queue, in order, and so does    *)
(* the deletion of a closed tab.  The tab keeps pointers to its worker and *)
(* thread until it handles the end of the thread; the worker is deleted    *)
(* before that.                                                            *)
(***************************************************************************)
EXTENDS ShellWorker

CONSTANTS
  MaxInput,   \* bound: bytes typed in one shell
  MaxRuns     \* bound: shells started in the tab

ASSUME TabAssumption == MaxInput \in Nat /\ MaxRuns \in Nat

VARIABLES
  tab,        \* open, asking (the question of a close), deleting, waiting
              \* (for the thread, in the destructor), gone, or aborted
  pointer,    \* m_worker and m_thread: do they point to a run
  active,     \* m_shellActive
  asked,      \* m_disconnectRequested
  quit,       \* was the thread told to quit
  buttons,    \* the buttons that are enabled: input (and Disconnect), reconnect
  last,       \* m_lastTerminalColumns and m_lastTerminalRows
  runs,       \* shells started
  typed       \* history: input accepted for the current shell

gui  == <<tab, pointer, active, asked, quit, buttons, last, runs, typed>>
vars == <<wvars, gui>>

Buttons == SUBSET {"input", "reconnect"}

Init ==
  /\ NoWorker
  /\ tab = "open" /\ pointer = FALSE /\ active = FALSE /\ asked = FALSE
  /\ quit = FALSE /\ buttons = {} /\ last = NoSize /\ runs = 0 /\ typed = <<>>

Dangling == pointer /\ at = "gone"
HasActiveShell == active /\ pointer

\* Seeded fault: a new shell is not told the size of the terminal.
NoInitialSize == NoSize

InitialSize == last

\* startShell.
StartShell ==
  /\ runs < MaxRuns /\ runs' = runs + 1
  /\ NewWorker(InitialSize)
  /\ pointer' = TRUE /\ active' = TRUE /\ asked' = FALSE /\ quit' = FALSE
  /\ buttons' = {} /\ typed' = <<>>
  /\ UNCHANGED <<tab, last, events>>

\* The page of the terminal has been loaded.
Ready == tab = "open" /\ runs = 0 /\ StartShell

\* sendToWorker, for a key, a paste or a command line.
Type ==
  /\ tab = "open" /\ HasActiveShell /\ Len(typed) < MaxInput
  /\ typed' = Append(typed, Len(typed) + 1)
  /\ SendInput(Len(typed) + 1)
  /\ UNCHANGED <<events, tab, pointer, active, asked, quit, buttons, last, runs>>

\* A call on a worker that has been deleted is undefined: it may go unnoticed
\* or end the program.
Undefined == UNCHANGED <<worker, tab>> \/ (tab' = "aborted" /\ UNCHANGED worker)

\* requestPtyResize.
Resize ==
  /\ tab = "open"
  /\ \E n \in Sizes :
       /\ last' = n
       /\ IF Dangling THEN Undefined
          ELSE IF pointer THEN ResizePty(n) /\ UNCHANGED tab
          ELSE UNCHANGED <<worker, tab>>
  /\ UNCHANGED <<events, pointer, active, asked, quit, buttons, runs, typed>>

\* disconnectShell, on a worker that is there.
DisconnectShell ==
  /\ asked' = TRUE /\ RequestStop
  /\ buttons' = IF asked THEN buttons ELSE {}

Disconnect ==
  /\ tab = "open" /\ "input" \in buttons /\ pointer
  /\ DisconnectShell
  /\ UNCHANGED <<events, tab, pointer, active, quit, last, runs, typed>>

\* reconnectShell.
Reconnect ==
  /\ tab = "open" /\ "reconnect" \in buttons
  /\ ~active /\ ~pointer
  /\ StartShell

\* The close button of the tab, or of the window: it asks about a shell that
\* is active.
RequestClose ==
  /\ tab = "open"
  /\ IF HasActiveShell THEN tab' = "asking" /\ UNCHANGED events
     ELSE tab' = "deleting" /\ Emit(<<"delete">>)
  /\ UNCHANGED <<worker, pointer, active, asked, quit, buttons, last, runs, typed>>

CancelClose ==
  /\ tab = "asking" /\ tab' = "open"
  /\ UNCHANGED <<wvars, pointer, active, asked, quit, buttons, last, runs, typed>>

\* The shell may have ended while the question was open.
ConfirmClose ==
  /\ tab = "asking"
  /\ \/ /\ Dangling
        /\ UNCHANGED <<worker, asked, buttons>>
        /\ tab' \in {"deleting", "aborted"}
     \/ pointer /\ ~Dangling /\ DisconnectShell /\ tab' = "deleting"
     \/ ~pointer /\ UNCHANGED <<worker, asked, buttons>> /\ tab' = "deleting"
  /\ Emit(<<"delete">>)
  /\ UNCHANGED <<pointer, active, quit, last, runs, typed>>
-----------------------------------------------------------------------------
(***************************************************************************)
(* The tab's handlers of queued events.                                    *)
(***************************************************************************)

Deliver(event) ==
  /\ tab \in {"open", "asking", "deleting"}
  /\ events # <<>> /\ Head(events) = event
  /\ events' = Tail(events)

OnConnected ==
  /\ Deliver("connected")
  /\ buttons' = {"input"}
  /\ UNCHANGED <<worker, tab, pointer, active, asked, quit, last, runs, typed>>

OnDisconnected ==
  /\ Deliver("disconnected")
  /\ buttons' = {}
  /\ UNCHANGED <<worker, tab, pointer, active, asked, quit, last, runs, typed>>

\* Seeded fault: the shell stays active until its thread has ended.
StillActive == active

\* Seeded fault: Reconnect is offered as soon as the worker has finished.
ReconnectAtOnce == {"reconnect"}

AfterFinish == FALSE
ButtonsAfterFinish == {}

\* handleWorkerFinished, and QThread::quit.
OnFinished ==
  /\ Deliver("finished")
  /\ active' = AfterFinish
  /\ buttons' = ButtonsAfterFinish
  /\ quit' = TRUE
  /\ UNCHANGED <<worker, tab, pointer, asked, last, runs, typed>>

OnThreadFinished ==
  /\ Deliver("threadFinished")
  /\ pointer' = FALSE
  /\ buttons' = IF active THEN buttons ELSE {"reconnect"}
  /\ UNCHANGED <<worker, tab, active, asked, quit, last, runs, typed>>

\* Seeded fault: the destructor waits for a thread nobody told to quit.
OnlyWaits ==
  /\ Deliver("delete")
  /\ IF Dangling THEN UNCHANGED worker /\ tab' \in {"waiting", "aborted"}
     ELSE IF pointer THEN RequestStop /\ tab' = "waiting"
     ELSE UNCHANGED worker /\ tab' = "gone"
  /\ UNCHANGED <<pointer, active, asked, quit, buttons, last, runs, typed>>

\* ~WebTerminalTab: stop the worker, let its thread quit, wait three seconds.
OnDelete ==
  /\ Deliver("delete")
  /\ IF pointer THEN quit' = TRUE ELSE UNCHANGED quit
  /\ IF Dangling THEN UNCHANGED worker /\ tab' \in {"waiting", "aborted"}
     ELSE IF pointer THEN RequestStop /\ tab' = "waiting"
     ELSE UNCHANGED worker /\ tab' = "gone"
  /\ UNCHANGED <<pointer, active, asked, buttons, last, runs, typed>>

WaitEnds ==
  /\ tab = "waiting" /\ at = "gone" /\ tab' = "gone"
  /\ UNCHANGED <<wvars, pointer, active, asked, quit, buttons, last, runs, typed>>

\* After three seconds the thread is destroyed although it runs: Qt ends the
\* program.  A call of libssh may take that long before the shell is open, and
\* so may the read loops while output comes; from elsewhere the worker is at the
\* stop flag within milliseconds.
WaitTimesOut ==
  /\ tab = "waiting" /\ at \in Blocking \cup {"read"} /\ tab' = "aborted"
  /\ UNCHANGED <<wvars, pointer, active, asked, quit, buttons, last, runs, typed>>

Handled == \/ OnConnected \/ OnDisconnected \/ OnFinished \/ OnThreadFinished
           \/ OnDelete \/ WaitEnds
Handle == Handled \/ WaitTimesOut
Click  == \/ Ready \/ Type \/ Resize \/ Disconnect \/ Reconnect
          \/ RequestClose \/ CancelClose \/ ConfirmClose
Worker == tab # "aborted" /\ WorkerStep /\ UNCHANGED gui
Thread == tab # "aborted" /\ quit /\ ThreadEnds /\ UNCHANGED gui

Next == Handle \/ Click \/ Worker \/ Thread
Spec == Init /\ [][Next]_vars

\* Both threads run, and the calls of libssh return.  How long the worker stays
\* in its read loops is up to the server, and nothing is assumed of that.
Fairness ==
  WF_vars(Handled) /\ WF_vars(at # "read" /\ Worker) /\ WF_vars(Thread)
FairSpec == Spec /\ Fairness
-----------------------------------------------------------------------------
(***************************************************************************)
(* Properties.                                                             *)
(***************************************************************************)

\* Points, bytes, sizes, signals and flags are of their kinds.
TypeOK ==
  /\ at \in Points /\ stop \in BOOLEAN /\ refused \in BOOLEAN
  /\ \A q \in {pending, taken, sent, typed} : \A k \in DOMAIN q : q[k] \in 1..MaxInput
  /\ size \in Sizes \cup {NoSize} /\ last \in Sizes \cup {NoSize}
  /\ remoteSize \in Sizes \cup {FirstSize}
  /\ \A k \in DOMAIN events : events[k] \in Signals \cup {"delete"}
  /\ tab \in {"open", "asking", "deleting", "waiting", "gone", "aborted"}
  /\ pointer \in BOOLEAN /\ active \in BOOLEAN /\ asked \in BOOLEAN
  /\ quit \in BOOLEAN /\ buttons \in Buttons /\ runs \in 0..MaxRuns

\* Whatever the channel takes at a time and whatever is typed meanwhile, the
\* shell gets the input in the order it was typed, nothing twice, and while the
\* connection stands nothing is dropped.
InputInOrder ==
  /\ IsPrefix(sent, typed)
  /\ at \in InLoop => sent \o taken \o pending = typed

\* The remote terminal has the last size the window took, in a first shell and
\* after a reconnect, unless a newer one waits or the server refused it.
SizeFollows ==
  at \in InLoop /\ size = NoSize /\ ~refused /\ last # NoSize => remoteSize = last

\* Input that is accepted goes to a worker that exists.
InputReachesWorker ==
  tab = "open" /\ HasActiveShell => at \notin {"none", "gone"}

\* Reconnect is offered only when nothing of the last shell is left, so that
\* the click starts one and no late signal of the last shell reaches it.
ReconnectStarts ==
  tab = "open" /\ "reconnect" \in buttons
    => ~active /\ ~pointer /\ events = <<>> /\ at = "gone"

\* Where the output of the shell stops for a moment now and then: a shell that is
\* told to disconnect ends, whatever else it was doing, and the tab then offers
\* to reconnect, unless it has been closed.
StopEnds ==
  []<>(at # "read") => (asked ~> ("reconnect" \in buttons \/ ~asked \/ tab # "open"))

\* Under the same condition, closing the tab of an open shell ends its worker and
\* its thread before the tab is gone, and leaves the program running, unless the
\* output went on for the three seconds the tab waits.
CloseIsClean ==
  []<>(at # "read" \/ tab = "aborted")
    => ((tab = "deleting" /\ at \in InLoop)
          ~> (tab = "gone" \/ (tab = "aborted" /\ at = "read")))

\* Closing a tab never ends the program: USER_GUIDE.md:94 promises that DD-SSH
\* requests disconnect and then closes.
NeverAborts == tab # "aborted"
=============================================================================
