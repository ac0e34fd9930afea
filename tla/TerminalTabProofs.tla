-------------------------- MODULE TerminalTabProofs --------------------------
(***************************************************************************)
(* Theorems about TerminalTab, for any window sizes, however much is typed *)
(* and however many shells are started.                                    *)
(***************************************************************************)
EXTENDS TerminalTab, SequenceTheorems, TLAPS

Bytes == Seq(1..MaxInput)

Events == Signals \cup {"delete"}

\* Every variable has its type; input and events are sequences.
FlagTypes ==
  /\ stop \in BOOLEAN /\ refused \in BOOLEAN /\ pointer \in BOOLEAN
  /\ active \in BOOLEAN /\ asked \in BOOLEAN /\ quit \in BOOLEAN

SeqTypes ==
  /\ pending \in Bytes /\ taken \in Bytes /\ sent \in Bytes /\ typed \in Bytes
  /\ events \in Seq(Events)

OtherTypes ==
  /\ at \in Points
  /\ size \in Sizes \cup {NoSize} /\ last \in Sizes \cup {NoSize}
  /\ remoteSize \in Sizes \cup {FirstSize}
  /\ tab \in {"open", "asking", "deleting", "waiting", "gone", "aborted"}
  /\ buttons \in Buttons /\ runs \in 0..MaxRuns

TypeInv == FlagTypes /\ SeqTypes /\ OtherTypes

\* What of the input is where: until the connection is given up, all that was
\* typed is sent, taken or pending, in this order, and only a write takes some.
InputInv ==
  /\ at \in {"none", "connecting", "opening"} \cup InLoop => sent \o taken \o pending = typed
  /\ at \in {"none", "connecting", "opening", "loop", "resize", "read"} => taken = <<>>
  /\ IsPrefix(sent, typed)

\* Until the tab is closed, the tab's picture of its shell and the signals that
\* wait for it follow from the point the worker has reached.
Live == tab \in {"open", "asking"}

Waiting ==
  CASE at \in {"none", "connecting", "opening"} -> {<<>>}
    [] at \in InLoop \cup {"cleanup"} -> {<<"connected">>, <<>>}
    [] at = "returned" -> {<<"connected", "disconnected", "finished">>,
                           <<"disconnected", "finished">>, <<"finished">>, <<>>}
    [] at = "gone" -> {<<"threadFinished">>, <<>>}

Picture ==
  /\ events \in Waiting
  /\ at = "none" <=> runs = 0
  /\ pointer <=> at # "none" /\ ~(at = "gone" /\ events = <<>>)
  /\ active <=> at \in Running \/ (at = "returned" /\ events # <<>>)
  /\ quit <=> at = "gone" \/ (at = "returned" /\ events = <<>>)
  /\ "reconnect" \in buttons => at = "gone" /\ events = <<>>

TabInv == Live => Picture

\* The window size that waits is the last one, and a terminal that is not given
\* its size yet will be.
SizeInv ==
  /\ at \in Running => size \in {NoSize, last}
  /\ at \in {"connecting", "opening"} => size = last
  /\ SizeFollows
-----------------------------------------------------------------------------
(***************************************************************************)
(* Types.                                                                  *)
(***************************************************************************)

\* The first state has its types.
LEMMA InitTypeInv == Init => TypeInv
<1> SUFFICES ASSUME Init PROVE TypeInv
  OBVIOUS
<1>1. FlagTypes
  BY DEF Init, NoWorker, FlagTypes
<1>2. <<>> \in Bytes /\ <<>> \in Seq(Events)
  BY EmptySeq DEF Bytes
<1>3. SeqTypes
  BY <1>2 DEF Init, NoWorker, SeqTypes
<1>4. OtherTypes
  BY TabAssumption DEF Init, NoWorker, OtherTypes, Points, Buttons
<1>5. QED
  BY <1>1, <1>3, <1>4 DEF TypeInv

\* Starting a shell.
LEMMA StartType ==
  ASSUME TypeInv, StartShell
  PROVE  TypeInv'
<1>1. FlagTypes'
  BY DEF TypeInv, StartShell, NewWorker, FlagTypes
<1>2. <<>> \in Bytes
  BY EmptySeq DEF Bytes
<1>3. SeqTypes'
  BY <1>2 DEF TypeInv, StartShell, NewWorker, SeqTypes
<1>4. OtherTypes'
  <2>1. runs' \in 0..MaxRuns
    BY TabAssumption DEF TypeInv, OtherTypes, StartShell
  <2>2. QED
    BY <2>1 DEF TypeInv, StartShell, NewWorker, InitialSize, OtherTypes, Points, Running, Buttons
<1>5. QED
  BY <1>1, <1>3, <1>4 DEF TypeInv

\* A signal or a deletion that is delivered, or joins the queue of events.
LEMMA EventType ==
  ASSUME TypeInv
  PROVE  /\ \A e : Deliver(e) => events' \in Seq(Events)
         /\ Emit(<<"finished">>) \/ Emit(<<"connected">>) \/ Emit(<<"threadFinished">>)
              \/ Emit(<<"disconnected", "finished">>) \/ Emit(<<"delete">>)
            => events' \in Seq(Events)
<1>1. /\ <<"finished">> \in Seq(Events) /\ <<"connected">> \in Seq(Events)
      /\ <<"threadFinished">> \in Seq(Events) /\ <<"disconnected", "finished">> \in Seq(Events)
      /\ <<"delete">> \in Seq(Events)
  BY DEF Signals, Events
<1>2. events \in Seq(Events)
  BY DEF TypeInv, SeqTypes
<1>3. \A e \in Seq(Events) : events \o e \in Seq(Events)
  BY <1>2, ConcatProperties
<1>4. \A e : Deliver(e) => events' \in Seq(Events)
  BY <1>2, HeadTailProperties DEF Deliver
<1>5. QED
  BY <1>1, <1>3, <1>4 DEF Emit

\* Input of the worker after a call or a step of it.
LEMMA InputType ==
  ASSUME TypeInv
  PROVE  /\ pending \o taken \in Bytes /\ taken \o pending \in Bytes
         /\ \A n \in 1..Len(taken) : /\ SubSeq(taken, 1, n) \in Bytes
                                    /\ sent \o SubSeq(taken, 1, n) \in Bytes
                                    /\ SubSeq(taken, n + 1, Len(taken)) \in Bytes
         /\ Len(typed) < MaxInput =>
              /\ Append(typed, Len(typed) + 1) \in Bytes
              /\ Append(pending, Len(typed) + 1) \in Bytes
<1>1. pending \in Bytes /\ taken \in Bytes /\ sent \in Bytes /\ typed \in Bytes
  BY DEF TypeInv, SeqTypes
<1>2. \A s, t \in Bytes : s \o t \in Bytes
  BY ConcatProperties DEF Bytes
<1>3. ASSUME NEW n \in 1..Len(taken)
      PROVE  SubSeq(taken, 1, n) \in Bytes /\ SubSeq(taken, n + 1, Len(taken)) \in Bytes
  <2>1. Len(taken) \in Nat /\ \A k \in 1..Len(taken) : taken[k] \in 1..MaxInput
    BY <1>1, LenProperties, ElementOfSeq DEF Bytes
  <2>2. /\ \A k \in 1..n : taken[k] \in 1..MaxInput
        /\ \A k \in (n + 1)..Len(taken) : taken[k] \in 1..MaxInput
    BY <2>1
  <2>3. QED
    BY <2>1, <2>2, SubSeqProperties DEF Bytes
<1>4. ASSUME Len(typed) < MaxInput
      PROVE  /\ Append(typed, Len(typed) + 1) \in Bytes
             /\ Append(pending, Len(typed) + 1) \in Bytes
  <2>1. Len(typed) + 1 \in 1..MaxInput
    BY <1>1, <1>4, LenProperties, TabAssumption DEF Bytes
  <2>2. QED
    BY <1>1, <2>1, AppendProperties DEF Bytes
<1>5. QED
  BY <1>1, <1>2, <1>3, <1>4

\* The flags of worker and tab stay flags.
LEMMA NextFlags ==
  ASSUME TypeInv, [Next]_vars
  PROVE  FlagTypes'
<1> USE DEF TypeInv, FlagTypes, worker, input, sizes, wvars, gui
<1>1. CASE Handle
  BY <1>1 DEF Handle, Handled, OnConnected, OnDisconnected, OnFinished, OnThreadFinished, OnDelete,
     WaitEnds, WaitTimesOut, Deliver, RequestStop, AfterFinish
<1>2. CASE Click
  <2>1. CASE Ready \/ Reconnect
    BY <2>1, StartType DEF Ready, Reconnect
  <2>2. CASE Type
    BY <2>2 DEF Type, SendInput
  <2>3. CASE Resize
    BY <2>3 DEF Resize, ResizePty, Undefined
  <2>4. CASE Disconnect \/ ConfirmClose
    BY <2>4 DEF Disconnect, ConfirmClose, DisconnectShell, RequestStop
  <2>5. CASE RequestClose \/ CancelClose
    BY <2>5 DEF RequestClose, CancelClose
  <2>6. QED
    BY <1>2, <2>1, <2>2, <2>3, <2>4, <2>5 DEF Click
<1>3. CASE Worker
  BY <1>3 DEF Worker, WorkerStep, Connect, FailToOpen, OpenShell, TakeInput, LeaveLoop,
     WriteSome, EndWrite, Lose, ApplySize, ReadUntilDry, Cleanup
<1>4. CASE Thread
  BY <1>4 DEF Thread, ThreadEnds
<1>5. CASE UNCHANGED vars
  BY <1>5 DEF vars
<1>6. QED
  BY <1>1, <1>2, <1>3, <1>4, <1>5 DEF Next

\* The input and the events that wait stay sequences of bytes and of events.
LEMMA NextSeqs ==
  ASSUME TypeInv, [Next]_vars
  PROVE  SeqTypes'
<1> DEFINE Inputs == <<pending, taken, sent, typed>>
<1>0. /\ SeqTypes
      /\ UNCHANGED Inputs => (events' \in Seq(Events) => SeqTypes')
      /\ UNCHANGED <<Inputs, events>> => SeqTypes'
  BY DEF TypeInv, SeqTypes
<1>1. CASE Handle
  <2>1. UNCHANGED Inputs
    BY <1>1 DEF Handle, Handled, OnConnected, OnDisconnected, OnFinished, OnThreadFinished, OnDelete,
       WaitEnds, WaitTimesOut, RequestStop, worker, input, wvars
  <2>2. (\E e : Deliver(e)) \/ UNCHANGED events
    BY <1>1 DEF Handle, Handled, OnConnected, OnDisconnected, OnFinished, OnThreadFinished, OnDelete,
       WaitEnds, WaitTimesOut, wvars
  <2>3. QED
    BY <1>0, <2>1, <2>2, EventType
<1>2. CASE Click
  <2>1. CASE Ready \/ Reconnect
    BY <2>1, StartType DEF Ready, Reconnect, TypeInv
  <2>2. CASE Type
    BY <1>0, <2>2, InputType DEF Type, SendInput, SeqTypes
  <2>3. CASE Resize
    BY <1>0, <2>3 DEF Resize, ResizePty, Undefined, worker, input
  <2>4. CASE Disconnect \/ CancelClose
    BY <1>0, <2>4 DEF Disconnect, CancelClose, DisconnectShell, RequestStop, input, worker, wvars
  <2>5. CASE ConfirmClose \/ RequestClose
    <3>1. UNCHANGED Inputs
      BY <2>5 DEF ConfirmClose, RequestClose, DisconnectShell, RequestStop, worker, input
    <3>2. Emit(<<"delete">>) \/ UNCHANGED events
      BY <2>5 DEF ConfirmClose, RequestClose
    <3>3. QED
      BY <1>0, <3>1, <3>2, EventType
  <2>6. QED
    BY <1>2, <2>1, <2>2, <2>3, <2>4, <2>5 DEF Click
<1>3. CASE Worker
  <2>1. typed' = typed
    BY <1>3 DEF Worker, gui
  <2>2. CASE TakeInput \/ WriteSome \/ EndWrite
    <3>1. <<>> \in Bytes
      BY EmptySeq DEF Bytes
    <3>2. QED
      BY <1>0, <2>1, <2>2, <3>1, InputType DEF TakeInput, WriteSome, EndWrite, Requeued, SeqTypes
  <2>3. CASE Connect \/ LeaveLoop \/ Lose \/ ApplySize \/ ReadUntilDry
    BY <1>0, <2>1, <2>3 DEF Connect, LeaveLoop, Lose, ApplySize, ReadUntilDry, input
  <2>4. CASE FailToOpen \/ OpenShell \/ Cleanup
    BY <1>0, <2>1, <2>4, EventType DEF FailToOpen, OpenShell, Cleanup, input
  <2>5. QED
    BY <1>3, <2>2, <2>3, <2>4 DEF Worker, WorkerStep
<1>4. CASE Thread
  BY <1>0, <1>4, EventType DEF Thread, ThreadEnds, input, gui
<1>5. CASE UNCHANGED vars
  BY <1>0, <1>5 DEF vars, wvars, worker, input, gui
<1>6. QED
  BY <1>1, <1>2, <1>3, <1>4, <1>5 DEF Next

\* Points, sizes, the tab, its buttons and the count of shells stay in range.
LEMMA NextOthers ==
  ASSUME TypeInv, [Next]_vars
  PROVE  OtherTypes'
<1> USE DEF TypeInv, OtherTypes, worker, input, sizes, wvars, gui
<1>1. CASE Handle
  BY <1>1 DEF Handle, Handled, OnConnected, OnDisconnected, OnFinished, OnThreadFinished, OnDelete,
     WaitEnds, WaitTimesOut, Deliver, RequestStop, Buttons, ButtonsAfterFinish
<1>2. CASE Click
  <2>1. CASE Ready \/ Reconnect
    BY <2>1, StartType DEF Ready, Reconnect
  <2>2. CASE Type
    BY <2>2 DEF Type, SendInput
  <2>3. CASE Resize
    BY <2>3 DEF Resize, ResizePty, Undefined
  <2>4. CASE Disconnect \/ ConfirmClose
    BY <2>4 DEF Disconnect, ConfirmClose, DisconnectShell, RequestStop, Buttons
  <2>5. CASE RequestClose \/ CancelClose
    BY <2>5 DEF RequestClose, CancelClose
  <2>6. QED
    BY <1>2, <2>1, <2>2, <2>3, <2>4, <2>5 DEF Click
<1>3. CASE Worker
  BY <1>3 DEF Worker, WorkerStep, Connect, FailToOpen, OpenShell, TakeInput, LeaveLoop,
     WriteSome, EndWrite, Lose, ApplySize, ReadUntilDry, Cleanup, Goto, Points, Running,
     InLoop, StartSize
<1>4. CASE Thread
  BY <1>4 DEF Thread, ThreadEnds, Goto, Points
<1>5. CASE UNCHANGED vars
  BY <1>5 DEF vars
<1>6. QED
  BY <1>1, <1>2, <1>3, <1>4, <1>5 DEF Next

\* No step of the tab or of its worker leaves the types.
LEMMA NextTypeInv == TypeInv /\ [Next]_vars => TypeInv'
  BY NextFlags, NextSeqs, NextOthers DEF TypeInv

LEMMA TypeInvariant == Spec => []TypeInv
<1>1. Init => TypeInv
  BY InitTypeInv
<1>2. TypeInv /\ [Next]_vars => TypeInv'
  BY NextTypeInv
<1>3. QED
  BY <1>1, <1>2, PTL DEF Spec

\* Points, bytes, sizes, signals and flags are of their kinds in every state
\* of a tab and its worker.
THEOREM TabTypes == Spec => []TypeOK
<1>1. ASSUME TypeInv PROVE TypeOK
  <2>1. \A q \in {pending, taken, sent, typed} : \A k \in DOMAIN q : q[k] \in 1..MaxInput
    <3>1. \A q \in Bytes : \A k \in DOMAIN q : q[k] \in 1..MaxInput
      BY ElementOfSeq, LenProperties DEF Bytes
    <3>2. QED
      BY <1>1, <3>1 DEF TypeInv, SeqTypes
  <2>2. \A k \in DOMAIN events : events[k] \in Signals \cup {"delete"}
    BY <1>1, ElementOfSeq, LenProperties DEF TypeInv, SeqTypes, Events
  <2>3. FlagTypes /\ OtherTypes
    BY <1>1 DEF TypeInv
  <2>4. /\ at \in Points /\ size \in Sizes \cup {NoSize} /\ last \in Sizes \cup {NoSize}
        /\ remoteSize \in Sizes \cup {FirstSize}
        /\ tab \in {"open", "asking", "deleting", "waiting", "gone", "aborted"}
        /\ buttons \in Buttons /\ runs \in 0..MaxRuns
    BY <2>3 DEF OtherTypes
  <2>5. QED
    BY <2>1, <2>2, <2>3, <2>4 DEF FlagTypes, TypeOK
<1>2. QED
  BY <1>1, TypeInvariant, PTL
-----------------------------------------------------------------------------
(***************************************************************************)
(* Input.                                                                  *)
(***************************************************************************)

\* Joining pieces of input.
LEMMA Joining ==
  /\ <<>> \in Bytes
  /\ \A s \in Bytes : s \o <<>> = s
  /\ \A s, t \in Bytes : s \o t \in Bytes
  /\ \A s, t, u \in Bytes : (s \o t) \o u = s \o (t \o u)
<1>1. <<>> \in Bytes
  BY EmptySeq DEF Bytes
<1>2. \A s \in Bytes : s \o <<>> = s
  BY ConcatEmptySeq, Zenon DEF Bytes
<1>3. \A s, t \in Bytes : s \o t \in Bytes
  BY ConcatProperties, Zenon DEF Bytes
<1>4. ASSUME NEW s \in Bytes, NEW t \in Bytes, NEW u \in Bytes
      PROVE  (s \o t) \o u = s \o (t \o u)
  <2>1. \A S : \A x, y, z \in Seq(S) : (x \o y) \o z = x \o (y \o z)
    BY ConcatAssociative
  <2>2. QED
    BY <2>1 DEF Bytes
<1>5. QED
  BY <1>1, <1>2, <1>3, <1>4

\* What is sent stays a beginning of what is typed, when more is sent of what
\* was taken and when more is typed.
LEMMA Beginnings ==
  \A s, t \in Bytes : /\ IsPrefix(s, s \o t)
                      /\ IsPrefix(s, t) => \A u \in Bytes : IsPrefix(s, t \o u)
<1>1. ASSUME NEW a \in Bytes, NEW b \in Bytes, NEW n \in 0..Len(a)
      PROVE  /\ Len(a) \in Nat /\ Len(b) \in Nat /\ Len(a \o b) = Len(a) + Len(b)
             /\ SubSeq(a \o b, 1, n) = SubSeq(a, 1, n)
  <2>1. Len(a) \in Nat /\ Len(b) \in Nat /\ Len(a \o b) = Len(a) + Len(b)
    BY LenProperties, ConcatProperties DEF Bytes
  <2>2. CASE n = 0
    BY <2>1, <2>2, SubSeqEmpty
  <2>3. CASE n # 0
    BY <2>1, <2>3, SubSeqOfConcat1 DEF Bytes
  <2>4. QED
    BY <2>1, <2>2, <2>3
<1>2. ASSUME NEW s \in Bytes, NEW t \in Bytes
      PROVE  /\ IsPrefix(s, s \o t)
             /\ IsPrefix(s, t) => \A u \in Bytes : IsPrefix(s, t \o u)
  <2>1. Len(s) \in Nat /\ Len(t) \in Nat
    BY LenProperties DEF Bytes
  <2>2. IsPrefix(s, s \o t)
    BY <1>1, <2>1 DEF IsPrefix
  <2>3. ASSUME NEW u \in Bytes, IsPrefix(s, t) PROVE IsPrefix(s, t \o u)
    BY <1>1, <2>1, <2>3 DEF IsPrefix
  <2>4. QED
    BY <2>2, <2>3
<1>3. QED
  BY <1>2

\* Writing moves input from what is taken to what is sent, and nothing else.
LEMMA WriteKeepsInput ==
  ASSUME TypeInv, NEW n \in 1..Len(taken)
  PROVE  (sent \o SubSeq(taken, 1, n)) \o SubSeq(taken, n + 1, Len(taken)) \o pending
           = sent \o taken \o pending
<1>1. sent \in Bytes /\ taken \in Bytes /\ pending \in Bytes
  BY DEF TypeInv, SeqTypes
<1> DEFINE a == SubSeq(taken, 1, n)
           b == SubSeq(taken, n + 1, Len(taken))
<1>2. a \in Bytes /\ b \in Bytes
  <2>1. \A k \in 1..Len(taken) : /\ SubSeq(taken, 1, k) \in Bytes
                                /\ SubSeq(taken, k + 1, Len(taken)) \in Bytes
    BY InputType
  <2>2. QED
    BY <2>1
<1>3. Len(taken) \in Nat
  BY <1>1, LenProperties DEF Bytes
<1>4. a \o b = taken
  BY <1>1, <1>3, ConcatAdjacentSubSeq, SubSeqFull DEF Bytes
<1> HIDE DEF a, b
<1>5. (sent \o a) \o b = sent \o (a \o b)
  BY <1>1, <1>2, Joining, Zenon
<1>6. ((sent \o a) \o b) \o pending = (sent \o taken) \o pending
  BY <1>4, <1>5
<1>7. QED
  BY <1>6 DEF a, b

\* The input invariant is kept by every step of the worker.
LEMMA WorkerKeepsInput ==
  ASSUME TypeInv, InputInv, Worker
  PROVE  InputInv'
<1>1. sent \in Bytes /\ taken \in Bytes /\ pending \in Bytes /\ typed' = typed
  BY DEF TypeInv, SeqTypes, Worker, gui
<1>2. /\ taken = <<>> => sent \o taken \o pending = sent \o pending
      /\ (sent \o taken) \o pending = sent \o (taken \o pending)
      /\ \A s \in Bytes : s \o <<>> = s
  BY <1>1, Joining, Zenon
<1>3. pending \o taken \in Bytes /\ taken \o pending \in Bytes /\ sent \o pending \in Bytes
  BY <1>1, Joining, Zenon
<1>4. CASE TakeInput
  BY <1>1, <1>2, <1>3, <1>4 DEF TakeInput, InputInv, Goto, InLoop
<1>5. CASE WriteSome
  <2>1. PICK n \in 1..Len(taken) : /\ sent' = sent \o SubSeq(taken, 1, n)
                                  /\ taken' = SubSeq(taken, n + 1, Len(taken))
    BY <1>5 DEF WriteSome
  <2>2. at = "write" /\ at' = at /\ pending' = pending
    BY <1>5 DEF WriteSome
  <2>3. sent' \o taken' \o pending' = typed'
    BY <1>1, <2>1, <2>2, WriteKeepsInput DEF InputInv, InLoop
  <2>4. sent' \in Bytes /\ taken' \in Bytes
    BY <2>1, InputType
  <2>5. (sent' \o taken') \o pending' = sent' \o (taken' \o pending')
    BY <1>1, <2>2, <2>4, Joining, Zenon
  <2>6. taken' \o pending' \in Bytes
    BY <1>1, <2>2, <2>4, Joining, Zenon
  <2>7. IsPrefix(sent', typed')
    BY <2>3, <2>4, <2>5, <2>6, Beginnings, Zenon
  <2>8. QED
    BY <2>2, <2>3, <2>7 DEF InputInv, InLoop
<1>6. CASE EndWrite
  BY <1>1, <1>2, <1>6 DEF EndWrite, Requeued, InputInv, Goto, InLoop
<1>7. CASE Connect \/ FailToOpen \/ OpenShell \/ LeaveLoop \/ Lose \/ ApplySize \/ ReadUntilDry
             \/ Cleanup
  <2>1. UNCHANGED <<sent, taken, pending, typed>>
    BY <1>1, <1>7 DEF Connect, FailToOpen, OpenShell, LeaveLoop, Lose, ApplySize, ReadUntilDry,
       Cleanup, input
  <2>2. /\ at' \in InLoop => at \in {"connecting", "opening"} \cup InLoop
        /\ at' \in {"none", "connecting", "opening", "loop", "resize", "read"}
             => at \in {"none", "connecting", "opening", "loop", "resize", "read"}
        /\ at' \in {"none", "connecting", "opening"} => at \in {"connecting", "opening"}
    BY <1>7 DEF Connect, FailToOpen, OpenShell, LeaveLoop, Lose, ApplySize, ReadUntilDry,
       Cleanup, Goto, InLoop
  <2>3. QED
    BY <2>1, <2>2 DEF InputInv
<1>8. QED
  BY <1>4, <1>5, <1>6, <1>7 DEF Worker, WorkerStep

\* The input invariant is kept by every step.
LEMMA NextInputInv == TypeInv /\ InputInv /\ [Next]_vars => InputInv'
<1> SUFFICES ASSUME TypeInv, InputInv, [Next]_vars
             PROVE  InputInv'
  OBVIOUS
<1>1. UNCHANGED <<at, sent, taken, pending, typed>> => InputInv'
  BY DEF InputInv
<1>2. CASE Handle
  BY <1>1, <1>2 DEF Handle, Handled, OnConnected, OnDisconnected, OnFinished, OnThreadFinished, OnDelete,
     WaitEnds, WaitTimesOut, RequestStop, worker, input, wvars
<1>3. CASE Ready \/ Reconnect
  <2>1. <<>> \o <<>> = <<>>
    BY Joining, Zenon
  <2>2. <<>> \o <<>> \o <<>> = <<>> /\ IsPrefix(<<>>, <<>>)
    BY <2>1, Joining, Beginnings, Zenon
  <2>3. QED
    BY <1>3, <2>2 DEF Ready, Reconnect, StartShell, NewWorker, InputInv
<1>4. CASE Type
  <2>1. sent \in Bytes /\ taken \in Bytes /\ pending \in Bytes /\ typed \in Bytes
    BY DEF TypeInv, SeqTypes
  <2>2. PICK b \in 1..MaxInput : typed' = Append(typed, b) /\ pending' = Append(pending, b)
    <3>1. Len(typed) + 1 \in 1..MaxInput
      BY <1>4, <2>1, LenProperties, TabAssumption DEF Type, Bytes
    <3>2. QED
      BY <1>4, <3>1, Zenon DEF Type, SendInput
  <2>3. <<b>> \in Bytes /\ typed' = typed \o <<b>> /\ pending' = pending \o <<b>>
    BY <2>1, <2>2, AppendIsConcat DEF Bytes
  <2>4. sent \o taken \in Bytes
    BY <2>1, Joining, Zenon
  <2>5. (sent \o taken) \o (pending \o <<b>>) = (sent \o taken \o pending) \o <<b>>
    <3>1. \A s, u \in Bytes : (s \o pending) \o u = s \o (pending \o u)
      <4>1. pending \in Bytes
        BY <2>1
      <4>2. QED
        BY <4>1, Joining, Zenon
    <3>2. <<b>> \in Bytes
      BY <2>3
    <3>3. QED
      BY <2>4, <3>1, <3>2, Zenon
  <2>6. IsPrefix(sent, typed \o <<b>>)
    BY <2>1, <2>3, Beginnings, Zenon DEF InputInv
  <2>7. UNCHANGED <<at, taken, sent>>
    BY <1>4 DEF Type, SendInput
  <2>8. QED
    BY <2>3, <2>5, <2>6, <2>7 DEF InputInv
<1>5. CASE Resize \/ Disconnect \/ RequestClose \/ CancelClose \/ ConfirmClose
  BY <1>1, <1>5 DEF Resize, ResizePty, Undefined, Disconnect, DisconnectShell, RequestStop,
     RequestClose, CancelClose, ConfirmClose, worker, input, wvars
<1>6. CASE Worker
  BY <1>6, WorkerKeepsInput
<1>7. CASE Thread
  <2>1. at' = "gone" /\ UNCHANGED <<sent, taken, pending, typed>>
    BY <1>7 DEF Thread, ThreadEnds, Goto, input, gui
  <2>2. QED
    BY <2>1 DEF InputInv, InLoop
<1>8. CASE UNCHANGED vars
  BY <1>1, <1>8 DEF vars, wvars, worker, input, gui
<1>9. QED
  BY <1>2, <1>3, <1>4, <1>5, <1>6, <1>7, <1>8 DEF Next, Click

LEMMA InputInvariant == Spec => []InputInv
<1>1. Init => InputInv
  <2>1. <<>> \o <<>> = <<>>
    BY Joining, Zenon
  <2>2. <<>> \o <<>> \o <<>> = <<>> /\ IsPrefix(<<>>, <<>>)
    BY <2>1, Joining, Beginnings, Zenon
  <2>3. QED
    BY <2>2 DEF Init, NoWorker, InputInv
<1>2. QED
  BY <1>1, NextInputInv, TypeInvariant, PTL DEF Spec

\* Whatever the channel takes at a time and whatever is typed while it does,
\* the shell gets the input in the order it was typed, nothing twice, and
\* nothing is dropped while the connection stands.
THEOREM InputArrivesInOrder == Spec => []InputInOrder
<1>1. InputInv => InputInOrder
  BY DEF InputInv, InputInOrder
<1>2. QED
  BY <1>1, InputInvariant, PTL
-----------------------------------------------------------------------------
(***************************************************************************)
(* The tab's picture of its shell.                                         *)
(***************************************************************************)

\* The event that is delivered, and what stays, for every queue of a tab that
\* has not been closed.
LEMMA Delivered ==
  /\ Head(<<"connected">>) = "connected" /\ Tail(<<"connected">>) = <<>>
  /\ Head(<<"connected", "disconnected", "finished">>) = "connected"
  /\ Tail(<<"connected", "disconnected", "finished">>) = <<"disconnected", "finished">>
  /\ Head(<<"disconnected", "finished">>) = "disconnected"
  /\ Tail(<<"disconnected", "finished">>) = <<"finished">>
  /\ Head(<<"finished">>) = "finished" /\ Tail(<<"finished">>) = <<>>
  /\ Head(<<"threadFinished">>) = "threadFinished" /\ Tail(<<"threadFinished">>) = <<>>
  OBVIOUS

\* The queue after a signal, for every signal a worker sends.
LEMMA Emitted ==
  /\ \A q \in Seq(Events) : <<>> \o q = q
  /\ <<"connected">> \o <<"disconnected", "finished">> = <<"connected", "disconnected", "finished">>
<1>1. \A q \in Seq(Events) : <<>> \o q = q
  BY ConcatEmptySeq, Zenon
<1> DEFINE a == <<"connected">>
           b == <<"disconnected", "finished">>
           c == <<"connected", "disconnected", "finished">>
<1>2. a \in Seq(Events) /\ b \in Seq(Events) /\ c \in Seq(Events)
  BY DEF Events, Signals
<1>3. /\ Len(a) = 1 /\ Len(b) = 2 /\ Len(c) = 3
      /\ c[1] = a[1] /\ c[2] = b[1] /\ c[3] = b[2]
  OBVIOUS
<1> HIDE DEF a, b, c
<1>4. /\ a \o b \in Seq(Events) /\ Len(a \o b) = Len(a) + Len(b)
      /\ \A i \in 1..Len(a) + Len(b) : (a \o b)[i] = IF i <= Len(a) THEN a[i] ELSE b[i - Len(a)]
  BY <1>2, ConcatProperties, Zenon
<1>5. Len(a \o b) = Len(c) /\ \A i \in 1..Len(a \o b) : (a \o b)[i] = c[i]
  BY <1>3, <1>4
<1>6. a \o b = c
  BY <1>2, <1>4, <1>5, SeqEqual
<1>7. QED
  BY <1>1, <1>6 DEF a, b, c

\* Queues that are told apart.
LEMMA Queues ==
  /\ <<"connected">> # <<>> /\ <<"finished">> # <<>> /\ <<"threadFinished">> # <<>>
  /\ <<"disconnected", "finished">> # <<>>
  /\ <<"connected", "disconnected", "finished">> # <<>>
  OBVIOUS

\* What each point of the worker and each queue of events excludes.
LEMMA Stages ==
  ASSUME TypeInv, Picture
  PROVE  /\ at = "none" => events = <<>>
         /\ at \in {"connecting", "opening"} => events = <<>>
         /\ at \in InLoop \cup {"cleanup"} => events \in {<<"connected">>, <<>>}
         /\ at = "returned" => events \in {<<"connected", "disconnected", "finished">>,
                                           <<"disconnected", "finished">>, <<"finished">>, <<>>}
         /\ at = "gone" => events \in {<<"threadFinished">>, <<>>}
         /\ at \in {"none", "connecting", "opening", "cleanup", "returned", "gone"} \cup InLoop
  BY DEF TypeInv, OtherTypes, Points, Running, Picture, Waiting, InLoop

\* A delivered event leaves the tab the picture of its shell.
LEMMA HandleKeepsPicture ==
  ASSUME TypeInv, Picture, Live, Handle, Live'
  PROVE  Picture'
<1>1. \E e : Deliver(e)
  BY DEF Handle, Handled, OnConnected, OnDisconnected, OnFinished, OnThreadFinished, OnDelete,
     WaitEnds, WaitTimesOut, Live
<1>2. at' = at /\ runs' = runs
  BY DEF Handle, Handled, OnConnected, OnDisconnected, OnFinished, OnThreadFinished, OnDelete,
     WaitEnds, WaitTimesOut, Live, worker, RequestStop
<1>3. /\ Head(events) = "connected" => OnConnected
      /\ Head(events) = "disconnected" => OnDisconnected
      /\ Head(events) = "finished" => OnFinished
      /\ Head(events) = "threadFinished" => OnThreadFinished
  BY DEF Handle, Handled, OnConnected, OnDisconnected, OnFinished, OnThreadFinished, OnDelete,
     WaitEnds, WaitTimesOut, Live, Deliver
<1>4. CASE at \in InLoop \cup {"cleanup"}
  <2>1. events = <<"connected">> /\ events' = <<>> /\ OnConnected
    BY <1>1, <1>3, <1>4, Stages, Delivered, Queues DEF Deliver
  <2>2. UNCHANGED <<pointer, active, quit>> /\ buttons' = {"input"}
    BY <2>1 DEF OnConnected
  <2>3. events' \in Waiting'
    BY <1>2, <1>4, <2>1 DEF Waiting, InLoop
  <2>4. at \notin {"none", "returned", "gone"} /\ at \in Running
    BY <1>4 DEF InLoop, Running
  <2>5. QED
    BY <1>2, <2>1, <2>2, <2>3, <2>4 DEF Picture
<1>5. CASE at = "returned"
  <2>1. at \notin Running \cup {"none", "gone"}
    BY <1>5 DEF InLoop, Running
  <2>2. CASE events = <<"connected", "disconnected", "finished">>
    <3>1. OnConnected /\ events' = <<"disconnected", "finished">>
      BY <1>1, <1>3, <2>2, Delivered DEF Deliver
    <3>2. events' \in Waiting'
      BY <1>2, <1>5, <3>1 DEF Waiting, InLoop
    <3>3. UNCHANGED <<pointer, active, quit>> /\ "reconnect" \notin buttons'
      BY <3>1 DEF OnConnected
    <3>4. QED
      BY <1>2, <1>5, <2>1, <2>2, <3>1, <3>2, <3>3, Queues DEF Picture
  <2>3. CASE events = <<"disconnected", "finished">>
    <3>1. OnDisconnected /\ events' = <<"finished">>
      BY <1>1, <1>3, <2>3, Delivered DEF Deliver
    <3>2. events' \in Waiting'
      BY <1>2, <1>5, <3>1 DEF Waiting, InLoop
    <3>3. UNCHANGED <<pointer, active, quit>> /\ "reconnect" \notin buttons'
      BY <3>1 DEF OnDisconnected
    <3>4. QED
      BY <1>2, <1>5, <2>1, <2>3, <3>1, <3>2, <3>3, Queues DEF Picture
  <2>4. CASE events = <<"finished">>
    <3>1. OnFinished /\ events' = <<>>
      BY <1>1, <1>3, <2>4, Delivered DEF Deliver
    <3>2. events' \in Waiting'
      BY <1>2, <1>5, <3>1 DEF Waiting, InLoop
    <3>3. pointer' = pointer /\ active' = FALSE /\ quit' = TRUE /\ "reconnect" \notin buttons'
      BY <3>1 DEF OnFinished, AfterFinish, ButtonsAfterFinish
    <3>4. QED
      BY <1>2, <1>5, <2>1, <2>4, <3>1, <3>2, <3>3, Queues DEF Picture
  <2>5. QED
    BY <1>1, <1>5, <2>2, <2>3, <2>4, Stages DEF Deliver
<1>6. CASE at = "gone"
  <2>1. at \notin Running \cup {"none", "returned"}
    BY <1>6 DEF InLoop, Running
  <2>2. events = <<"threadFinished">> /\ events' = <<>> /\ OnThreadFinished
    BY <1>1, <1>3, <1>6, Stages, Delivered, Queues DEF Deliver
  <2>3. events' \in Waiting'
    BY <1>2, <1>6, <2>2 DEF Waiting, InLoop
  <2>4. pointer' = FALSE /\ UNCHANGED <<active, quit>>
    BY <2>2 DEF OnThreadFinished
  <2>5. QED
    BY <1>2, <1>6, <2>1, <2>2, <2>3, <2>4 DEF Picture
<1>7. QED
  BY <1>1, <1>4, <1>5, <1>6, Stages DEF Deliver

\* A step that leaves alone what the picture is about.
LEMMA SamePicture ==
  ASSUME Picture, UNCHANGED <<at, events, pointer, active, quit, runs>>,
         "reconnect" \in buttons' => "reconnect" \in buttons
  PROVE  Picture'
<1>1. events' \in Waiting'
  BY DEF Picture, Waiting
<1>2. QED
  BY <1>1 DEF Picture

\* A shell starts in a tab that holds nothing of another.
LEMMA StartKeepsPicture ==
  ASSUME TypeInv, Picture, Ready \/ Reconnect
  PROVE  Picture'
<1>1. events = <<>>
  <2>1. CASE Ready
    BY <2>1, Stages DEF Ready, Picture
  <2>2. CASE Reconnect
    BY <2>2 DEF Reconnect, Picture
  <2>3. QED
    BY <2>1, <2>2
<1>2. /\ at' = "connecting" /\ events' = <<>> /\ runs' # 0 /\ buttons' = {}
      /\ pointer' = TRUE /\ active' = TRUE /\ quit' = FALSE
  <2>1. runs \in Nat
    BY TabAssumption DEF TypeInv, OtherTypes
  <2>2. QED
    BY <1>1, <2>1 DEF Ready, Reconnect, StartShell, NewWorker
<1>3. events' \in Waiting'
  BY <1>2 DEF Waiting
<1>4. QED
  BY <1>2, <1>3 DEF Picture, Running

\* No click spoils the picture.
LEMMA ClickKeepsPicture ==
  ASSUME TypeInv, Picture, Live, Click, Live'
  PROVE  Picture'
<1>1. CASE Ready \/ Reconnect
  BY <1>1, StartKeepsPicture
<1>2. CASE Type \/ Resize \/ CancelClose
  <2>1. UNCHANGED <<at, events, pointer, active, quit, runs, buttons>>
    BY <1>2 DEF Type, SendInput, Resize, ResizePty, Undefined, CancelClose, worker, wvars
  <2>2. QED
    BY <2>1, SamePicture
<1>3. CASE Disconnect
  <2>1. UNCHANGED <<at, events, pointer, active, quit, runs>> /\ buttons' \in {buttons, {}}
    BY <1>3 DEF Disconnect, DisconnectShell, RequestStop
  <2>2. QED
    BY <2>1, SamePicture
<1>4. CASE RequestClose
  <2>1. tab' = "asking"
    BY <1>4 DEF RequestClose, Live
  <2>2. UNCHANGED <<at, events, pointer, active, quit, runs, buttons>>
    BY <1>4, <2>1 DEF RequestClose, worker
  <2>3. QED
    BY <2>2, SamePicture
<1>5. CASE ConfirmClose
  BY <1>5 DEF ConfirmClose, Live
<1>6. QED
  BY <1>1, <1>2, <1>3, <1>4, <1>5 DEF Click

\* What the worker does shows in the signals it sends.
LEMMA WorkerKeepsPicture ==
  ASSUME TypeInv, Picture, Worker
  PROVE  Picture'
<1>1. UNCHANGED <<pointer, active, quit, buttons, runs>>
  BY DEF Worker, gui
<1>2. CASE Connect
  <2>1. events = <<>> /\ at = "connecting" /\ at' = "opening" /\ events' = <<>>
    BY <1>2, Stages DEF Connect, Goto
  <2>2. events' \in Waiting'
    BY <2>1 DEF Waiting
  <2>3. QED
    BY <1>1, <2>1, <2>2 DEF Picture, Running
<1>3. CASE FailToOpen
  <2>1. events = <<>> /\ at \in {"connecting", "opening"} /\ at' = "returned"
    BY <1>3, Stages DEF FailToOpen, Goto
  <2>2. events' = <<"finished">>
    <3>1. <<"finished">> \in Seq(Events)
      BY DEF Events, Signals
    <3>2. QED
      BY <1>3, <2>1, <3>1, Emitted DEF FailToOpen, Emit
  <2>3. events' \in Waiting'
    BY <2>1, <2>2 DEF Waiting, InLoop
  <2>4. QED
    BY <1>1, <2>1, <2>2, <2>3, Queues DEF Picture, Running, InLoop
<1>4. CASE OpenShell
  <2>1. events = <<>> /\ at = "opening" /\ at' = "loop"
    BY <1>4, Stages DEF OpenShell, Goto
  <2>2. events' = <<"connected">>
    <3>1. <<"connected">> \in Seq(Events)
      BY DEF Events, Signals
    <3>2. QED
      BY <1>4, <2>1, <3>1, Emitted DEF OpenShell, Emit
  <2>3. events' \in Waiting'
    BY <2>1, <2>2 DEF Waiting, InLoop
  <2>4. QED
    BY <1>1, <2>1, <2>2, <2>3, Queues DEF Picture, Running, InLoop
<1>5. CASE TakeInput \/ LeaveLoop \/ WriteSome \/ EndWrite \/ Lose \/ ApplySize \/ ReadUntilDry
  <2>1. at \in InLoop /\ at' \in InLoop \cup {"cleanup"} /\ events' = events
    BY <1>5 DEF TakeInput, LeaveLoop, WriteSome, EndWrite, Lose, ApplySize, ReadUntilDry, Goto,
       InLoop
  <2>2. events' \in Waiting'
    BY <2>1, Stages DEF Waiting, InLoop
  <2>3. /\ at \in Running /\ at' \in Running
        /\ at \notin {"none", "returned", "gone"} /\ at' \notin {"none", "returned", "gone"}
    BY <2>1 DEF Running, InLoop
  <2>4. QED
    BY <1>1, <2>1, <2>2, <2>3 DEF Picture
<1>6. CASE Cleanup
  <2>1. events \in {<<"connected">>, <<>>} /\ at = "cleanup" /\ at' = "returned"
    BY <1>6, Stages DEF Cleanup, Goto
  <2>2. events' \in {<<"connected", "disconnected", "finished">>, <<"disconnected", "finished">>}
    <3>1. <<"disconnected", "finished">> \in Seq(Events)
      BY DEF Events, Signals
    <3>2. QED
      BY <1>6, <2>1, <3>1, Emitted DEF Cleanup, Emit
  <2>3. events' \in Waiting'
    BY <2>1, <2>2 DEF Waiting, InLoop
  <2>4. QED
    BY <1>1, <2>1, <2>2, <2>3, Queues DEF Picture, Running, InLoop
<1>7. QED
  BY <1>2, <1>3, <1>4, <1>5, <1>6 DEF Worker, WorkerStep

\* The end of the thread leaves its signal and nothing else.
LEMMA ThreadKeepsPicture ==
  ASSUME TypeInv, Picture, Thread
  PROVE  Picture'
<1>1. UNCHANGED <<pointer, active, quit, buttons, runs>> /\ quit
  BY DEF Thread, gui
<1>2. at = "returned" /\ at' = "gone" /\ events = <<>>
  BY DEF Thread, ThreadEnds, Goto, Picture
<1>3. events' = <<"threadFinished">>
  <2>1. <<"threadFinished">> \in Seq(Events)
    BY DEF Events, Signals
  <2>2. QED
    BY <1>2, <2>1, Emitted DEF Thread, ThreadEnds, Emit
<1>4. events' \in Waiting'
  BY <1>2, <1>3 DEF Waiting, InLoop
<1>5. QED
  BY <1>1, <1>2, <1>3, <1>4, Queues DEF Picture, Running, InLoop

\* Every step keeps the picture of a tab that is not closed.
LEMMA NextTabInv == TypeInv /\ TabInv /\ [Next]_vars => TabInv'
<1> SUFFICES ASSUME TypeInv, TabInv, [Next]_vars, Live'
             PROVE  Picture'
  BY DEF TabInv
<1>1. Live
  <2>1. CASE Handle
    BY <2>1 DEF Handle, Handled, OnConnected, OnDisconnected, OnFinished, OnThreadFinished, OnDelete,
       WaitEnds, WaitTimesOut, Live
  <2>2. CASE Click
    BY <2>2 DEF Click, Ready, Type, Resize, Undefined, Disconnect, Reconnect, RequestClose,
       CancelClose, ConfirmClose, StartShell, Live
  <2>3. CASE Worker \/ Thread \/ UNCHANGED vars
    BY <2>3 DEF Worker, Thread, vars, gui, Live
  <2>4. QED
    BY <2>1, <2>2, <2>3 DEF Next
<1>2. Picture
  BY <1>1 DEF TabInv
<1>3. CASE UNCHANGED vars
  BY <1>2, <1>3, SamePicture DEF vars, wvars, worker, gui
<1>4. QED
  BY <1>1, <1>2, <1>3, HandleKeepsPicture, ClickKeepsPicture, WorkerKeepsPicture,
     ThreadKeepsPicture DEF Next

LEMMA TabInvariant == Spec => []TabInv
<1>1. Init => TabInv
  BY DEF Init, NoWorker, TabInv, Picture, Waiting, Running, InLoop
<1>2. QED
  BY <1>1, NextTabInv, TypeInvariant, PTL DEF Spec

\* Input that the tab accepts goes to a worker that exists.
THEOREM InputHasAWorker == Spec => []InputReachesWorker
<1>1. TypeInv /\ TabInv => InputReachesWorker
  BY DEF InputReachesWorker, HasActiveShell, TabInv, Live, Picture, Running, InLoop
<1>2. QED
  BY <1>1, TypeInvariant, TabInvariant, PTL

\* Reconnect is offered only when nothing of the last shell is left: no worker,
\* no thread and no signal of it that could reach the next one.
THEOREM ReconnectIsClean == Spec => []ReconnectStarts
<1>1. TabInv => ReconnectStarts
  <2> SUFFICES ASSUME TabInv, tab = "open", "reconnect" \in buttons
               PROVE  ~active /\ ~pointer /\ events = <<>> /\ at = "gone"
    BY DEF ReconnectStarts
  <2>1. Picture
    BY DEF TabInv, Live
  <2>2. at = "gone" /\ events = <<>>
    BY <2>1 DEF Picture
  <2>3. QED
    BY <2>1, <2>2 DEF Picture, Running, InLoop
<1>2. QED
  BY <1>1, TabInvariant, PTL
-----------------------------------------------------------------------------
(***************************************************************************)
(* The size of the terminal.                                               *)
(***************************************************************************)

\* Every step keeps the sizes in agreement.  The picture is needed: a tab whose
\* worker runs has a pointer to it, so that no change of size is dropped.
LEMMA NextSizeInv == TypeInv /\ TabInv /\ SizeInv /\ [Next]_vars => SizeInv'
<1> SUFFICES ASSUME TypeInv, TabInv, SizeInv, [Next]_vars
             PROVE  SizeInv'
  OBVIOUS
<1>1. UNCHANGED <<at, size, remoteSize, refused, last>> => SizeInv'
  BY DEF SizeInv, SizeFollows
<1>2. CASE Handle
  BY <1>1, <1>2 DEF Handle, Handled, OnConnected, OnDisconnected, OnFinished, OnThreadFinished, OnDelete,
     WaitEnds, WaitTimesOut, RequestStop, worker, sizes, wvars
<1>3. CASE Ready \/ Reconnect
  BY <1>3 DEF Ready, Reconnect, StartShell, NewWorker, InitialSize, SizeInv, SizeFollows, InLoop
<1>4. CASE Resize
  <2>1. PICK n \in Sizes : /\ last' = n
                           /\ IF Dangling THEN Undefined
                              ELSE IF pointer THEN ResizePty(n) /\ UNCHANGED tab
                              ELSE UNCHANGED <<worker, tab>>
    BY <1>4 DEF Resize
  <2>2. at' = at
    BY <2>1 DEF Undefined, ResizePty, worker
  <2>3. Picture
    BY <1>4 DEF Resize, TabInv, Live
  <2>4. CASE at \in Running
    <3>1. pointer /\ ~Dangling
      BY <2>3, <2>4 DEF Picture, Dangling, Running, InLoop
    <3>2. size' = n /\ last' = n /\ n # NoSize
      BY <2>1, <3>1, WorkerAssumption DEF ResizePty
    <3>3. QED
      BY <2>2, <3>2 DEF SizeInv, SizeFollows
  <2>5. CASE at \notin Running
    BY <2>2, <2>5 DEF SizeInv, SizeFollows, Running
  <2>6. QED
    BY <2>4, <2>5
<1>5. CASE Type \/ Disconnect \/ RequestClose \/ CancelClose \/ ConfirmClose
  BY <1>1, <1>5 DEF Type, SendInput, Disconnect, DisconnectShell, RequestStop, RequestClose,
     CancelClose, ConfirmClose, worker, sizes, wvars
<1>6. CASE OpenShell /\ last' = last
  BY <1>6 DEF OpenShell, Goto, StartSize, SizeInv, SizeFollows, InLoop
<1>7. CASE ApplySize /\ last' = last
  <2>1. at = "resize" /\ at' = "read" /\ size' = NoSize /\ size \in {NoSize, last}
    BY <1>7 DEF ApplySize, Goto, SizeInv, Running, InLoop
  <2>2. ~refused' /\ last # NoSize => remoteSize' = last
    BY <1>7, <2>1 DEF ApplySize, SizeInv, SizeFollows, InLoop
  <2>3. QED
    BY <1>7, <2>1, <2>2 DEF SizeInv, SizeFollows
<1>8. CASE last' = last /\ (Connect \/ FailToOpen \/ TakeInput \/ LeaveLoop \/ WriteSome \/ EndWrite
                             \/ Lose \/ ReadUntilDry \/ Cleanup \/ ThreadEnds)
  <2>1. UNCHANGED <<size, remoteSize, refused, last>>
    BY <1>8 DEF Connect, FailToOpen, TakeInput, LeaveLoop, WriteSome, EndWrite, Lose,
       ReadUntilDry, Cleanup, ThreadEnds, sizes
  <2>2. /\ at' \in Running => at \in Running
        /\ at' \in {"connecting", "opening"} => at \in {"connecting", "opening"}
        /\ at' \in InLoop => at \in InLoop
    BY <1>8 DEF Connect, FailToOpen, TakeInput, LeaveLoop, WriteSome, EndWrite, Lose,
       ReadUntilDry, Cleanup, ThreadEnds, Goto, Running, InLoop
  <2>3. QED
    BY <2>1, <2>2 DEF SizeInv, SizeFollows
<1>9. CASE Worker \/ Thread
  BY <1>6, <1>7, <1>8, <1>9 DEF Worker, WorkerStep, Thread, gui
<1>10. CASE UNCHANGED vars
  BY <1>1, <1>10 DEF vars, wvars, worker, sizes, gui
<1>11. QED
  BY <1>2, <1>3, <1>4, <1>5, <1>9, <1>10 DEF Next, Click

\* The remote terminal has the last size the window took, in a first shell and
\* after a reconnect, unless a newer one waits or the server refused it.
THEOREM SizeIsFollowed == Spec => []SizeFollows
<1>1. Init => SizeInv
  BY DEF Init, NoWorker, SizeInv, SizeFollows, Running, InLoop
<1>2. SizeInv => SizeFollows
  BY DEF SizeInv
<1>3. QED
  BY <1>1, <1>2, NextSizeInv, TypeInvariant, TabInvariant, PTL DEF Spec
=============================================================================
