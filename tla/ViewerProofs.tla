---------------------------- MODULE ViewerProofs ----------------------------
(* What viewers are owed.  First, for any number of sources, players,       *)
(* senders and API calls: the report that nobody watches is not forgotten,  *)
(* and no timer runs against a viewer.  Then, for an on-demand muxer with   *)
(* any number of players and caches of any size: a viewer is given every    *)
(* frame from his coming on, in order, and nothing from before the muxer    *)
(* was off.                                                                 *)
EXTENDS NoneReader, OnDemandMuxer, FiniteSetTheorems, SequenceTheorems,
        WellFoundedInduction, TLAPS

\* The task at i counts the players of s.
CountsAt(i, s) == tasks[i].kind = "count" /\ tasks[i].of = s

\* The same of a task that is not in the queue yet, and what it says.
CountOf(task, s) == task.kind = "count" /\ task.of = s
SaysSome(task) == task.some = TRUE

\* Some count of s waits.
Awaited(s) == \E i \in DOMAIN tasks : CountsAt(i, s)

\* HLS sources come and go once, and what is gone has no players; counts are
\* of sources that are or were there.
Lives ==
    /\ hls \notin dropped
    /\ \A s \in Sources : ~Held(s) => readers[s] = 0
    /\ \A i \in DOMAIN tasks :
          tasks[i].kind = "count" => Held(tasks[i].of) \/ tasks[i].of \in dropped

\* A count that says somebody is there is not the last word on a source that
\* everybody has left.
LastWord ==
    \A i \in DOMAIN tasks : \A s \in Sources :
        CountsAt(i, s) /\ Held(s) /\ tasks[i].some = TRUE /\ readers[s] = 0
            => \E j \in DOMAIN tasks : j > i /\ CountsAt(j, s)

\* While the timer is armed no recorder and no sender counts, and whoever
\* plays has a count on its way that will drop it.
Quiet ==
    timer # None =>
        /\ ~(mp4 /\ Mp4AsPlayer)
        /\ slot = None
        /\ \A s \in Sources : Held(s) /\ readers[s] > 0 => Awaited(s)

IInv ==
    /\ ReadersTypeOK
    /\ Lives
    /\ LastWord
    /\ Quiet
    /\ NeverForgotten

-----------------------------------------------------------------------------
\* What Append does to the queue.
LEMMA AppendedTasks ==
    ASSUME ReadersTypeOK, NEW task \in Tasks, tasks' = Append(tasks, task)
    PROVE  /\ tasks' \in Seq(Tasks)
           /\ DOMAIN tasks' = DOMAIN tasks \cup {Len(tasks) + 1}
           /\ Len(tasks) + 1 \in DOMAIN tasks'
           /\ tasks'[Len(tasks) + 1] = task
           /\ \A i \in DOMAIN tasks :
                 i \in Nat /\ tasks'[i] = tasks[i] /\ i < Len(tasks) + 1
  BY DEF ReadersTypeOK

\* What taking the head does to it.
LEMMA TakenTasks ==
    ASSUME ReadersTypeOK, NEW task, Takes(task)
    PROVE  /\ tasks' \in Seq(Tasks)
           /\ 1 \in DOMAIN tasks
           /\ tasks[1] = task
           /\ \A i \in DOMAIN tasks' :
                 i \in Nat /\ i + 1 \in DOMAIN tasks /\ tasks'[i] = tasks[i + 1]
           /\ \A i \in DOMAIN tasks :
                 /\ i \in Nat
                 /\ i # 1 => i > 1 /\ i - 1 \in DOMAIN tasks'
                             /\ tasks'[i - 1] = tasks[i]
<1>1. tasks \in Seq(Tasks) /\ tasks # <<>> /\ Head(tasks) = task /\ tasks' = Tail(tasks)
  BY DEF ReadersTypeOK, Takes
<1>2. Len(tasks) \in Nat /\ Len(tasks) > 0 /\ DOMAIN tasks = 1 .. Len(tasks)
  BY <1>1
<1>3. tasks' \in Seq(Tasks) /\ Len(tasks') = Len(tasks) - 1
      /\ DOMAIN tasks' = 1 .. Len(tasks')
  BY <1>1, <1>2
<1>4. \A i \in 1 .. Len(tasks) - 1 : tasks'[i] = tasks[i + 1]
  BY <1>1, <1>2
<1>5. \A i \in DOMAIN tasks : i # 1 => tasks'[i - 1] = tasks[i]
  <2> TAKE i \in DOMAIN tasks
  <2> HAVE i # 1
  <2>1. i - 1 \in 1 .. Len(tasks) - 1 /\ (i - 1) + 1 = i
    BY <1>2
  <2> QED
    BY <2>1, <1>4
<1>6. 1 \in DOMAIN tasks /\ tasks[1] = task
  BY <1>1, <1>2
<1>7. \A i \in DOMAIN tasks' :
         i \in Nat /\ i + 1 \in DOMAIN tasks /\ tasks'[i] = tasks[i + 1]
  BY <1>2, <1>3, <1>4
<1>8. \A i \in DOMAIN tasks :
         i \in Nat /\ (i # 1 => i > 1 /\ i - 1 \in DOMAIN tasks')
  BY <1>2, <1>3
<1> QED
  BY <1>3, <1>5, <1>6, <1>7, <1>8

\* Every task is one of the three kinds.
LEMMA TaskKinds ==
    /\ \A s \in Sources, b \in BOOLEAN :
          /\ Count(s, b) \in Tasks
          /\ Count(s, b).kind = "count"
          /\ Count(s, b).of = s
          /\ Count(s, b).some = b
    /\ \A x \in Senders : /\ Ready(x) \in Tasks /\ Ready(x).kind # "count"
                          /\ Close(x) \in Tasks /\ Close(x).kind # "count"
    /\ \A t \in Tasks : t.kind = "count" => t.of \in Sources /\ t.some \in BOOLEAN
<1>1. \A s \in Sources, b \in BOOLEAN :
         /\ Count(s, b) \in Tasks
         /\ Count(s, b).kind = "count"
         /\ Count(s, b).of = s
         /\ Count(s, b).some = b
  BY DEF Count, Tasks
<1>2. \A x \in Senders : Ready(x) \in Tasks /\ Close(x) \in Tasks
  BY DEF Tasks
<1>4. \A x \in Senders : Ready(x).kind = "ready" /\ Close(x).kind = "close"
  BY DEF Ready, Close
<1>5. \A x \in Senders : Ready(x).kind # "count" /\ Close(x).kind # "count"
  BY <1>4
<1>3. ASSUME NEW t \in Tasks, t.kind = "count"
      PROVE  t.of \in Sources /\ t.some \in BOOLEAN
  <2>1. \/ \E s \in Sources, b \in BOOLEAN : t = Count(s, b)
        \/ \E x \in Senders : t = Ready(x) \/ t = Close(x)
    BY DEF Tasks
  <2> QED
    BY <2>1, <1>1, <1>5, <1>3
<1> QED
  BY <1>1, <1>2, <1>3, <1>5

-----------------------------------------------------------------------------
\* Steps that leave the players, the HLS source and the queue alone.
LEMMA QueueKept ==
    ASSUME IInv, UNCHANGED <<readers, hls, dropped, tasks>>
    PROVE  /\ Lives' /\ LastWord'
           /\ Pending' <=> Pending
           /\ \A s : Held(s)' <=> Held(s)
           /\ \A s : Awaited(s)' <=> Awaited(s)
<1>1. \A s : Held(s)' <=> Held(s)
  BY DEF Held
<1>2. Lives' /\ LastWord'
  BY <1>1 DEF IInv, Lives, LastWord, CountsAt
<1> QED
  BY <1>1, <1>2 DEF Pending, Awaited, CountsAt

\* Steps that append a task and leave the sources alone.
LEMMA QueueGrows ==
    ASSUME IInv, NEW task \in Tasks, tasks' = Append(tasks, task),
           UNCHANGED <<hls, dropped>>
    PROVE  /\ tasks' \in Seq(Tasks)
           /\ Pending => Pending'
           /\ \A s : Held(s)' <=> Held(s)
           /\ \A s : Awaited(s) => Awaited(s)'
           /\ task.kind # "count" /\ readers' = readers => Lives' /\ LastWord'
<1>1. \A s : Held(s)' <=> Held(s)
  BY DEF Held
<1>2. /\ tasks' \in Seq(Tasks)
      /\ DOMAIN tasks' = DOMAIN tasks \cup {Len(tasks) + 1}
      /\ Len(tasks) + 1 \in DOMAIN tasks'
      /\ tasks'[Len(tasks) + 1] = task
      /\ \A i \in DOMAIN tasks :
            i \in Nat /\ tasks'[i] = tasks[i] /\ i < Len(tasks) + 1
  BY AppendedTasks DEF IInv
<1>3. Pending => Pending'
  BY <1>1, <1>2 DEF Pending
<1>4. \A s : Awaited(s) => Awaited(s)'
  BY <1>1, <1>2 DEF Awaited, CountsAt
<1>5. ASSUME task.kind # "count", readers' = readers
      PROVE  Lives' /\ LastWord'
  <2>1. Lives'
    BY <1>1, <1>2, <1>5 DEF IInv, Lives
  <2>2. LastWord'
    BY <1>1, <1>2, <1>5 DEF IInv, LastWord, CountsAt
  <2> QED
    BY <2>1, <2>2
<1> QED
  BY <1>1, <1>2, <1>3, <1>4, <1>5

\* Steps that take the head of the queue and leave the rest alone.
LEMMA QueueShrinks ==
    ASSUME IInv, NEW task, Takes(task), UNCHANGED <<readers, hls, dropped>>
    PROVE  /\ tasks' \in Seq(Tasks)
           /\ Lives' /\ LastWord'
           /\ task.kind # "count" \/ ~Held(task.of) => (Pending => Pending')
           /\ \A s : Held(s)' <=> Held(s)
           /\ \A s : task.kind # "count" \/ task.of # s
                        => (Awaited(s) => Awaited(s)')
           /\ \A s \in Sources :
                 task = Count(s, TRUE) /\ Held(s) /\ readers[s] = 0 => Pending'
<1>1. \A s : Held(s)' <=> Held(s)
  BY DEF Held
<1>2. /\ tasks' \in Seq(Tasks)
      /\ 1 \in DOMAIN tasks
      /\ tasks[1] = task
      /\ \A i \in DOMAIN tasks' :
            i \in Nat /\ i + 1 \in DOMAIN tasks /\ tasks'[i] = tasks[i + 1]
      /\ \A i \in DOMAIN tasks :
            /\ i \in Nat
            /\ i # 1 => i > 1 /\ i - 1 \in DOMAIN tasks'
                        /\ tasks'[i - 1] = tasks[i]
  BY TakenTasks DEF IInv
<1>3. Lives'
  BY <1>1, <1>2 DEF IInv, Lives
<1>4. LastWord'
  <2> SUFFICES ASSUME NEW i \in DOMAIN tasks', NEW s \in Sources,
                      CountsAt(i, s)', Held(s)', tasks'[i].some = TRUE, readers'[s] = 0
               PROVE  \E j \in DOMAIN tasks' : j > i /\ CountsAt(j, s)'
    BY DEF LastWord
  <2>1. i \in Nat /\ i + 1 \in DOMAIN tasks /\ tasks'[i] = tasks[i + 1]
    BY <1>2
  <2>2. CountsAt(i + 1, s) /\ Held(s) /\ tasks[i + 1].some = TRUE /\ readers[s] = 0
    BY <2>1, <1>1 DEF CountsAt
  <2>3. PICK j \in DOMAIN tasks : j > i + 1 /\ CountsAt(j, s)
    BY <2>1, <2>2 DEF IInv, LastWord
  <2>4. j \in Nat /\ j # 1
    BY <2>1, <2>3, <1>2
  <2>5. j - 1 \in DOMAIN tasks' /\ tasks'[j - 1] = tasks[j] /\ j - 1 > i
    BY <2>1, <2>3, <2>4, <1>2
  <2> QED
    BY <2>3, <2>5 DEF CountsAt
<1>5. ASSUME task.kind # "count" \/ ~Held(task.of), Pending
      PROVE  Pending'
  BY <1>1, <1>2, <1>5 DEF Pending
<1>6. ASSUME NEW s, task.kind # "count" \/ task.of # s, Awaited(s)
      PROVE  Awaited(s)'
  BY <1>2, <1>6 DEF Awaited, CountsAt
<1>7. ASSUME NEW s \in Sources, task = Count(s, TRUE), Held(s), readers[s] = 0
      PROVE  Pending'
  <2>0. /\ Count(s, TRUE).kind = "count"
        /\ Count(s, TRUE).of = s
        /\ Count(s, TRUE).some = TRUE
    BY TaskKinds
  <2>1. CountsAt(1, s) /\ tasks[1].some = TRUE
    BY <1>2, <1>7, <2>0 DEF CountsAt
  <2>2. PICK j \in DOMAIN tasks : j > 1 /\ CountsAt(j, s)
    BY <2>1, <1>2, <1>7 DEF IInv, LastWord
  <2>3. j - 1 \in DOMAIN tasks' /\ tasks'[j - 1] = tasks[j]
    BY <2>2, <1>2
  <2> QED
    BY <2>2, <2>3, <1>1, <1>7 DEF CountsAt, Pending
<1> QED
  BY <1>1, <1>2, <1>3, <1>4, <1>5, <1>6, <1>7

-----------------------------------------------------------------------------
LEMMA ReadersInitInv == ReadersInit => IInv
<1> SUFFICES ASSUME ReadersInit PROVE IInv
  OBVIOUS
<1>1. ReadersTypeOK
  <2>1. tasks \in Seq(Tasks)
    BY DEF ReadersInit
  <2>2. readers \in [Sources -> Nat] /\ calls \in Nat
    BY DEF ReadersInit
  <2> QED
    BY <2>1, <2>2 DEF ReadersInit, ReadersTypeOK
<1>2. DOMAIN tasks = {}
  BY DEF ReadersInit
<1>3. Lives /\ LastWord
  BY <1>2 DEF ReadersInit, Lives, LastWord
<1>4. Quiet /\ NeverForgotten
  BY DEF ReadersInit, Quiet, NeverForgotten, Unreported
<1> QED
  BY <1>1, <1>3, <1>4 DEF IInv

\* The timer after a change of the viewers that the poller is told of.
LEMMA Told ==
    ASSUME IInv, NEW s \in Sources \cup {NullSource}, NEW some \in BOOLEAN,
           OnReaderChanged(s, some), \A t : Held(t)' <=> Held(t),
           mp4' \in BOOLEAN, readers' = readers
    PROVE  /\ timer' \in Sources \cup {NullSource, None}
           /\ Quiet'
           /\ ~some /\ ~Watched' => timer' = s
<1> USE ReaderAssumption
<1>1. ~some /\ ~Watched' => timer' = s
  BY DEF OnReaderChanged
<1>2. timer' # None => ~Watched'
  BY DEF OnReaderChanged
<1>3. \A t \in Sources : readers'[t] > 0 /\ Held(t)' => Watched'
  BY DEF Watched, Held
<1>4. Quiet'
  BY <1>2, <1>3 DEF Quiet, Watched, Held
<1> QED
  BY <1>1, <1>4 DEF OnReaderChanged

-----------------------------------------------------------------------------
\* Players.
LEMMA PlayerStep ==
    ASSUME IInv, NEW s \in Sources, ~closed, Attach(s) \/ Detach(s)
    PROVE  IInv'
<1> USE ReaderAssumption
<1>1. PICK task \in Tasks :
         /\ Held(s)
         /\ tasks' = Append(tasks, task)
         /\ CountOf(task, s)
         /\ readers' \in [Sources -> Nat]
         /\ readers'[s] = 0 => ~SaysSome(task)
         /\ \A t \in Sources : t # s => readers'[t] = readers[t]
  <2>1. CASE Attach(s)
    <3>1. /\ Held(s)
          /\ tasks' = Append(tasks, Count(s, TRUE))
          /\ readers' \in [Sources -> Nat]
          /\ readers'[s] # 0
          /\ \A t \in Sources : t # s => readers'[t] = readers[t]
      BY <2>1 DEF Attach, Posted, IInv, ReadersTypeOK
    <3>2. /\ Count(s, TRUE) \in Tasks
          /\ CountOf(Count(s, TRUE), s)
      BY TaskKinds DEF CountOf
    <3> QED
      BY <3>1, <3>2
  <2>2. CASE Detach(s)
    <3>1. /\ Held(s)
          /\ tasks' = Append(tasks, Count(s, readers[s] > 1))
          /\ readers' \in [Sources -> Nat]
          /\ readers[s] > 1 => readers'[s] # 0
          /\ \A t \in Sources : t # s => readers'[t] = readers[t]
      BY <2>2 DEF Detach, Posted, IInv, ReadersTypeOK
    <3>2. CASE readers[s] > 1
      <4>0. (readers[s] > 1) = TRUE
        BY <3>2
      <4>1. tasks' = Append(tasks, Count(s, TRUE))
        BY <3>1, <4>0, Zenon
      <4>2. /\ Count(s, TRUE) \in Tasks
            /\ CountOf(Count(s, TRUE), s)
        BY TaskKinds DEF CountOf
      <4> QED
        BY <3>1, <3>2, <4>1, <4>2
    <3>3. CASE ~(readers[s] > 1)
      <4>0. (readers[s] > 1) = FALSE
        BY <3>3
      <4>1. tasks' = Append(tasks, Count(s, FALSE))
        BY <3>1, <4>0, Zenon
      <4>2. /\ Count(s, FALSE) \in Tasks
            /\ CountOf(Count(s, FALSE), s)
            /\ ~SaysSome(Count(s, FALSE))
        BY TaskKinds DEF CountOf, SaysSome
      <4> QED
        BY <3>1, <4>1, <4>2
    <3> QED
      BY <3>2, <3>3
  <2> QED
    BY <2>1, <2>2
<1>2. UNCHANGED <<hls, dropped, mp4, phase, slot, timer, asked, closed, calls>>
  BY DEF Attach, Detach
<1>3. duty' \in {"none", "owed", "told", "lost"}
  BY DEF Attach, Detach, Owing, IInv, ReadersTypeOK
<1>5. /\ DOMAIN tasks' = DOMAIN tasks \cup {Len(tasks) + 1}
      /\ Len(tasks) + 1 \in DOMAIN tasks'
      /\ tasks'[Len(tasks) + 1] = task
      /\ \A i \in DOMAIN tasks :
            i \in Nat /\ tasks'[i] = tasks[i] /\ i < Len(tasks) + 1
  BY <1>1, AppendedTasks DEF IInv
<1>6. /\ tasks' \in Seq(Tasks)
      /\ \A t : Held(t)' <=> Held(t)
      /\ \A t : Awaited(t) => Awaited(t)'
  BY <1>1, <1>2, QueueGrows
<1>7. Awaited(s)' /\ Pending'
  <2>1. Held(s)'
    BY <1>1, <1>6
  <2>2. Awaited(s)'
    BY <1>5, <1>1 DEF Awaited, CountsAt, CountOf
  <2> QED
    BY <2>1, <2>2 DEF Awaited, CountsAt, Pending, Held
<1>8. ReadersTypeOK'
  BY <1>1, <1>2, <1>3, <1>6 DEF IInv, ReadersTypeOK
<1>9. Lives'
  BY <1>1, <1>2, <1>5, <1>6 DEF IInv, Lives, CountOf
<1>10. LastWord'
  <2> SUFFICES ASSUME NEW i \in DOMAIN tasks', NEW t \in Sources,
                      CountsAt(i, t)', Held(t)', tasks'[i].some = TRUE, readers'[t] = 0
               PROVE  \E j \in DOMAIN tasks' : j > i /\ CountsAt(j, t)'
    BY DEF LastWord
  <2>1. i \in DOMAIN tasks
    BY <1>1, <1>5 DEF CountsAt, CountOf, SaysSome
  <2>2. CASE t = s
    BY <2>1, <2>2, <1>5, <1>1 DEF CountsAt, CountOf
  <2>3. CASE t # s
    BY <2>1, <2>3, <1>1, <1>5, <1>6 DEF IInv, LastWord, CountsAt
  <2> QED
    BY <2>2, <2>3
<1>11. Quiet'
  BY <1>1, <1>2, <1>6, <1>7 DEF IInv, Quiet
<1>12. NeverForgotten'
  BY <1>7 DEF NeverForgotten
<1> QED
  BY <1>8, <1>9, <1>10, <1>11, <1>12 DEF IInv

\* The poller's tasks.
LEMMA CountStep ==
    ASSUME IInv, NEW s \in Sources, NEW some \in BOOLEAN, RunCount(s, some)
    PROVE  IInv'
<1> USE ReaderAssumption
<1>1. /\ Takes(Count(s, some))
      /\ UNCHANGED <<readers, hls, dropped, mp4, phase, slot, asked, closed,
                     duty, calls>>
  BY DEF RunCount
<1>2. /\ Count(s, some).kind = "count"
      /\ Count(s, some).of = s
  BY TaskKinds
<1>3. /\ tasks' \in Seq(Tasks)
      /\ Lives' /\ LastWord'
      /\ ~Held(s) => (Pending => Pending')
      /\ \A t : Held(t)' <=> Held(t)
      /\ \A t : t # s => (Awaited(t) => Awaited(t)')
      /\ Count(s, some) = Count(s, TRUE) /\ Held(s) /\ readers[s] = 0 => Pending'
  BY <1>1, <1>2, QueueShrinks
<1>4. Watched' <=> Watched
  BY <1>1, <1>3 DEF Watched, Held
<1>5. CASE Held(s)
  <2>1. OnReaderChanged(s, some)
    BY <1>5 DEF RunCount
  <2>2. /\ timer' \in Sources \cup {NullSource, None}
        /\ Quiet'
        /\ ~some /\ ~Watched' => timer' = s
    BY <2>1, <1>1, <1>3, Told DEF IInv, ReadersTypeOK
  <2>3. ReadersTypeOK'
    BY <2>2, <1>1, <1>3 DEF IInv, ReadersTypeOK
  <2>4. ASSUME Unreported' PROVE Held(timer)' \/ Pending'
    <3>1. ~Watched'
      BY <2>4 DEF Unreported
    <3>2. readers[s] = 0
      BY <3>1, <1>4, <1>5 DEF Watched, Held, IInv, ReadersTypeOK
    <3>3. CASE some
      BY <3>2, <3>3, <1>3, <1>5
    <3>4. CASE ~some
      <4>1. timer' = s
        BY <2>2, <3>1, <3>4
      <4> QED
        BY <4>1, <1>1, <1>5 DEF Held
    <3> QED
      BY <3>3, <3>4
  <2> QED
    BY <2>2, <2>3, <2>4, <1>3 DEF IInv, NeverForgotten
<1>6. CASE ~Held(s)
  <2>1. UNCHANGED timer
    BY <1>6 DEF RunCount
  <2>2. ReadersTypeOK'
    BY <2>1, <1>1, <1>3 DEF IInv, ReadersTypeOK
  <2>3. Quiet'
    BY <2>1, <1>1, <1>3, <1>6 DEF IInv, Quiet
  <2>4. NeverForgotten'
    BY <2>1, <1>1, <1>3, <1>4, <1>6 DEF IInv, NeverForgotten, Unreported, Held
  <2> QED
    BY <2>2, <2>3, <2>4, <1>3 DEF IInv
<1> QED
  BY <1>5, <1>6

-----------------------------------------------------------------------------
\* What every handler that calls onReaderChanged itself has in common: the
\* sources and the queue's counts stay, and the timer is set by the new count.
LEMMA ToldStep ==
    ASSUME IInv, NEW s \in Fixed \cup {NullSource},
           timer' = (IF Watched' THEN None ELSE s),
           mp4' \in BOOLEAN, readers' = readers, hls' = hls,
           duty' = "owed" /\ ~Watched' => s \in Fixed
    PROVE  /\ timer' \in Sources \cup {NullSource, None}
           /\ Quiet'
           /\ NeverForgotten'
<1> USE ReaderAssumption
<1>1. s \in Sources \cup {NullSource}
  BY DEF Sources
<1>2. timer' \in Sources \cup {NullSource, None}
  BY <1>1
<1>3. timer' # None => ~Watched'
  OBVIOUS
<1>4. Quiet'
  BY <1>3 DEF Quiet, Watched, Held
<1>5. NeverForgotten'
  <2> SUFFICES ASSUME Unreported' PROVE Held(timer)'
    BY DEF NeverForgotten
  <2>1. duty' = "owed" /\ ~Watched'
    BY DEF Unreported
  <2>2. timer' = s /\ s \in Fixed
    BY <2>1
  <2> QED
    BY <2>2 DEF Held, Sources
<1> QED
  BY <1>2, <1>4, <1>5

\* startSendRtp's callback.
LEMMA ReadyStep ==
    ASSUME IInv, NEW x \in Senders, RunReady(x)
    PROVE  IInv'
<1> USE ReaderAssumption
<1>1. /\ Takes(Ready(x))
      /\ slot' = x
      /\ UNCHANGED <<readers, hls, dropped, mp4, asked, closed, calls>>
      /\ phase' \in [Senders -> {"new", "starting", "started", "running", "over"}]
  BY DEF RunReady, IInv, ReadersTypeOK
<1>2. Watched'
  <2>1. slot' # None
    BY <1>1
  <2> QED
    BY <2>1 DEF Watched, Held
<1>3. timer' = None
  BY <1>2 DEF RunReady, OnReaderChanged
<1>4. duty' = "owed"
  BY <1>2 DEF RunReady, Owing
<1>5. Ready(x).kind # "count"
  BY TaskKinds
<1>6. tasks' \in Seq(Tasks) /\ Lives' /\ LastWord'
  BY <1>1, <1>5, QueueShrinks
<1>7. ReadersTypeOK'
  BY <1>1, <1>3, <1>4, <1>6 DEF IInv, ReadersTypeOK
<1>8. Quiet'
  BY <1>3 DEF Quiet
<1>9. NeverForgotten'
  BY <1>2 DEF NeverForgotten, Unreported
<1> QED
  BY <1>6, <1>7, <1>8, <1>9 DEF IInv

\* What the removal of a sender does to all but the queue.
LEMMA EraseFacts ==
    ASSUME IInv, NEW s \in Fixed \cup {NullSource}, Erase(s)
    PROVE  /\ UNCHANGED <<readers, hls, dropped, mp4, asked, closed>>
           /\ slot' = None
           /\ phase' \in [Senders -> {"new", "starting", "started", "running", "over"}]
           /\ duty' \in {"none", "owed", "told", "lost"}
           /\ timer' \in Sources \cup {NullSource, None}
           /\ Quiet'
           /\ NeverForgotten'
<1> USE ReaderAssumption
<1>1. /\ UNCHANGED <<readers, hls, dropped, mp4, asked, closed>>
      /\ slot' = None
      /\ phase' \in [Senders -> {"new", "starting", "started", "running", "over"}]
  BY DEF Erase, IInv, ReadersTypeOK
<1>2. timer' = (IF Watched' THEN None ELSE s)
  BY DEF Erase, OnReaderChanged
<1>3. /\ duty' \in {"none", "owed", "told", "lost"}
      /\ duty' = "owed" /\ ~Watched' => s # NullSource
  BY DEF Erase, OwingFor, Owing, IInv, ReadersTypeOK
<1>4. mp4' \in BOOLEAN
  BY <1>1 DEF IInv, ReadersTypeOK
<1>5. /\ timer' \in Sources \cup {NullSource, None}
      /\ Quiet'
      /\ NeverForgotten'
  BY <1>1, <1>2, <1>3, <1>4, ToldStep
<1> QED
  BY <1>1, <1>3, <1>5

\* A sender's onClose callback.
LEMMA CloseStep ==
    ASSUME IInv, NEW x \in Senders, RunClose(x)
    PROVE  IInv'
<1> USE ReaderAssumption
<1>1. Takes(Close(x)) /\ Erase(SourceOf[x]) /\ UNCHANGED calls
  BY DEF RunClose
<1>2. SourceOf[x] \in Fixed \cup {NullSource}
  OBVIOUS
<1>3. /\ UNCHANGED <<readers, hls, dropped, mp4, asked, closed>>
      /\ slot' = None
      /\ phase' \in [Senders -> {"new", "starting", "started", "running", "over"}]
      /\ duty' \in {"none", "owed", "told", "lost"}
      /\ timer' \in Sources \cup {NullSource, None}
      /\ Quiet'
      /\ NeverForgotten'
  BY <1>1, <1>2, EraseFacts
<1>4. Close(x).kind # "count"
  BY TaskKinds
<1>5. tasks' \in Seq(Tasks) /\ Lives' /\ LastWord'
  BY <1>1, <1>3, <1>4, QueueShrinks
<1>6. ReadersTypeOK'
  BY <1>1, <1>3, <1>5 DEF IInv, ReadersTypeOK
<1> QED
  BY <1>3, <1>5, <1>6 DEF IInv

\* The stopSendRtp call.
LEMMA StopSendStep ==
    ASSUME IInv, NEW s \in Fixed \cup {NullSource}, StopSendRtp(s)
    PROVE  IInv'
<1>1. Erase(s) /\ tasks' = tasks /\ calls' \in Nat
  BY DEF StopSendRtp, Called, IInv, ReadersTypeOK
<1>2. /\ UNCHANGED <<readers, hls, dropped, mp4, asked, closed>>
      /\ slot' = None
      /\ phase' \in [Senders -> {"new", "starting", "started", "running", "over"}]
      /\ duty' \in {"none", "owed", "told", "lost"}
      /\ timer' \in Sources \cup {NullSource, None}
      /\ Quiet'
      /\ NeverForgotten'
  BY <1>1, EraseFacts
<1>3. Lives' /\ LastWord'
  BY <1>1, <1>2, QueueKept
<1>4. ReadersTypeOK'
  BY <1>1, <1>2 DEF IInv, ReadersTypeOK
<1> QED
  BY <1>2, <1>3, <1>4 DEF IInv

\* Steps that leave alone what is watched, the timer and the duty.
LEMMA ViewersKept ==
    ASSUME IInv, ~closed, Pending => Pending', \A s : Held(s)' <=> Held(s),
           \A s : Awaited(s) => Awaited(s)',
           UNCHANGED <<readers, hls, mp4, slot, timer, duty>>
    PROVE  Quiet' /\ NeverForgotten'
<1>1. Watched' <=> Watched
  BY DEF Watched, Held
<1>2. Quiet'
  BY DEF IInv, Quiet
<1>3. NeverForgotten'
  <2> SUFFICES ASSUME Unreported' PROVE Held(timer)' \/ Pending'
    BY DEF NeverForgotten
  <2>1. Unreported
    BY <1>1 DEF Unreported
  <2>2. Held(timer) \/ Pending
    BY <2>1 DEF IInv, NeverForgotten
  <2> QED
    BY <2>2 DEF Held
<1> QED
  BY <1>2, <1>3

\* A sender that has connected, and one that breaks, post a task.
LEMMA SenderPosts ==
    ASSUME IInv, ~closed, NEW x \in Senders, Started(x) \/ Breaks(x)
    PROVE  IInv'
<1>1. PICK task \in Tasks : task.kind # "count" /\ tasks' = Append(tasks, task)
  BY TaskKinds DEF Started, Breaks, Posted
<1>2. /\ UNCHANGED <<readers, hls, dropped, mp4, slot, timer, asked, closed,
                     duty, calls>>
      /\ phase' \in [Senders -> {"new", "starting", "started", "running", "over"}]
  BY DEF Started, Breaks, IInv, ReadersTypeOK
<1>3. /\ tasks' \in Seq(Tasks)
      /\ Pending => Pending'
      /\ \A s : Held(s)' <=> Held(s)
      /\ \A s : Awaited(s) => Awaited(s)'
      /\ Lives' /\ LastWord'
  BY <1>1, <1>2, QueueGrows
<1>4. Quiet' /\ NeverForgotten'
  BY <1>2, <1>3, ViewersKept
<1>5. ReadersTypeOK'
  BY <1>2, <1>3 DEF IInv, ReadersTypeOK
<1> QED
  BY <1>3, <1>4, <1>5 DEF IInv

\* Calls and answers that change neither the viewers nor the queue.
LEMMA PlainStep ==
    ASSUME IInv, ~closed,
           \/ \E x \in Senders : StartFails(x) \/ StartSendRtp(x)
           \/ \E s \in Sources \cup {NullSource}, close \in BOOLEAN : Reply(s, close)
    PROVE  IInv'
<1>1. /\ UNCHANGED <<readers, hls, dropped, mp4, slot, tasks, timer, duty>>
      /\ phase' \in [Senders -> {"new", "starting", "started", "running", "over"}]
      /\ asked' \subseteq Sources \cup {NullSource}
      /\ closed' \in BOOLEAN
      /\ calls' \in Nat
  BY DEF StartFails, StartSendRtp, Reply, Called, IInv, ReadersTypeOK
<1>2. /\ Lives' /\ LastWord'
      /\ Pending' <=> Pending
      /\ \A s : Held(s)' <=> Held(s)
      /\ \A s : Awaited(s)' <=> Awaited(s)
  BY <1>1, QueueKept
<1>3. Quiet' /\ NeverForgotten'
  BY <1>1, <1>2, ViewersKept
<1>4. ReadersTypeOK'
  BY <1>1 DEF IInv, ReadersTypeOK
<1> QED
  BY <1>2, <1>3, <1>4 DEF IInv

\* The timer.
LEMMA TimerStep ==
    ASSUME IInv, ~closed, TimerFires
    PROVE  IInv'
<1> USE ReaderAssumption
<1>1. /\ timer # None /\ timer' = None
      /\ UNCHANGED <<readers, hls, dropped, mp4, phase, slot, tasks, closed, calls>>
      /\ duty' \in {"none", "owed", "told", "lost"}
      /\ asked' \subseteq Sources \cup {NullSource}
  BY DEF TimerFires, IInv, ReadersTypeOK
<1>2. /\ Lives' /\ LastWord'
      /\ Pending' <=> Pending
      /\ \A s : Held(s)' <=> Held(s)
  BY <1>1, QueueKept
<1>3. Watched' <=> Watched
  BY <1>1 DEF Watched, Held
<1>4. ReadersTypeOK'
  BY <1>1 DEF IInv, ReadersTypeOK
<1>5. Quiet'
  BY <1>1 DEF Quiet
<1>6. NeverForgotten'
  <2> SUFFICES ASSUME Unreported' PROVE Pending'
    BY DEF NeverForgotten
  <2>1. ~Watched /\ duty' = "owed"
    BY <1>3 DEF Unreported
  <2>2. duty = "owed" /\ (timer \in dropped \/ timer = NullSource)
    BY <2>1 DEF TimerFires
  <2>3. ~Held(timer)
    <3>1. timer \notin Fixed /\ timer # hls
      BY <2>2 DEF IInv, ReadersTypeOK, Lives, Sources
    <3> QED
      BY <3>1 DEF Held
  <2>4. Held(timer) \/ Pending
    BY <2>1, <2>2 DEF IInv, NeverForgotten, Unreported
  <2> QED
    BY <2>3, <2>4, <1>2
<1> QED
  BY <1>2, <1>4, <1>5, <1>6 DEF IInv

-----------------------------------------------------------------------------
\* setupRecord(type_mp4).
LEMMA Mp4Step ==
    ASSUME IInv, ~closed, NEW s \in Fixed, NEW start \in BOOLEAN,
           RecordMp4(s, start)
    PROVE  IInv'
<1> USE ReaderAssumption
<1>1. /\ UNCHANGED <<readers, hls, dropped, phase, slot, tasks, asked, closed>>
      /\ mp4' \in BOOLEAN
      /\ calls' \in Nat
  BY DEF RecordMp4, Called, IInv, ReadersTypeOK
<1>2. /\ duty' = IF Watched' THEN "owed" ELSE duty
      /\ duty' \in {"none", "owed", "told", "lost"}
  BY DEF RecordMp4, Owing, IInv, ReadersTypeOK
<1>3. /\ Lives' /\ LastWord'
      /\ Pending' <=> Pending
      /\ \A t : Held(t)' <=> Held(t)
      /\ \A t : Awaited(t)' <=> Awaited(t)
  BY <1>1, QueueKept
<1>4. CASE Mp4AsPlayer
  <2>1. timer' = (IF Watched' THEN None ELSE s)
    BY <1>4 DEF RecordMp4, OnReaderChanged
  <2>2. /\ timer' \in Sources \cup {NullSource, None}
        /\ Quiet'
        /\ NeverForgotten'
    BY <2>1, <1>1, ToldStep
  <2>3. ReadersTypeOK'
    BY <2>2, <1>1, <1>2 DEF IInv, ReadersTypeOK
  <2> QED
    BY <2>2, <2>3, <1>3 DEF IInv
<1>5. CASE ~Mp4AsPlayer
  <2>1. timer' = timer
    BY <1>5 DEF RecordMp4
  <2>2. Watched' <=> Watched
    BY <1>1, <1>5 DEF Watched, Held
  <2>3. Quiet'
    BY <2>1, <1>1, <1>3, <1>5 DEF IInv, Quiet
  <2>4. ASSUME Unreported' PROVE Held(timer)' \/ Pending'
    <3>1. ~Watched /\ duty = "owed" /\ ~closed
      BY <2>4, <2>2, <1>1, <1>2 DEF Unreported
    <3>2. Held(timer) \/ Pending
      BY <3>1 DEF IInv, NeverForgotten, Unreported
    <3> QED
      BY <3>2, <2>1, <1>1, <1>3 DEF Held
  <2>5. ReadersTypeOK'
    BY <2>1, <1>1, <1>2 DEF IInv, ReadersTypeOK
  <2> QED
    BY <2>3, <2>4, <2>5, <1>3 DEF IInv, NeverForgotten
<1> QED
  BY <1>4, <1>5

\* setupRecord(type_hls): a source that was never there has no players.
LEMMA StartHlsStep ==
    ASSUME IInv, ~closed, NEW h \in HlsSources, StartHls(h)
    PROVE  IInv'
<1> USE ReaderAssumption
<1>1. /\ hls = None /\ h \notin dropped /\ hls' = h
      /\ UNCHANGED <<readers, dropped, mp4, phase, slot, tasks, timer, asked,
                     closed, duty>>
      /\ calls' \in Nat
  BY DEF StartHls, Called, IInv, ReadersTypeOK
<1>2. h \in Sources /\ h \notin Fixed /\ h # None
  BY DEF Sources
<1>3. \A s : Held(s)' <=> Held(s) \/ s = h
  BY <1>1, <1>2 DEF Held
<1>4. ~Held(h) /\ readers[h] = 0
  <2>1. ~Held(h)
    BY <1>1, <1>2 DEF Held
  <2> QED
    BY <2>1, <1>2 DEF IInv, Lives
<1>5. Watched' <=> Watched
  <2>1. \A s \in Sources : Held(s)' /\ readers'[s] > 0 <=> Held(s) /\ readers[s] > 0
    BY <1>1, <1>3, <1>4
  <2> QED
    BY <2>1, <1>1 DEF Watched, Held
<1>6. \A i \in DOMAIN tasks : ~CountsAt(i, h)
  BY <1>1, <1>4 DEF IInv, Lives, CountsAt
<1>7. Lives'
  BY <1>1, <1>3 DEF IInv, Lives
<1>8. LastWord'
  BY <1>1, <1>3, <1>6 DEF IInv, LastWord, CountsAt
<1>9. Quiet'
  <2>1. \A s : Awaited(s) => Awaited(s)'
    BY <1>1 DEF Awaited, CountsAt
  <2> QED
    BY <1>1, <1>3, <1>4, <2>1 DEF IInv, Quiet
<1>10. NeverForgotten'
  <2>1. Pending => Pending'
    BY <1>1, <1>3 DEF Pending
  <2>2. Held(timer) => Held(timer)'
    BY <1>1, <1>3 DEF Held
  <2> QED
    BY <2>1, <2>2, <1>1, <1>5 DEF IInv, NeverForgotten, Unreported
<1>11. ReadersTypeOK'
  BY <1>1 DEF IInv, ReadersTypeOK
<1> QED
  BY <1>7, <1>8, <1>9, <1>10, <1>11 DEF IInv

\* setupRecord(type_hls) off: what rested on the source is lost, the rest not.
LEMMA StopHlsStep ==
    ASSUME IInv, ~closed, StopHls
    PROVE  IInv'
<1> USE ReaderAssumption
<1>1. /\ hls # None /\ hls' = None
      /\ dropped' = dropped \cup {hls}
      /\ readers' = [readers EXCEPT ![hls] = 0]
      /\ UNCHANGED <<mp4, phase, slot, tasks, timer, asked, closed>>
      /\ calls' \in Nat
  BY DEF StopHls, Called, IInv, ReadersTypeOK
<1>2. hls \in HlsSources /\ hls \in Sources /\ hls \notin Fixed
  BY <1>1 DEF IInv, ReadersTypeOK, Sources
<1>3. /\ duty' = IF Watched' THEN "owed"
                 ELSE IF duty = "owed" /\ Entrusted(hls) THEN "lost" ELSE duty
      /\ duty' \in {"none", "owed", "told", "lost"}
  BY DEF StopHls, Owing, IInv, ReadersTypeOK
<1>4. \A s : Held(s)' <=> Held(s) /\ s # hls
  BY <1>1, <1>2 DEF Held
<1>5. /\ readers' \in [Sources -> Nat]
      /\ readers'[hls] = 0
      /\ \A s \in Sources : s # hls => readers'[s] = readers[s]
  BY <1>1, <1>2 DEF IInv, ReadersTypeOK
<1>6. ReadersTypeOK'
  BY <1>1, <1>2, <1>3, <1>5 DEF IInv, ReadersTypeOK
<1>7. Lives'
  <2>1. hls' \notin dropped'
    BY <1>1, <1>2 DEF IInv, ReadersTypeOK, Sources
  <2>2. ASSUME NEW s \in Sources, ~Held(s)' PROVE readers'[s] = 0
    <3>1. CASE s = hls
      BY <3>1, <1>5
    <3>2. CASE s # hls
      BY <3>2, <2>2, <1>4, <1>5 DEF IInv, Lives
    <3> QED
      BY <3>1, <3>2
  <2>3. ASSUME NEW i \in DOMAIN tasks, tasks[i].kind = "count"
        PROVE  Held(tasks[i].of)' \/ tasks[i].of \in dropped'
    <3>1. Held(tasks[i].of) \/ tasks[i].of \in dropped
      BY <2>3 DEF IInv, Lives
    <3> QED
      BY <3>1, <1>1 DEF Held
  <2> QED
    BY <2>1, <2>2, <2>3, <1>1 DEF Lives, Held
<1>8. LastWord'
  BY <1>1, <1>4, <1>5 DEF IInv, LastWord, CountsAt
<1>9. Quiet'
  <2>1. \A s : Awaited(s) => Awaited(s)'
    BY <1>1 DEF Awaited, CountsAt
  <2> QED
    BY <1>1, <1>4, <1>5, <2>1 DEF IInv, Quiet
<1>10. NeverForgotten'
  <2> SUFFICES ASSUME Unreported' PROVE Held(timer)' \/ Pending'
    BY DEF NeverForgotten
  <2>1. ~Watched' /\ duty = "owed" /\ ~Entrusted(hls)
    BY <1>3 DEF Unreported
  <2>2. /\ ~(readers[hls] > 0)
        /\ timer # hls
        /\ \A i \in DOMAIN tasks : ~CountsAt(i, hls)
    BY <2>1 DEF Entrusted, CountsAt
  <2>3. ~Watched
    <3>1. \A s \in Sources : Held(s) /\ readers[s] > 0 => Held(s)' /\ readers'[s] > 0
      BY <2>2, <1>4, <1>5
    <3> QED
      BY <3>1, <2>1, <1>1 DEF Watched, Held
  <2>4. Held(timer) \/ Pending
    BY <2>1, <2>3 DEF IInv, NeverForgotten, Unreported
  <2>5. Held(timer) => Held(timer)'
    BY <2>2, <1>1, <1>4 DEF Held
  <2>6. Pending => Pending'
    <3> SUFFICES ASSUME NEW i \in DOMAIN tasks, tasks[i].kind = "count",
                        Held(tasks[i].of)
                 PROVE  Held(tasks[i].of)'
      BY <1>1 DEF Pending, Held
    <3>1. tasks[i].of # hls
      BY <2>2 DEF CountsAt
    <3> QED
      BY <3>1, <1>1, <1>4 DEF Held
  <2> QED
    BY <2>4, <2>5, <2>6
<1> QED
  BY <1>6, <1>7, <1>8, <1>9, <1>10 DEF IInv

-----------------------------------------------------------------------------
LEMMA ReadersStepInv == IInv /\ [ReadersNext]_readerVars => IInv'
<1> SUFFICES ASSUME IInv, [ReadersNext]_readerVars PROVE IInv'
  OBVIOUS
<1>1. CASE UNCHANGED readerVars
  <2>1. UNCHANGED <<readers, hls, dropped, mp4, phase, slot, tasks, timer, asked,
                    closed, duty, calls>>
    BY <1>1 DEF readerVars
  <2>2. ReadersTypeOK' /\ Lives' /\ LastWord' /\ Quiet'
    BY <2>1 DEF IInv, ReadersTypeOK, Lives, LastWord, Quiet, Awaited, CountsAt, Held
  <2>3. NeverForgotten'
    BY <2>1 DEF IInv, NeverForgotten, Unreported, Watched, Pending, Held
  <2> QED
    BY <2>2, <2>3 DEF IInv
<1>2. CASE ReadersNext
  <2>0. ~closed
    BY <1>2 DEF ReadersNext
  <2>1. CASE \E s \in Sources : Attach(s) \/ Detach(s)
    BY <2>0, <2>1, PlayerStep
  <2>2. CASE RunTask
    BY <2>2, CountStep, ReadyStep, CloseStep DEF RunTask
  <2>3. CASE TimerFires
    BY <2>0, <2>3, TimerStep
  <2>4. CASE \E x \in Senders : Started(x) \/ StartFails(x) \/ Breaks(x)
    BY <2>0, <2>4, SenderPosts, PlainStep
  <2>5. CASE ApiCall
    BY <2>0, <2>5, PlainStep, StopSendStep, Mp4Step, StartHlsStep, StopHlsStep
       DEF ApiCall
  <2>6. CASE \E s \in Sources \cup {NullSource}, close \in BOOLEAN : Reply(s, close)
    BY <2>0, <2>6, PlainStep
  <2> QED
    BY <1>2, <2>1, <2>2, <2>3, <2>4, <2>5, <2>6 DEF ReadersNext
<1> QED
  BY <1>1, <1>2

\* The variables of the viewer count stay in their types.
THEOREM ReadersTypeCorrect == ReadersSpec => []ReadersTypeOK
<1>1. IInv => ReadersTypeOK
  BY DEF IInv
<1> QED
  BY <1>1, ReadersInitInv, ReadersStepInv, PTL DEF ReadersSpec

\* Whatever players, recorders and senders do and in whatever order the poller
\* runs its tasks: once the last viewer has left, a live source's timer is armed
\* or a count that arms it is queued (MediaSourceEvent::onReaderChanged).
THEOREM ReportNotForgotten == ReadersSpec => []NeverForgotten
<1>1. IInv => NeverForgotten
  BY DEF IInv
<1> QED
  BY <1>1, ReadersInitInv, ReadersStepInv, PTL DEF ReadersSpec

\* A timer that is armed while somebody watches has a count queued behind it
\* that will drop it (the _async_close_timer of onReaderChanged).
THEOREM NoTimerAgainstViewers == ReadersSpec => []TimerMeansUnwatched
<1>1. IInv => TimerMeansUnwatched
  <2> SUFFICES ASSUME IInv, timer # None, Watched PROVE Pending
    BY DEF TimerMeansUnwatched
  <2>1. PICK s \in Sources : Held(s) /\ readers[s] > 0
    BY DEF IInv, Quiet, Watched, Held
  <2>2. Awaited(s)
    BY <2>1 DEF IInv, Quiet
  <2> QED
    BY <2>1, <2>2 DEF Awaited, CountsAt, Pending, Held
<1> QED
  BY <1>1, ReadersInitInv, ReadersStepInv, PTL DEF ReadersSpec

-----------------------------------------------------------------------------
(* On-demand muxers: lists in order. *)

Before(s, t) == \A i \in DOMAIN s, j \in DOMAIN t : s[i] < t[j]
AllBelow(s, n) == \A i \in DOMAIN s : s[i] < n

LEMMA Joined ==
  ASSUME NEW s \in Seq(Int), NEW t \in Seq(Int)
  PROVE  /\ s \o t \in Seq(Int)
         /\ Len(s) \in Nat /\ Len(t) \in Nat /\ Len(s \o t) = Len(s) + Len(t)
         /\ DOMAIN s = 1..Len(s) /\ DOMAIN t = 1..Len(t) /\ DOMAIN (s \o t) = 1..(Len(s) + Len(t))
         /\ \A i \in 1..Len(s) : s[i] \in Int /\ (s \o t)[i] = s[i]
         /\ \A i \in 1..Len(t) : t[i] \in Int /\ (s \o t)[Len(s) + i] = t[i]
         /\ \A i \in 1..(Len(s) + Len(t)) : i \notin 1..Len(s) => i - Len(s) \in 1..Len(t) /\ (s \o t)[i] = t[i - Len(s)]
<1>1. /\ s \o t \in Seq(Int) /\ Len(s) \in Nat /\ Len(t) \in Nat /\ Len(s \o t) = Len(s) + Len(t)
  OBVIOUS
<1>2. /\ DOMAIN s = 1..Len(s) /\ DOMAIN t = 1..Len(t) /\ DOMAIN (s \o t) = 1..(Len(s) + Len(t))
  BY <1>1
<1>3. \A i \in 1..Len(s) : s[i] \in Int /\ (s \o t)[i] = s[i]
  OBVIOUS
<1>4. \A i \in 1..Len(t) : t[i] \in Int /\ (s \o t)[Len(s) + i] = t[i]
  OBVIOUS
<1>5. \A i \in 1..(Len(s) + Len(t)) : i \notin 1..Len(s) => i - Len(s) \in 1..Len(t) /\ (s \o t)[i] = t[i - Len(s)]
  OBVIOUS
<1> QED
  BY <1>1, <1>2, <1>3, <1>4, <1>5

LEMMA BelowJoined ==
  ASSUME NEW s \in Seq(Int), NEW t \in Seq(Int), NEW n \in Int
  PROVE  AllBelow(s \o t, n) <=> AllBelow(s, n) /\ AllBelow(t, n)
<1> DEFINE u == s \o t
<1>1. /\ Len(s) \in Nat /\ Len(t) \in Nat
      /\ DOMAIN s = 1..Len(s) /\ DOMAIN t = 1..Len(t) /\ DOMAIN u = 1..(Len(s) + Len(t))
      /\ \A i \in 1..Len(s) : u[i] = s[i]
      /\ \A i \in 1..Len(t) : u[Len(s) + i] = t[i]
      /\ \A i \in 1..(Len(s) + Len(t)) : i \notin 1..Len(s) => i - Len(s) \in 1..Len(t) /\ u[i] = t[i - Len(s)]
  BY Joined
<1> HIDE DEF u
<1>2. ASSUME AllBelow(u, n) PROVE AllBelow(s, n) /\ AllBelow(t, n)
  <2>1. \A i \in 1..Len(s) : i \in 1..(Len(s) + Len(t))
    BY <1>1
  <2>2. \A i \in 1..Len(t) : Len(s) + i \in 1..(Len(s) + Len(t))
    BY <1>1
  <2> QED
    BY <1>1, <1>2, <2>1, <2>2 DEF AllBelow
<1>3. ASSUME AllBelow(s, n), AllBelow(t, n) PROVE AllBelow(u, n)
  BY <1>1, <1>3 DEF AllBelow
<1> QED
  BY <1>2, <1>3 DEF u

LEMMA BeforeJoined ==
  ASSUME NEW s \in Seq(Int), NEW t \in Seq(Int), NEW v \in Seq(Int)
  PROVE  /\ Before(s \o t, v) <=> Before(s, v) /\ Before(t, v)
         /\ Before(v, s \o t) <=> Before(v, s) /\ Before(v, t)
<1> DEFINE u == s \o t
<1>1. /\ Len(s) \in Nat /\ Len(t) \in Nat
      /\ DOMAIN s = 1..Len(s) /\ DOMAIN t = 1..Len(t) /\ DOMAIN u = 1..(Len(s) + Len(t))
      /\ \A i \in 1..Len(s) : u[i] = s[i]
      /\ \A i \in 1..Len(t) : u[Len(s) + i] = t[i]
      /\ \A i \in 1..(Len(s) + Len(t)) : i \notin 1..Len(s) => i - Len(s) \in 1..Len(t) /\ u[i] = t[i - Len(s)]
  BY Joined
<1> HIDE DEF u
<1>2. /\ \A i \in 1..Len(s) : i \in 1..(Len(s) + Len(t))
      /\ \A i \in 1..Len(t) : Len(s) + i \in 1..(Len(s) + Len(t))
  BY <1>1
<1>3. \A i \in DOMAIN s : i \in DOMAIN u /\ u[i] = s[i]
  BY <1>1, <1>2
<1>4. \A i \in DOMAIN t : \E j \in DOMAIN u : u[j] = t[i]
  BY <1>1, <1>2
<1>5. \A i \in DOMAIN u : (i \in DOMAIN s /\ u[i] = s[i]) \/ (\E j \in DOMAIN t : u[i] = t[j])
  BY <1>1
<1>6. Before(u, v) <=> Before(s, v) /\ Before(t, v)
  BY <1>3, <1>4, <1>5, Zenon DEF Before
<1>7. Before(v, u) <=> Before(v, s) /\ Before(v, t)
  BY <1>3, <1>4, <1>5, Zenon DEF Before
<1> QED
  BY <1>6, <1>7 DEF u

LEMMA IncreasingJoined ==
  ASSUME NEW s \in Seq(Int), NEW t \in Seq(Int)
  PROVE  Increasing(s \o t) <=> Increasing(s) /\ Increasing(t) /\ Before(s, t)
<1> DEFINE u == s \o t
<1>1. /\ Len(s) \in Nat /\ Len(t) \in Nat
      /\ DOMAIN s = 1..Len(s) /\ DOMAIN t = 1..Len(t) /\ DOMAIN u = 1..(Len(s) + Len(t))
      /\ \A i \in 1..Len(s) : u[i] = s[i]
      /\ \A i \in 1..Len(t) : u[Len(s) + i] = t[i]
      /\ \A i \in 1..(Len(s) + Len(t)) : i \notin 1..Len(s) => i - Len(s) \in 1..Len(t) /\ u[i] = t[i - Len(s)]
  BY Joined
<1> HIDE DEF u
<1>2. ASSUME Increasing(u) PROVE Increasing(s) /\ Increasing(t) /\ Before(s, t)
  <2>1. /\ \A i \in 1..Len(s) : i \in 1..(Len(s) + Len(t))
        /\ \A i \in 1..Len(t) : Len(s) + i \in 1..(Len(s) + Len(t))
    BY <1>1
  <2>2. Increasing(s)
    BY <1>1, <1>2, <2>1 DEF Increasing
  <2>3. Increasing(t)
    <3> SUFFICES ASSUME NEW i \in 1..Len(t), NEW j \in 1..Len(t), i < j PROVE t[i] < t[j]
      BY <1>1 DEF Increasing
    <3>1. /\ Len(s) + i < Len(s) + j
          /\ Len(s) + i \in DOMAIN u /\ Len(s) + j \in DOMAIN u
          /\ u[Len(s) + i] = t[i] /\ u[Len(s) + j] = t[j]
      BY <1>1, <2>1
    <3>2. u[Len(s) + i] < u[Len(s) + j]
      BY <1>2, <3>1 DEF Increasing
    <3> QED
      BY <3>1, <3>2
  <2>4. Before(s, t)
    <3> SUFFICES ASSUME NEW i \in 1..Len(s), NEW j \in 1..Len(t) PROVE s[i] < t[j]
      BY <1>1 DEF Before
    <3>1. i < Len(s) + j
      BY <1>1
    <3> QED
      BY <1>1, <1>2, <2>1, <3>1 DEF Increasing
  <2> QED
    BY <2>2, <2>3, <2>4
<1>3. ASSUME Increasing(s), Increasing(t), Before(s, t) PROVE Increasing(u)
  <2> SUFFICES ASSUME NEW i \in DOMAIN u, NEW j \in DOMAIN u, i < j PROVE u[i] < u[j]
    BY DEF Increasing
  <2>1. CASE j \in 1..Len(s)
    BY <1>1, <1>3, <2>1 DEF Increasing
  <2>2. CASE i \in 1..Len(s) /\ j \notin 1..Len(s)
    BY <1>1, <1>3, <2>2 DEF Before
  <2>3. CASE i \notin 1..Len(s) /\ j \notin 1..Len(s)
    <3>1. /\ i - Len(s) \in 1..Len(t) /\ u[i] = t[i - Len(s)]
          /\ j - Len(s) \in 1..Len(t) /\ u[j] = t[j - Len(s)]
          /\ i - Len(s) < j - Len(s)
      BY <1>1, <2>3
    <3> QED
      BY <1>1, <1>3, <3>1 DEF Increasing
  <2> QED
    BY <1>1, <2>1, <2>2, <2>3
<1> QED
  BY <1>2, <1>3 DEF u

\* One more at the end.
LEMMA OneMore ==
  ASSUME NEW x \in Int, NEW s \in Seq(Int)
  PROVE  /\ Append(s, x) = s \o <<x>> /\ <<x>> \in Seq(Int) /\ Increasing(<<x>>)
         /\ \A n \in Int : AllBelow(<<x>>, n) <=> x < n
         /\ Before(s, <<x>>) <=> AllBelow(s, x)
<1>1. Append(s, x) = s \o <<x>> /\ <<x>> \in Seq(Int)
  OBVIOUS
<1>2. DOMAIN <<x>> = {1} /\ <<x>>[1] = x
  OBVIOUS
<1>3. Increasing(<<x>>)
  BY <1>2 DEF Increasing
<1>4. /\ \A n \in Int : AllBelow(<<x>>, n) <=> x < n
      /\ Before(s, <<x>>) <=> AllBelow(s, x)
  BY <1>2 DEF AllBelow, Before
<1> QED
  BY <1>1, <1>3, <1>4

-----------------------------------------------------------------------------
FlowType == [held : {0} \cup Frames, cache : Seq(Frames), keyPos : BOOLEAN, gop : Seq(Frames),
             out : Seq(Frames)]

\* What the PacketCache will hold when the merger has let its frame go.
Handed(f) == IF f.held = 0 THEN f.cache ELSE Append(f.cache, f.held)

LEMMA FlushSplits ==
  ASSUME NEW f \in FlowType, f.out = <<>>
  PROVE  /\ Flush(f) \in FlowType
         /\ Flush(f).held = f.held /\ Flush(f).cache = <<>> /\ Flush(f).out = f.cache
         /\ Flush(f).gop \in {f.gop \o f.cache, f.cache, <<>>}
<1>1. CASE f.cache = <<>>
  <2>1. f.gop \in Seq(Frames)
    BY DEF FlowType
  <2>2. f.gop \o <<>> = f.gop
    BY <2>1
  <2> QED
    BY <1>1, <2>2 DEF Flush
<1>2. CASE f.cache # <<>>
  <2> DEFINE gop == Kept(f.gop, f.cache, f.keyPos)
  <2>1. /\ f.held \in {0} \cup Frames /\ f.cache \in Seq(Frames) /\ f.gop \in Seq(Frames)
        /\ f.keyPos \in BOOLEAN
    BY DEF FlowType
  <2>2. gop \in {f.gop \o f.cache, f.cache, <<>>}
    BY DEF Kept
  <2>3. gop \in Seq(Frames)
    <3>1. f.gop \o f.cache \in Seq(Frames) /\ <<>> \in Seq(Frames)
      BY <2>1
    <3> QED
      BY <2>1, <2>2, <3>1
  <2>4. f.out \o f.cache = f.cache
    BY <2>1
  <2>5. Flush(f) = [f EXCEPT !.gop = gop, !.keyPos = FALSE, !.out = f.cache, !.cache = <<>>]
    BY <1>2, <2>4 DEF Flush
  <2> HIDE DEF gop
  <2>6. /\ Flush(f).held = f.held /\ Flush(f).cache = <<>> /\ Flush(f).out = f.cache
        /\ Flush(f).gop = gop /\ Flush(f) \in FlowType
    BY <2>1, <2>3, <2>5 DEF FlowType
  <2> QED
    BY <2>2, <2>6
<1> QED
  BY <1>1, <1>2

\* What the PacketCache makes of a frame: some of what it holds goes out, the
\* rest stays, and the ring keeps an end of what has gone out.
LEMMA InputSplits ==
  ASSUME NEW f \in FlowType, f.out = <<>>, Len(f.cache) <= CacheCap,
         NEW n \in Frames, NEW due \in BOOLEAN
  PROVE  LET g == InputPacket(f, n, due)
         IN  /\ g \in FlowType /\ g.held = f.held /\ Len(g.cache) <= CacheCap
             /\ g.out \o g.cache = Append(f.cache, n)
             /\ g.gop \in {f.gop \o g.out, g.out, <<>>}
<1> DEFINE flushes == ~Immediate /\ (Key(n) \/ due \/ Len(f.cache) >= CacheCap)
           ahead == IF flushes THEN Flush(f) ELSE f
           put == [ahead EXCEPT !.cache = Append(@, n), !.keyPos = @ \/ Key(n)]
           g == InputPacket(f, n, due)
<1>1. /\ f.held \in {0} \cup Frames /\ f.cache \in Seq(Frames) /\ f.gop \in Seq(Frames)
      /\ f.keyPos \in BOOLEAN /\ f.gop \o <<>> = f.gop
  BY DEF FlowType
<1>2. CacheCap \in Nat /\ CacheCap > 0
  BY OnDemandAssumption
<1>3. g = IF Immediate THEN Flush(put) ELSE put
  BY DEF InputPacket
<1>4. ahead \in FlowType /\ ahead.held = f.held
  BY FlushSplits
<1>5. ASSUME NEW a \in FlowType, a.held = f.held, put = [a EXCEPT !.cache = Append(@, n), !.keyPos = @ \/ Key(n)]
      PROVE  /\ put \in FlowType /\ put.held = f.held /\ put.cache = Append(a.cache, n)
             /\ put.out = a.out /\ put.gop = a.gop /\ Len(put.cache) = Len(a.cache) + 1
  <2>1. a.keyPos \in BOOLEAN /\ Key(n) \in BOOLEAN /\ a.cache \in Seq(Frames)
    BY DEF FlowType, Key
  <2>2. (a.keyPos \/ Key(n)) \in BOOLEAN /\ Append(a.cache, n) \in Seq(Frames)
    BY <2>1
  <2> DEFINE b == (a.keyPos \/ Key(n))
             c == Append(a.cache, n)
  <2>3. put = [a EXCEPT !.cache = c, !.keyPos = b]
    BY <1>5
  <2>4. b \in BOOLEAN /\ c \in Seq(Frames) /\ Len(c) = Len(a.cache) + 1
    BY <2>1, <2>2
  <2> HIDE DEF b, c, put
  <2>5. put \in FlowType /\ put.held = f.held /\ put.cache = c /\ put.out = a.out /\ put.gop = a.gop
    BY <1>5, <2>3, <2>4 DEF FlowType
  <2> QED
    BY <2>4, <2>5 DEF c
<1> HIDE DEF put, g
<1>6. CASE Immediate
  <2>1. ahead = f
    BY <1>6
  <2>2. /\ put \in FlowType /\ put.held = f.held /\ put.cache = Append(f.cache, n)
        /\ put.out = <<>> /\ put.gop = f.gop
    BY <1>5, <2>1 DEF put
  <2>3. /\ g \in FlowType /\ g.held = f.held /\ g.cache = <<>> /\ g.out = put.cache
        /\ g.gop \in {f.gop \o put.cache, put.cache, <<>>}
    BY <1>3, <1>6, <2>2, FlushSplits
  <2>4. put.cache \o <<>> = put.cache /\ Len(<<>>) <= CacheCap
    BY <1>1, <1>2, <2>2
  <2> QED
    BY <2>2, <2>3, <2>4 DEF g
<1>7. CASE ~Immediate /\ flushes
  <2> DEFINE a == Flush(f)
  <2>1. /\ a \in FlowType /\ a.held = f.held /\ a.cache = <<>> /\ a.out = f.cache
        /\ a.gop \in {f.gop \o f.cache, f.cache, <<>>}
    BY FlushSplits
  <2>2. ahead = a
    BY <1>7
  <2> HIDE DEF a
  <2>3. /\ g \in FlowType /\ g.held = f.held /\ g.cache = Append(<<>>, n)
        /\ g.out = f.cache /\ g.gop = a.gop /\ Len(g.cache) = 0 + 1
    BY <1>3, <1>5, <1>7, <2>1, <2>2 DEF put
  <2>4. f.cache \o Append(<<>>, n) = Append(f.cache, n)
    BY <1>1
  <2>5. Len(g.cache) <= CacheCap
    BY <1>2, <2>3
  <2>6. g.out \o g.cache = Append(f.cache, n)
    BY <2>3, <2>4
  <2>7. g.gop \in {f.gop \o g.out, g.out, <<>>}
    BY <2>1, <2>3
  <2> QED
    BY <2>3, <2>5, <2>6, <2>7 DEF g
<1>8. CASE ~Immediate /\ ~flushes
  <2>1. ahead = f /\ Len(f.cache) < CacheCap
    BY <1>1, <1>2, <1>8
  <2>2. /\ g \in FlowType /\ g.held = f.held /\ g.cache = Append(f.cache, n)
        /\ g.out = <<>> /\ g.gop = f.gop /\ Len(g.cache) = Len(f.cache) + 1
    BY <1>3, <1>5, <1>8, <2>1 DEF put
  <2>3. <<>> \o Append(f.cache, n) = Append(f.cache, n) /\ Len(f.cache) \in Nat
    BY <1>1
  <2> QED
    BY <1>1, <1>2, <2>1, <2>2, <2>3 DEF g
<1> QED
  BY <1>6, <1>7, <1>8

LEMMA MergeSplits ==
  ASSUME NEW f \in FlowType, f.out = <<>>, Len(f.cache) <= CacheCap,
         f.held = 0 => f.cache = <<>>,
         NEW n \in Frames, NEW due \in BOOLEAN
  PROVE  LET g == Merge(f, n, due)
         IN  /\ g \in FlowType /\ g.held = n /\ Len(g.cache) <= CacheCap
             /\ g.out \o g.cache = Handed(f)
             /\ g.gop \in {f.gop \o g.out, g.out, <<>>}
<1> DEFINE next == [f EXCEPT !.held = n]
<1>1. /\ next \in FlowType /\ next.held = n /\ next.out = <<>> /\ next.cache = f.cache
      /\ next.gop = f.gop
  BY DEF FlowType
<1>2. Merge(f, n, due) = IF f.held = 0 THEN next ELSE InputPacket(next, f.held, due)
  BY DEF Merge
<1> HIDE DEF next
<1>3. CASE f.held = 0
  <2>1. <<>> \o <<>> = <<>> /\ f.gop \o <<>> = f.gop
    BY DEF FlowType
  <2> QED
    BY <1>1, <1>2, <1>3, <2>1 DEF Handed
<1>4. CASE f.held # 0
  <2>1. f.held \in Frames
    BY <1>4 DEF FlowType
  <2> DEFINE g == InputPacket(next, f.held, due)
  <2>2. /\ g \in FlowType /\ g.held = next.held /\ Len(g.cache) <= CacheCap
        /\ g.out \o g.cache = Append(next.cache, f.held)
        /\ g.gop \in {next.gop \o g.out, g.out, <<>>}
    BY <1>1, <2>1, InputSplits
  <2> HIDE DEF g
  <2>3. Merge(f, n, due) = g
    BY <1>2, <1>4 DEF g
  <2> QED
    BY <1>1, <1>4, <2>2, <2>3 DEF Handed
<1> QED
  BY <1>3, <1>4

-----------------------------------------------------------------------------
\* A list from which one may go on with what the PacketCache and the merger
\* hold: in order, and all of it before those.
Follows(s, f) == Increasing(s) /\ Before(s, f.cache) /\ AllBelow(s, f.held)

Ordered(f, n) ==
  /\ f \in FlowType /\ f.out = <<>>
  /\ Follows(f.gop, f)
  /\ Increasing(f.cache) /\ AllBelow(f.cache, f.held)
  /\ f.held <= n
  /\ Len(f.cache) <= CacheCap

LEMMA FramesAreInts ==
  /\ \A x \in Frames : x \in Int /\ x > 0
  /\ \A s \in Seq(Frames) : s \in Seq(Int) /\ \A i \in DOMAIN s : s[i] \in Int /\ s[i] > 0
<1>1. \A x \in Frames : x \in Int /\ x > 0
  BY OnDemandAssumption DEF Frames
<1>2. ASSUME NEW s \in Seq(Frames)
      PROVE  s \in Seq(Int) /\ \A i \in DOMAIN s : s[i] \in Int /\ s[i] > 0
  <2>1. s \in [1..Len(s) -> Frames] /\ Len(s) \in Nat
    OBVIOUS
  <2>2. \A i \in 1..Len(s) : s[i] \in Int /\ s[i] > 0
    BY <1>1, <2>1
  <2>3. s \in [1..Len(s) -> Int]
    BY <2>1, <2>2
  <2>4. s \in Seq(Int)
    BY <2>1, <2>3, SeqDef
  <2> QED
    BY <2>1, <2>2, <2>4
<1> QED
  BY <1>1, <1>2

LEMMA OrderedHas ==
  ASSUME NEW f, NEW n, Ordered(f, n)
  PROVE  /\ f \in FlowType /\ f.out = <<>> /\ Len(f.cache) <= CacheCap
         /\ f.gop \in Seq(Frames) /\ f.cache \in Seq(Frames)
         /\ f.held \in {0} \cup Frames /\ f.held \in Int /\ f.held <= n
         /\ Follows(f.gop, f) /\ Increasing(f.cache) /\ AllBelow(f.cache, f.held)
<1>1. /\ f \in FlowType /\ f.out = <<>> /\ Len(f.cache) <= CacheCap /\ f.held <= n
      /\ Follows(f.gop, f) /\ Increasing(f.cache) /\ AllBelow(f.cache, f.held)
  BY DEF Ordered
<1>2. /\ f.gop \in Seq(Frames) /\ f.cache \in Seq(Frames) /\ f.held \in {0} \cup Frames
  BY <1>1 DEF FlowType
<1>3. f.held \in Int
  BY <1>2, FramesAreInts
<1> QED
  BY <1>1, <1>2, <1>3

LEMMA Nothing ==
  /\ \A f : Follows(<<>>, f)
  /\ \A s \in Seq(Frames) : AllBelow(s, 0) => s = <<>>
<1>1. DOMAIN <<>> = {}
  OBVIOUS
<1>2. ASSUME NEW s \in Seq(Frames), AllBelow(s, 0), s # <<>> PROVE FALSE
  <2>1. 1 \in DOMAIN s
    BY <1>2
  <2>2. s[1] \in Int /\ s[1] > 0 /\ s[1] < 0
    BY <1>2, <2>1, FramesAreInts DEF AllBelow
  <2> QED
    BY <2>2
<1> QED
  BY <1>1, <1>2 DEF Follows, Increasing, Before, AllBelow

LEMMA ClearKeeps ==
  ASSUME NEW f, NEW n, Ordered(f, n)
  PROVE  /\ Ordered(ClearCache(f), n)
         /\ ClearCache(f).cache = <<>> /\ ClearCache(f).gop = <<>> /\ ClearCache(f).held = f.held
         /\ \A s : Follows(s, f) => Follows(s, ClearCache(f))
<1> DEFINE g == ClearCache(f)
<1>1. f \in FlowType
  BY DEF Ordered
<1>2. /\ g \in FlowType /\ g.cache = <<>> /\ g.gop = <<>> /\ g.held = f.held /\ g.out = f.out
  <2>1. <<>> \in Seq(Frames)
    OBVIOUS
  <2> QED
    BY <1>1, <2>1 DEF ClearCache, FlowType
<1> HIDE DEF g
<1>3. DOMAIN g.cache = {} /\ Len(g.cache) = 0
  BY <1>2
<1>4. \A s : Follows(s, f) => Follows(s, g)
  BY <1>2, <1>3 DEF Follows, Before
<1>5. Increasing(g.cache) /\ AllBelow(g.cache, g.held) /\ Len(g.cache) <= CacheCap
  BY <1>3, OnDemandAssumption DEF Increasing, AllBelow
<1>6. Ordered(g, n)
  BY <1>2, <1>5, Nothing DEF Ordered
<1> QED
  BY <1>2, <1>4, <1>6 DEF g

LEMMA HandedFollows ==
  ASSUME NEW f, NEW n \in Int, Ordered(f, n)
  PROVE  /\ Handed(f) \in Seq(Frames) /\ Increasing(Handed(f))
         /\ \A m \in Int : n < m => AllBelow(Handed(f), m)
         /\ \A s \in Seq(Frames) : Follows(s, f) => Before(s, Handed(f))
<1>1. /\ f.cache \in Seq(Frames) /\ f.held \in {0} \cup Frames /\ f.held \in Int
      /\ Increasing(f.cache) /\ AllBelow(f.cache, f.held) /\ f.held <= n
  BY OrderedHas
<1>2. \A s \in Seq(Frames) : s \in Seq(Int)
  BY FramesAreInts
<1>3. \A m \in Int, s \in Seq(Frames) : AllBelow(s, f.held) /\ f.held < m => AllBelow(s, m)
  <2>1. \A s \in Seq(Frames) : \A i \in DOMAIN s : s[i] \in Int
    BY <1>2
  <2> QED
    BY <1>1, <2>1 DEF AllBelow
<1>4. CASE f.held = 0
  BY <1>1, <1>3, <1>4 DEF Handed, Follows
<1>5. CASE f.held # 0
  <2> DEFINE x == f.held
  <2>1. Handed(f) = f.cache \o <<x>> /\ x \in Frames
    BY <1>1, <1>5 DEF Handed
  <2>2. /\ x \in Int /\ <<x>> \in Seq(Int) /\ Increasing(<<x>>)
        /\ \A m \in Int : AllBelow(<<x>>, m) <=> x < m
        /\ \A s \in Seq(Int) : Before(s, <<x>>) <=> AllBelow(s, x)
    <3>1. x \in Int /\ <<>> \in Seq(Int)
      BY <1>1
    <3> HIDE DEF x
    <3> QED
      BY <3>1, OneMore
  <2>3. Increasing(f.cache \o <<x>>)
    BY <1>1, <1>2, <2>2, IncreasingJoined
  <2>4. ASSUME NEW m \in Int, n < m
        PROVE  AllBelow(f.cache \o <<x>>, m)
    <3>1. x < m
      BY <1>1, <2>2, <2>4
    <3>2. AllBelow(f.cache, m) /\ AllBelow(<<x>>, m)
      BY <1>1, <1>3, <2>2, <3>1
    <3> QED
      BY <1>1, <1>2, <2>2, <3>2, BelowJoined
  <2>5. \A s \in Seq(Frames) : Follows(s, f) => Before(s, f.cache \o <<x>>)
    BY <1>1, <1>2, <2>2, BeforeJoined DEF Follows
  <2>6. f.cache \o <<x>> \in Seq(Frames)
    BY <1>1, <2>1
  <2> QED
    BY <2>1, <2>3, <2>4, <2>5, <2>6
<1> QED
  BY <1>4, <1>5

LEMMA MergeFollows ==
  ASSUME NEW f, NEW s \in Int, Ordered(f, s), NEW n \in Frames, s < n, NEW due \in BOOLEAN
  PROVE  LET g == Merge(f, n, due)
         IN  /\ Ordered([g EXCEPT !.out = <<>>], n)
             /\ g.out \in Seq(Frames)
             /\ \A x \in Seq(Frames) : Follows(x, f) => Follows(x \o g.out, g)
<1> DEFINE g == Merge(f, n, due)
           h == [g EXCEPT !.out = <<>>]
<1>1. /\ f \in FlowType /\ f.out = <<>> /\ Len(f.cache) <= CacheCap /\ f.gop \in Seq(Frames)
      /\ f.cache \in Seq(Frames) /\ f.held \in Int /\ f.held <= s
      /\ Follows(f.gop, f)
  BY OrderedHas
<1>2. f.held = 0 => f.cache = <<>>
  BY <1>1, Nothing DEF Ordered
<1>3. /\ g \in FlowType /\ g.held = n /\ Len(g.cache) <= CacheCap
      /\ g.out \o g.cache = Handed(f)
      /\ g.gop \in {f.gop \o g.out, g.out, <<>>}
  BY <1>1, <1>2, MergeSplits
<1> HIDE DEF g
<1>4. g.out \in Seq(Frames) /\ g.cache \in Seq(Frames)
  BY <1>3 DEF FlowType
<1>5. \A x \in Seq(Frames) : x \in Seq(Int)
  BY FramesAreInts
<1>6. n \in Int
  BY FramesAreInts
<1>7. /\ Increasing(g.out) /\ Increasing(g.cache) /\ Before(g.out, g.cache)
      /\ AllBelow(g.out, n) /\ AllBelow(g.cache, n)
  <2> DEFINE a == g.out
             b == g.cache
  <2>1. a \in Seq(Int) /\ b \in Seq(Int) /\ a \o b = Handed(f)
    BY <1>3, <1>4, <1>5
  <2>2. Increasing(Handed(f)) /\ AllBelow(Handed(f), n)
    BY <1>6, HandedFollows
  <2> HIDE DEF a, b
  <2>3. Increasing(a) /\ Increasing(b) /\ Before(a, b)
    BY <2>1, <2>2, IncreasingJoined
  <2>4. AllBelow(a, n) /\ AllBelow(b, n)
    BY <1>6, <2>1, <2>2, BelowJoined
  <2> QED
    BY <2>3, <2>4 DEF a, b
<1>8. ASSUME NEW x \in Seq(Frames), Follows(x, f)
      PROVE  Before(x, g.out) /\ Before(x, g.cache)
  <2> DEFINE a == g.out
             b == g.cache
  <2>1. a \in Seq(Int) /\ b \in Seq(Int) /\ a \o b = Handed(f) /\ x \in Seq(Int)
    BY <1>3, <1>4, <1>5
  <2>2. Before(x, Handed(f))
    BY <1>8, HandedFollows
  <2> HIDE DEF a, b
  <2>4. Before(x, a \o b)
    BY <2>1, <2>2
  <2>3. Before(x, a) /\ Before(x, b)
    BY <2>1, <2>4, BeforeJoined
  <2> QED
    BY <2>3 DEF a, b
<1>9. \A x \in Seq(Frames) : Follows(x, f) => AllBelow(x, n)
  <2>1. \A x \in Seq(Frames) : \A i \in DOMAIN x : x[i] \in Int
    BY <1>5
  <2> QED
    BY <1>1, <1>6, <2>1 DEF Follows, AllBelow
<1>10. ASSUME NEW x \in Seq(Frames), Follows(x, f)
       PROVE  Follows(x \o g.out, g)
  <2>1. Increasing(x \o g.out)
    BY <1>4, <1>5, <1>7, <1>8, <1>10, IncreasingJoined DEF Follows
  <2>2. Before(x \o g.out, g.cache)
    BY <1>4, <1>5, <1>7, <1>8, <1>10, BeforeJoined
  <2>3. AllBelow(x \o g.out, n)
    BY <1>4, <1>5, <1>6, <1>7, <1>9, <1>10, BelowJoined
  <2> QED
    BY <1>3, <2>1, <2>2, <2>3 DEF Follows
<1>11. Follows(g.gop, g)
  <2>1. Follows(f.gop \o g.out, g)
    BY <1>1, <1>10
  <2>2. Follows(g.out, g)
    BY <1>3, <1>7 DEF Follows
  <2>3. Follows(<<>>, g)
    BY Nothing
  <2> QED
    BY <1>3, <2>1, <2>2, <2>3
<1>12. Ordered(h, n)
  <2>0. <<>> \in Seq(Frames)
    OBVIOUS
  <2>1. /\ h \in FlowType /\ h.out = <<>> /\ h.gop = g.gop /\ h.cache = g.cache /\ h.held = n
    BY <1>3, <2>0 DEF FlowType
  <2> HIDE DEF h
  <2>2. Follows(h.gop, h)
    BY <1>3, <1>11, <2>1 DEF Follows
  <2>3. n <= n
    BY <1>6
  <2> QED
    BY <1>3, <1>7, <2>1, <2>2, <2>3 DEF Ordered
<1> QED
  BY <1>4, <1>10, <1>12 DEF g

-----------------------------------------------------------------------------
\* All but the first are the last ones up to n.
TailRun(s, n) == \A i \in 2..Len(s) : s[i] = n - (Len(s) - i)

WaitOf(f) == f.gop \o f.cache \o (IF f.held = 0 THEN <<>> ELSE <<f.held>>)

LEMMA TailRunGrows ==
  ASSUME NEW s \in Seq(Int), NEW n \in Int, TailRun(s, n)
  PROVE  TailRun(Append(s, n + 1), n + 1)
<1> DEFINE t == Append(s, n + 1)
<1>1. /\ Len(s) \in Nat /\ Len(t) = Len(s) + 1 /\ t[Len(s) + 1] = n + 1
      /\ \A i \in 1..Len(s) : t[i] = s[i] /\ s[i] \in Int
  OBVIOUS
<1> HIDE DEF t
<1>2. ASSUME NEW i \in 2..Len(t) PROVE t[i] = (n + 1) - (Len(t) - i)
  <2>1. CASE i = Len(s) + 1
    BY <1>1, <2>1
  <2>2. CASE i # Len(s) + 1
    <3>1. i \in 2..Len(s) /\ i \in 1..Len(s)
      BY <1>1, <2>2
    <3>2. s[i] = n - (Len(s) - i)
      BY <3>1 DEF TailRun
    <3> QED
      BY <1>1, <3>1, <3>2
  <2> QED
    BY <2>1, <2>2
<1> QED
  BY <1>2 DEF TailRun, t

LEMMA TailRunSuffix ==
  ASSUME NEW s \in Seq(Int), NEW t \in Seq(Int), NEW n \in Int, TailRun(t \o s, n)
  PROVE  TailRun(s, n)
<1> DEFINE u == t \o s
<1>1. /\ Len(s) \in Nat /\ Len(t) \in Nat /\ Len(u) = Len(t) + Len(s)
      /\ \A i \in 1..Len(s) : u[Len(t) + i] = s[i]
  BY Joined
<1>2. TailRun(u, n)
  OBVIOUS
<1> HIDE DEF u
<1>3. ASSUME NEW i \in 2..Len(s) PROVE s[i] = n - (Len(s) - i)
  <2>1. Len(t) + i \in 2..Len(u) /\ u[Len(t) + i] = s[i]
    BY <1>1
  <2>2. u[Len(t) + i] = n - (Len(u) - (Len(t) + i))
    BY <1>2, <2>1 DEF TailRun
  <2> QED
    BY <1>1, <2>1, <2>2
<1> QED
  BY <1>3 DEF TailRun

LEMMA Regroup ==
  ASSUME NEW a \in Seq(Frames), NEW b \in Seq(Frames), NEW c \in Seq(Frames)
  PROVE  (a \o b) \o c = a \o (b \o c)
  OBVIOUS

LEMMA WaitIsHanded ==
  ASSUME NEW f \in FlowType
  PROVE  WaitOf(f) = f.gop \o Handed(f) /\ Handed(f) \in Seq(Frames) /\ WaitOf(f) \in Seq(Frames)
<1>1. f.gop \in Seq(Frames) /\ f.cache \in Seq(Frames) /\ f.held \in {0} \cup Frames
  BY DEF FlowType
<1>2. CASE f.held = 0
  <2>1. f.gop \o f.cache \in Seq(Frames) /\ (f.gop \o f.cache) \o <<>> = f.gop \o f.cache
    BY <1>1
  <2> QED
    BY <1>1, <1>2, <2>1 DEF WaitOf, Handed
<1>3. CASE f.held # 0
  <2>1. <<f.held>> \in Seq(Frames) /\ Append(f.cache, f.held) = f.cache \o <<f.held>>
    BY <1>1, <1>3
  <2>2. (f.gop \o f.cache) \o <<f.held>> = f.gop \o (f.cache \o <<f.held>>)
    BY <1>1, <2>1, Regroup
  <2>3. f.cache \o <<f.held>> \in Seq(Frames)
    BY <1>1, <2>1
  <2>4. f.gop \o (f.cache \o <<f.held>>) \in Seq(Frames)
    BY <1>1, <2>3
  <2> QED
    BY <1>3, <2>1, <2>2, <2>3, <2>4 DEF WaitOf, Handed
<1> QED
  BY <1>2, <1>3

LEMMA MergeWaits ==
  ASSUME NEW f, NEW s \in Int, Ordered(f, s), NEW n \in Frames, s < n, NEW due \in BOOLEAN
  PROVE  \E pre \in Seq(Frames) :
            pre \o WaitOf([Merge(f, n, due) EXCEPT !.out = <<>>]) = Append(WaitOf(f), n)
<1> DEFINE g == Merge(f, n, due)
           h == [g EXCEPT !.out = <<>>]
           H == Handed(f)
<1>1. /\ f \in FlowType /\ f.out = <<>> /\ Len(f.cache) <= CacheCap /\ f.gop \in Seq(Frames)
      /\ f.held = 0 => f.cache = <<>>
  BY OrderedHas, Nothing
<1>2. /\ g \in FlowType /\ g.held = n /\ g.out \o g.cache = H
      /\ g.gop \in {f.gop \o g.out, g.out, <<>>}
  BY <1>1, MergeSplits
<1>3. WaitOf(f) = f.gop \o H /\ H \in Seq(Frames) /\ WaitOf(f) \in Seq(Frames)
  BY <1>1, WaitIsHanded
<1> HIDE DEF g, H
<1>4. g.out \in Seq(Frames) /\ g.cache \in Seq(Frames) /\ <<n>> \in Seq(Frames) /\ <<>> \in Seq(Frames)
  BY <1>2 DEF FlowType
<1>5. n # 0
  BY FramesAreInts
<1>6. WaitOf(h) = g.gop \o g.cache \o <<n>>
  <2>1. h.gop = g.gop /\ h.cache = g.cache /\ h.held = n
    BY <1>2 DEF FlowType
  <2> QED
    BY <1>5, <2>1 DEF WaitOf
<1> HIDE DEF h
<1>7. Append(WaitOf(f), n) = (f.gop \o (g.out \o g.cache)) \o <<n>>
  <2>1. Append(WaitOf(f), n) = WaitOf(f) \o <<n>>
    BY <1>3
  <2> QED
    BY <1>2, <1>3, <2>1
<1> DEFINE a == f.gop
           b == g.out
           c == g.cache
           d == <<n>>
<1>8. a \in Seq(Frames) /\ b \in Seq(Frames) /\ c \in Seq(Frames) /\ d \in Seq(Frames)
  BY <1>1, <1>4
<1>9. Append(WaitOf(f), n) = (a \o (b \o c)) \o d /\ WaitOf(h) = (g.gop \o c) \o d
      /\ g.gop \in {a \o b, b, <<>>}
  BY <1>2, <1>6, <1>7
<1> HIDE DEF a, b, c, d
<1>10. /\ a \o b \in Seq(Frames) /\ b \o c \in Seq(Frames) /\ c \o d \in Seq(Frames) /\ (b \o c) \o d \in Seq(Frames)
  BY <1>8
<1>11. CASE g.gop = a \o b
  <2>1. (a \o b) \o c = a \o (b \o c)
    BY <1>8, Regroup
  <2>2. (a \o (b \o c)) \o d \in Seq(Frames)
    BY <1>8, <1>10
  <2>3. <<>> \o WaitOf(h) = Append(WaitOf(f), n)
    BY <1>9, <1>11, <2>1, <2>2
  <2> QED
    BY <1>4, <2>3 DEF h, g
<1>12. CASE g.gop = b
  <2>1. a \o ((b \o c) \o d) = (a \o (b \o c)) \o d
    <3> DEFINE e == b \o c
    <3>1. e \in Seq(Frames)
      BY <1>10
    <3> HIDE DEF e
    <3>2. (a \o e) \o d = a \o (e \o d)
      BY <1>8, <3>1, Regroup
    <3> QED
      BY <3>2 DEF e
  <2>2. a \o WaitOf(h) = Append(WaitOf(f), n)
    BY <1>9, <1>12, <2>1
  <2> QED
    BY <1>8, <2>2 DEF h, g
<1>13. CASE g.gop = <<>>
  <2>1. <<>> \o c = c
    BY <1>8
  <2>2. (a \o b) \o (c \o d) = ((a \o b) \o c) \o d
    <3> DEFINE e == a \o b
    <3>1. e \in Seq(Frames)
      BY <1>10
    <3> HIDE DEF e
    <3>2. (e \o c) \o d = e \o (c \o d)
      BY <1>8, <3>1, Regroup
    <3> QED
      BY <3>2 DEF e
  <2>3. (a \o b) \o c = a \o (b \o c)
    BY <1>8, Regroup
  <2>4. (a \o b) \o WaitOf(h) = Append(WaitOf(f), n)
    BY <1>9, <1>13, <2>1, <2>2, <2>3
  <2> QED
    BY <1>10, <2>4 DEF h, g
<1> QED
  BY <1>9, <1>11, <1>12, <1>13

\* What one has been given and what waits are what they were, and the new frame.
LEMMA MergeGives ==
  ASSUME NEW f, NEW s \in Int, Ordered(f, s), NEW n \in Frames, s < n, NEW due \in BOOLEAN,
         NEW x \in Seq(Frames)
  PROVE  LET g == Merge(f, n, due)
         IN  /\ g.held = n
             /\ {0} \cup ToSet(x \o g.out) \cup ToSet(g.cache)
                  = {0} \cup ToSet(x) \cup ToSet(f.cache) \cup {f.held}
<1> DEFINE g == Merge(f, n, due)
<1>1. /\ f \in FlowType /\ f.out = <<>> /\ Len(f.cache) <= CacheCap /\ f.cache \in Seq(Frames)
      /\ f.held \in {0} \cup Frames
      /\ f.held = 0 => f.cache = <<>>
  BY OrderedHas, Nothing
<1>2. g \in FlowType /\ g.held = n /\ g.out \o g.cache = Handed(f)
  BY <1>1, MergeSplits
<1> HIDE DEF g
<1>3. g.out \in Seq(Frames) /\ g.cache \in Seq(Frames)
  BY <1>2 DEF FlowType
<1>4. \A a, b \in Seq(Frames) : ToSet(a \o b) = ToSet(a) \cup ToSet(b)
  <2> SUFFICES ASSUME NEW a \in Seq(Frames), NEW b \in Seq(Frames)
               PROVE  ToSet(a \o b) = ToSet(a) \cup ToSet(b)
    OBVIOUS
  <2> DEFINE u == a \o b
  <2>1. /\ Len(a) \in Nat /\ Len(b) \in Nat /\ DOMAIN a = 1..Len(a) /\ DOMAIN b = 1..Len(b)
        /\ DOMAIN u = 1..(Len(a) + Len(b))
        /\ \A i \in 1..Len(a) : u[i] = a[i]
        /\ \A i \in 1..Len(b) : u[Len(a) + i] = b[i]
        /\ \A i \in 1..(Len(a) + Len(b)) : i \notin 1..Len(a) => i - Len(a) \in 1..Len(b) /\ u[i] = b[i - Len(a)]
    BY FramesAreInts, Joined
  <2> HIDE DEF u
  <2>2. /\ \A i \in 1..Len(a) : i \in 1..(Len(a) + Len(b))
        /\ \A i \in 1..Len(b) : Len(a) + i \in 1..(Len(a) + Len(b))
    BY <2>1
  <2>3. \A i \in DOMAIN u : (\E j \in DOMAIN a : u[i] = a[j]) \/ (\E j \in DOMAIN b : u[i] = b[j])
    BY <2>1
  <2>4. /\ \A j \in DOMAIN a : \E i \in DOMAIN u : u[i] = a[j]
        /\ \A j \in DOMAIN b : \E i \in DOMAIN u : u[i] = b[j]
    BY <2>1, <2>2
  <2> QED
    <3>1. \A z : z \in ToSet(a) \cup ToSet(b) <=> z \in ToSet(u)
      BY <2>3, <2>4 DEF ToSet
    <3> QED
      BY <3>1 DEF u
<1>5. ToSet(Handed(f)) = ToSet(g.out) \cup ToSet(g.cache)
  BY <1>2, <1>3, <1>4
<1>6. ToSet(x \o g.out) = ToSet(x) \cup ToSet(g.out)
  BY <1>3, <1>4
<1>7. {0} \cup ToSet(Handed(f)) = {0} \cup ToSet(f.cache) \cup {f.held}
  <2>1. CASE f.held = 0
    BY <2>1 DEF Handed
  <2>2. CASE f.held # 0
    <3>1. f.held \in Frames /\ <<f.held>> \in Seq(Frames) /\ Handed(f) = f.cache \o <<f.held>>
      BY <1>1, <2>2 DEF Handed
    <3>2. ToSet(<<f.held>>) = {f.held}
      BY DEF ToSet
    <3>3. ToSet(f.cache \o <<f.held>>) = ToSet(f.cache) \cup ToSet(<<f.held>>)
      BY <1>1, <1>4, <3>1
    <3> QED
      BY <3>1, <3>2, <3>3
  <2> QED
    BY <2>1, <2>2
<1> QED
  BY <1>2, <1>5, <1>6, <1>7 DEF g

-----------------------------------------------------------------------------
OnDemandTyped ==
  /\ sent \in 0..MaxFrames
  /\ isEnable \in BOOLEAN /\ others \in BOOLEAN /\ enabled \in BOOLEAN /\ clearing \in BOOLEAN
  /\ viewing \subseteq Players /\ IsFiniteSet(viewing)
  /\ counts \in Seq([who : Players, size : Nat])
  /\ got \in [Players -> Seq(Frames)]
  /\ since \in [Players -> 0..MaxFrames]

\* What players were given leads up to what waits.
GivenFollows ==
  \A p \in Players : Follows(got[p], flow) /\ (p \notin viewing => got[p] = <<>>)

\* A muxer that is off and has cleared its caches holds the merger's frame only.
OffIsEmpty == ~enabled /\ ~clearing => flow.cache = <<>> /\ flow.gop = <<>>

\* From the count of a viewer's coming on, the counts in the queue are not of
\* zero; when it has been handled, the muxer is on.
CountsLast ==
  \A p \in viewing : \E i \in 0..Len(counts) :
     /\ i = 0 => enabled
     /\ i > 0 => counts[i].who = p
     /\ \A j \in 1..Len(counts) : i <= j => counts[j].size > 0

\* A list and what waits after it have every frame after s up to n.
Fed(x, s, f, n) ==
  \A m \in Int : (m > s /\ m \in ToSet(x) \cup ToSet(f.cache) \cup {f.held}) <=> m \in (s + 1)..n

ViewerFed ==
  \A p \in Players : /\ since[p] <= sent
                     /\ Settled(p) => (clearing => since[p] = sent) /\ Fed(got[p], since[p], flow, sent)

OnDemandInv ==
  /\ OnDemandTyped
  /\ Ordered(flow, sent)
  /\ CacheIsCurrent
  /\ GivenFollows
  /\ OffIsEmpty
  /\ CountsLast
  /\ ViewerFed

LEMMA SettledIsOn ==
  ASSUME OnDemandTyped, CountsLast, NEW p \in Players, Settled(p)
  PROVE  enabled /\ \A j \in 1..Len(counts) : counts[j].size > 0
<1>1. p \in viewing /\ \A i \in 1..Len(counts) : counts[i].who # p
  BY DEF Settled, OnDemandTyped
<1>2. PICK i \in 0..Len(counts) :
        /\ i = 0 => enabled
        /\ i > 0 => counts[i].who = p
        /\ \A j \in 1..Len(counts) : i <= j => counts[j].size > 0
  BY <1>1 DEF CountsLast
<1>3. Len(counts) \in Nat
  BY DEF OnDemandTyped
<1>4. i = 0
  BY <1>1, <1>2, <1>3
<1> QED
  BY <1>2, <1>3, <1>4

LEMMA CurrentIsTailRun == CacheIsCurrent <=> TailRun(WaitOf(flow), sent)
  BY DEF CacheIsCurrent, TailRun, WaitOf, Waiting

LEMMA ShortIsTailRun ==
  ASSUME NEW f \in FlowType, f.cache = <<>>, f.gop = <<>>, NEW n
  PROVE  TailRun(WaitOf(f), n)
<1>1. f.held \in {0} \cup Frames
  BY DEF FlowType
<1> DEFINE x == f.held
<1>2. WaitOf(f) = IF x = 0 THEN <<>> ELSE <<x>>
  BY DEF WaitOf
<1> HIDE DEF x
<1>3. Len(WaitOf(f)) \in {0, 1}
  BY <1>2
<1> QED
  BY <1>3 DEF TailRun

LEMMA OrderedLater ==
  ASSUME NEW f, NEW s \in Int, NEW n \in Int, Ordered(f, s), s <= n
  PROVE  Ordered(f, n)
<1>1. f.held <= n
  BY OrderedHas
<1> QED
  BY <1>1 DEF Ordered

\* What is there when a frame comes: cleared, if that was due.
Cleared(f) == IF clearing THEN ClearCache(f) ELSE f

LEMMA ClearedKeeps ==
  ASSUME OnDemandInv
  PROVE  /\ Ordered(Cleared(flow), sent)
         /\ TailRun(WaitOf(Cleared(flow)), sent)
         /\ \A p \in Players : Follows(got[p], Cleared(flow))
         /\ ~enabled => Cleared(flow).cache = <<>> /\ Cleared(flow).gop = <<>>
         /\ \A p \in Players : Settled(p) => Fed(got[p], since[p], Cleared(flow), sent)
<1> USE DEF OnDemandInv
<1>1. CASE ~clearing
  <2>1. Cleared(flow) = flow
    BY <1>1 DEF Cleared
  <2> QED
    BY <1>1, <2>1, CurrentIsTailRun DEF GivenFollows, OffIsEmpty, ViewerFed
<1>2. CASE clearing
  <2> DEFINE r == ClearCache(flow)
  <2>1. /\ Ordered(r, sent) /\ r.cache = <<>> /\ r.gop = <<>> /\ r.held = flow.held
        /\ \A s : Follows(s, flow) => Follows(s, r)
    BY ClearKeeps
  <2>2. Cleared(flow) = r
    BY <1>2 DEF Cleared
  <2> HIDE DEF r
  <2>3. TailRun(WaitOf(r), sent)
    BY <2>1, ShortIsTailRun DEF Ordered
  <2>4. \A p \in Players : Follows(got[p], r)
    BY <2>1 DEF GivenFollows
  <2>5. ASSUME NEW p \in Players, Settled(p)
        PROVE  Fed(got[p], since[p], r, sent)
    <3>1. since[p] = sent /\ sent \in Int
      BY <1>2, <2>5 DEF ViewerFed, OnDemandTyped
    <3>2. r.held \in Int /\ r.held <= sent
      BY <2>1, OrderedHas
    <3>3. \A m \in ToSet(got[p]) : m \in Int /\ m <= sent
      <4>1. got[p] \in Seq(Frames) /\ AllBelow(got[p], r.held)
        BY <2>4 DEF OnDemandTyped, Follows
      <4>2. \A i \in DOMAIN got[p] : got[p][i] \in Int /\ got[p][i] < r.held
        BY <4>1, FramesAreInts DEF AllBelow
      <4> QED
        BY <3>1, <3>2, <4>2 DEF ToSet
    <3>4. ToSet(r.cache) = {}
      BY <2>1 DEF ToSet
    <3> QED
      BY <3>1, <3>2, <3>3, <3>4 DEF Fed
  <2> QED
    BY <2>1, <2>2, <2>3, <2>4, <2>5
<1> QED
  BY <1>1, <1>2 DEF OnDemandTyped

LEMMA SendFrameKeeps ==
  ASSUME OnDemandInv, SendFrame
  PROVE  OnDemandInv'
<1> DEFINE n == sent + 1
           r == Cleared(flow)
<1>0. OnDemandTyped /\ Ordered(flow, sent) /\ CacheIsCurrent /\ GivenFollows /\ OffIsEmpty /\ CountsLast /\ ViewerFed
  BY DEF OnDemandInv
<1>1. PICK elapsed \in BOOLEAN, due \in BOOLEAN :
        /\ isEnable' = IsEnabled(elapsed)
        /\ IF isEnable' THEN InputFrame(sent + 1, due) ELSE UNCHANGED <<clearing, flow, got>>
  BY DEF SendFrame
<1>2. /\ sent' = n /\ n \in Frames /\ sent \in Int /\ n \in Int /\ sent < n /\ n \in 0..MaxFrames
      /\ UNCHANGED <<others, enabled, viewing, counts, since>>
  BY <1>0, OnDemandAssumption DEF SendFrame, OnDemandTyped, Frames
<1>3. isEnable' \in BOOLEAN /\ (~isEnable' => ~enabled /\ ~clearing)
  BY <1>0, <1>1 DEF IsEnabled, MuxerEnabled, OnDemandTyped
<1>4. /\ Ordered(r, sent) /\ TailRun(WaitOf(r), sent)
      /\ \A p \in Players : Follows(got[p], r)
      /\ ~enabled => r.cache = <<>> /\ r.gop = <<>>
      /\ \A p \in Players : Settled(p) => Fed(got[p], since[p], r, sent)
  BY ClearedKeeps
<1>5. \A p \in Players : Settled(p)' = Settled(p)
  BY <1>2 DEF Settled
<1>6. \A p \in Players : since[p]' <= sent'
  <2>1. \A p \in Players : since[p] \in Int /\ since[p] <= sent
    BY <1>0 DEF ViewerFed, OnDemandTyped
  <2> QED
    BY <1>2, <2>1
<1>7. CountsLast'
  BY <1>0, <1>2 DEF CountsLast
<1> HIDE DEF r, n
<1>8. CASE ~enabled
  <2>1. \A p \in Players : ~Settled(p)
    BY <1>0, <1>8, SettledIsOn
  <2>2. flow' = r /\ clearing' = FALSE /\ got' = got
    <3>1. CASE ~isEnable'
      BY <1>0, <1>1, <1>3, <3>1 DEF r, Cleared, OnDemandTyped
    <3>2. CASE isEnable'
      <4>1. r \in FlowType /\ r.out = <<>>
        BY <1>4 DEF Ordered
      <4>2. InputFrame(sent + 1, due)
        BY <1>1, <3>2
      <4>3. /\ clearing' = FALSE /\ flow' = [r EXCEPT !.out = <<>>]
            /\ got' = [p \in Players |-> IF p \in viewing THEN got[p] \o r.out ELSE got[p]]
        BY <1>8, <4>2 DEF InputFrame, r, Cleared
      <4>4. [r EXCEPT !.out = <<>>] = r
        BY <4>1 DEF FlowType
      <4>5. \A p \in Players : got[p] \in Seq(Frames) /\ got[p] \o <<>> = got[p]
        BY <1>0 DEF OnDemandTyped
      <4>6. got' = got
        BY <1>0, <4>1, <4>3, <4>5 DEF OnDemandTyped
      <4> QED
        BY <4>3, <4>4, <4>6
    <3> QED
      BY <1>3, <3>1, <3>2
  <2>3. OnDemandTyped'
    BY <1>0, <1>2, <1>3, <2>2 DEF OnDemandTyped
  <2>4. Ordered(flow, sent)'
    BY <1>2, <1>4, <2>2, OrderedLater
  <2>5. r \in FlowType /\ r.cache = <<>> /\ r.gop = <<>>
    BY <1>4, <1>8 DEF Ordered
  <2>6. TailRun(WaitOf(r), n)
    BY <2>5, ShortIsTailRun
  <2>7. CacheIsCurrent'
    BY <1>2, <2>2, <2>6, CurrentIsTailRun DEF TailRun, WaitOf, CacheIsCurrent, Waiting
  <2>8. GivenFollows'
    BY <1>0, <1>2, <1>4, <2>2 DEF GivenFollows, Follows, Before, AllBelow, Increasing
  <2>9. OffIsEmpty'
    BY <2>2, <2>5 DEF OffIsEmpty
  <2>10. ViewerFed'
    BY <1>5, <1>6, <2>1 DEF ViewerFed
  <2> QED
    BY <1>7, <2>3, <2>4, <2>7, <2>8, <2>9, <2>10 DEF OnDemandInv
<1>9. CASE enabled
  <2> DEFINE g == Merge(r, n, due)
             h == [g EXCEPT !.out = <<>>]
  <2>1. isEnable'
    BY <1>3, <1>9
  <2>2. /\ clearing' = FALSE /\ flow' = h
        /\ got' = [p \in Players |-> IF p \in viewing THEN got[p] \o g.out ELSE got[p]]
    BY <1>1, <1>9, <2>1 DEF InputFrame, r, Cleared, n
  <2>3. /\ Ordered(h, n) /\ g.out \in Seq(Frames)
        /\ \A x \in Seq(Frames) : Follows(x, r) => Follows(x \o g.out, g)
    BY <1>2, <1>4, MergeFollows
  <2>4. \E pre \in Seq(Frames) : pre \o WaitOf(h) = Append(WaitOf(r), n)
    BY <1>2, <1>4, MergeWaits
  <2>5. \A x \in Seq(Frames) :
           /\ g.held = n
           /\ {0} \cup ToSet(x \o g.out) \cup ToSet(g.cache)
                = {0} \cup ToSet(x) \cup ToSet(r.cache) \cup {r.held}
    BY <1>2, <1>4, MergeGives
  <2>6. r \in FlowType /\ r.out = <<>> /\ Len(r.cache) <= CacheCap /\ (r.held = 0 => r.cache = <<>>)
    BY <1>4, OrderedHas, Nothing
  <2>7. g \in FlowType
    BY <1>2, <2>6, MergeSplits
  <2> HIDE DEF g
  <2>8. h.cache = g.cache /\ h.held = g.held /\ h.gop = g.gop
    BY <2>7 DEF FlowType
  <2> HIDE DEF h
  <2>9. \A p \in Players : got[p] \in Seq(Frames) /\ got[p] \o g.out \in Seq(Frames)
    BY <1>0, <2>3 DEF OnDemandTyped
  <2>10. OnDemandTyped'
    <3>1. got' \in [Players -> Seq(Frames)]
      BY <2>2, <2>9
    <3> QED
      BY <1>0, <1>2, <1>3, <2>2, <3>1 DEF OnDemandTyped
  <2>11. Ordered(flow, sent)'
    BY <1>2, <2>2, <2>3
  <2>12. CacheIsCurrent'
    <3>1. WaitOf(r) \in Seq(Int) /\ WaitOf(h) \in Seq(Int) /\ \A x \in Seq(Frames) : x \in Seq(Int)
      <4>1. h \in FlowType
        BY <2>3 DEF Ordered
      <4> QED
        BY <2>6, <4>1, WaitIsHanded, FramesAreInts
    <3>2. TailRun(Append(WaitOf(r), n), n)
      BY <1>2, <1>4, <3>1, TailRunGrows DEF n
    <3>3. TailRun(WaitOf(h), n)
      <4>1. PICK pre \in Seq(Frames) : pre \o WaitOf(h) = Append(WaitOf(r), n)
        BY <2>4
      <4>2. TailRun(pre \o WaitOf(h), n)
        BY <3>2, <4>1
      <4> QED
        BY <1>2, <3>1, <4>2, TailRunSuffix
    <3> QED
      BY <1>2, <2>2, <3>3 DEF TailRun, WaitOf, CacheIsCurrent, Waiting
  <2>13. GivenFollows'
    <3> SUFFICES ASSUME NEW p \in Players
                 PROVE  Follows(got'[p], flow') /\ (p \notin viewing' => got'[p] = <<>>)
      BY DEF GivenFollows
    <3>1. CASE p \in viewing
      <4>1. got'[p] = got[p] \o g.out
        BY <2>2, <3>1
      <4>2. Follows(got[p] \o g.out, g)
        BY <1>4, <2>3, <2>9
      <4>3. Follows(got'[p], h)
        BY <2>8, <4>1, <4>2 DEF Follows
      <4> QED
        BY <1>2, <2>2, <3>1, <4>3
    <3>2. CASE p \notin viewing
      <4>1. got'[p] = <<>>
        BY <1>0, <2>2, <3>2 DEF GivenFollows
      <4> QED
        BY <4>1, Nothing
    <3> QED
      BY <3>1, <3>2
  <2>14. OffIsEmpty'
    BY <1>2, <1>9 DEF OffIsEmpty
  <2>15. ViewerFed'
    <3> SUFFICES ASSUME NEW p \in Players, Settled(p)
                 PROVE  Fed(got'[p], since[p], h, n)
      BY <1>2, <1>5, <1>6, <2>2 DEF ViewerFed
    <3>1. p \in viewing
      BY DEF Settled
    <3>2. got'[p] = got[p] \o g.out
      BY <2>2, <3>1
    <3>3. Fed(got[p], since[p], r, sent)
      BY <1>4
    <3>4. since[p] \in Int /\ since[p] >= 0 /\ since[p] <= sent
      BY <1>0 DEF OnDemandTyped, ViewerFed
    <3>5. g.held = n /\ {0} \cup ToSet(got'[p]) \cup ToSet(g.cache)
                          = {0} \cup ToSet(got[p]) \cup ToSet(r.cache) \cup {r.held}
      BY <2>5, <2>9, <3>2
    <3> DEFINE S == ToSet(got'[p]) \cup ToSet(g.cache)
               T == ToSet(got[p]) \cup ToSet(r.cache) \cup {r.held}
    <3>6. ASSUME NEW m \in Int, m > since[p]
          PROVE  (m \in S \cup {n}) <=> m \in (since[p] + 1)..n
      <4>1. m \in S <=> m \in T
        BY <3>4, <3>5, <3>6
      <4>2. m \in T <=> m \in (since[p] + 1)..sent
        BY <3>3, <3>6 DEF Fed
      <4> HIDE DEF S, T
      <4> QED
        BY <1>2, <3>4, <3>6, <4>1, <4>2 DEF n
    <3> HIDE DEF S
    <3>7. ToSet(got'[p]) \cup ToSet(h.cache) \cup {h.held} = S \cup {n}
      BY <2>8, <3>5 DEF S
    <3> QED
      BY <1>2, <3>4, <3>6, <3>7 DEF Fed
  <2> QED
    BY <1>7, <2>10, <2>11, <2>12, <2>13, <2>14, <2>15 DEF OnDemandInv
<1> QED
  BY <1>0, <1>8, <1>9 DEF OnDemandTyped

LEMMA PostKeeps ==
  ASSUME OnDemandTyped, NEW p \in Players, NEW k \in Nat, Post(p, k)
  PROVE  /\ counts' \in Seq([who : Players, size : Nat])
         /\ Len(counts) \in Nat /\ Len(counts') = Len(counts) + 1
         /\ counts'[Len(counts) + 1].who = p /\ counts'[Len(counts) + 1].size = k
         /\ \A j \in 1..Len(counts) : counts'[j] = counts[j]
<1> DEFINE c == [who |-> p, size |-> k]
<1>1. c \in [who : Players, size : Nat] /\ c.who = p /\ c.size = k
  OBVIOUS
<1>2. counts' = Append(counts, c) /\ counts \in Seq([who : Players, size : Nat])
  BY DEF Post, OnDemandTyped
<1> HIDE DEF c
<1> QED
  BY <1>1, <1>2

\* What a viewer's coming and going share: somebody's count is posted.
LEMMA CountsLastKeeps ==
  ASSUME OnDemandTyped, CountsLast, NEW p \in Players, NEW k \in Nat, Post(p, k), UNCHANGED enabled,
         \A q \in viewing' : q # p => q \in viewing,
         viewing' # {} => k > 0
  PROVE  CountsLast'
<1>1. /\ Len(counts) \in Nat /\ Len(counts') = Len(counts) + 1
      /\ counts'[Len(counts) + 1].who = p /\ counts'[Len(counts) + 1].size = k
      /\ \A j \in 1..Len(counts) : counts'[j] = counts[j]
  BY PostKeeps
<1> SUFFICES ASSUME NEW q \in viewing'
             PROVE  \E i \in 0..Len(counts') :
                       /\ i = 0 => enabled'
                       /\ i > 0 => counts'[i].who = q
                       /\ \A j \in 1..Len(counts') : i <= j => counts'[j].size > 0
  BY DEF CountsLast
<1>2. counts'[Len(counts) + 1].size > 0
  BY <1>1
<1>3. CASE q = p
  <2> WITNESS Len(counts') \in 0..Len(counts')
  <2> QED
    BY <1>1, <1>2, <1>3
<1>4. CASE q # p
  <2>1. PICK i \in 0..Len(counts) :
          /\ i = 0 => enabled
          /\ i > 0 => counts[i].who = q
          /\ \A j \in 1..Len(counts) : i <= j => counts[j].size > 0
    BY <1>4 DEF CountsLast
  <2>2. i \in 0..Len(counts')
    BY <1>1
  <2>3. \A j \in 1..Len(counts') : i <= j => counts'[j].size > 0
    BY <1>1, <1>2, <2>1
  <2> QED
    BY <1>1, <2>1, <2>2, <2>3
<1> QED
  BY <1>3, <1>4

LEMMA PostSettles ==
  ASSUME OnDemandTyped, NEW p \in Players, NEW k \in Nat, Post(p, k),
         NEW q \in Players, Settled(q)', q \in viewing' => q \in viewing \/ q = p
  PROVE  q # p /\ Settled(q)
<1>1. /\ Len(counts) \in Nat /\ Len(counts') = Len(counts) + 1
      /\ counts'[Len(counts) + 1].who = p
      /\ \A j \in 1..Len(counts) : counts'[j] = counts[j]
      /\ DOMAIN counts' = 1..Len(counts') /\ DOMAIN counts = 1..Len(counts)
  <2>1. \A s \in Seq([who : Players, size : Nat]) : DOMAIN s = 1..Len(s)
    OBVIOUS
  <2>2. counts \in Seq([who : Players, size : Nat]) /\ counts' \in Seq([who : Players, size : Nat])
    BY PostKeeps DEF OnDemandTyped
  <2> QED
    BY <2>1, <2>2, PostKeeps
<1>2. q \in viewing' /\ \A i \in 1..Len(counts') : counts'[i].who # q
  BY <1>1 DEF Settled
<1>3. q # p
  BY <1>1, <1>2
<1>4. \A i \in 1..Len(counts) : counts[i].who # q
  BY <1>1, <1>2
<1> QED
  BY <1>1, <1>2, <1>3, <1>4 DEF Settled

LEMMA AttachKeeps ==
  ASSUME OnDemandInv, NEW p \in Players, AttachReader(p)
  PROVE  OnDemandInv'
<1> DEFINE k == Cardinality(viewing')
<1>0. OnDemandTyped /\ Ordered(flow, sent) /\ CacheIsCurrent /\ GivenFollows /\ OffIsEmpty /\ CountsLast /\ ViewerFed
  BY DEF OnDemandInv
<1>1. /\ viewing' = viewing \cup {p} /\ got' = [got EXCEPT ![p] = flow.gop] /\ Post(p, k)
      /\ UNCHANGED <<sent, isEnable, others, enabled, clearing, flow, since>>
  BY DEF AttachReader
<1>2. viewing' \subseteq Players /\ IsFiniteSet(viewing') /\ k \in Nat /\ k > 0
  <2>1. IsFiniteSet(viewing') /\ viewing' # {} /\ viewing' \subseteq Players
    BY <1>0, <1>1, FS_AddElement DEF OnDemandTyped
  <2> QED
    BY <2>1, FS_EmptySet, FS_CardinalityType
<1> HIDE DEF k
<1>3. flow.gop \in Seq(Frames) /\ Follows(flow.gop, flow)
  BY <1>0, OrderedHas
<1>4. /\ got' \in [Players -> Seq(Frames)] /\ got'[p] = flow.gop
      /\ \A q \in Players : q # p => got'[q] = got[q]
  BY <1>0, <1>1, <1>3 DEF OnDemandTyped
<1>5. OnDemandTyped'
  BY <1>0, <1>1, <1>2, <1>4, PostKeeps DEF OnDemandTyped
<1>6. GivenFollows'
  BY <1>0, <1>1, <1>3, <1>4 DEF GivenFollows
<1>7. CountsLast'
  BY <1>0, <1>1, <1>2, CountsLastKeeps
<1>8. ViewerFed'
  <2> SUFFICES ASSUME NEW q \in Players
               PROVE  /\ since[q] <= sent
                      /\ Settled(q)' => (clearing => since[q] = sent) /\ Fed(got'[q], since[q], flow, sent)
    BY <1>1 DEF ViewerFed
  <2>1. Settled(q)' => q # p /\ Settled(q)
    BY <1>0, <1>1, <1>2, PostSettles
  <2> QED
    BY <1>0, <1>4, <2>1 DEF ViewerFed
<1> QED
  BY <1>0, <1>1, <1>5, <1>6, <1>7, <1>8 DEF OnDemandInv, CacheIsCurrent, Waiting, OffIsEmpty

LEMMA DetachKeeps ==
  ASSUME OnDemandInv, NEW p \in Players, DetachReader(p)
  PROVE  OnDemandInv'
<1> DEFINE k == Cardinality(viewing')
<1>0. OnDemandTyped /\ Ordered(flow, sent) /\ CacheIsCurrent /\ GivenFollows /\ OffIsEmpty /\ CountsLast /\ ViewerFed
  BY DEF OnDemandInv
<1>1. /\ viewing' = viewing \ {p} /\ got' = [got EXCEPT ![p] = <<>>] /\ Post(p, k)
      /\ UNCHANGED <<sent, isEnable, others, enabled, clearing, flow, since>>
  BY DEF DetachReader
<1>2. viewing' \subseteq Players /\ IsFiniteSet(viewing') /\ k \in Nat /\ (viewing' # {} => k > 0)
  <2>1. IsFiniteSet(viewing') /\ viewing' \subseteq Players
    BY <1>0, <1>1, FS_RemoveElement DEF OnDemandTyped
  <2> QED
    BY <2>1, FS_EmptySet, FS_CardinalityType
<1> HIDE DEF k
<1>3. <<>> \in Seq(Frames)
  OBVIOUS
<1>4. /\ got' \in [Players -> Seq(Frames)] /\ got'[p] = <<>>
      /\ \A q \in Players : q # p => got'[q] = got[q]
  BY <1>0, <1>1, <1>3 DEF OnDemandTyped
<1>5. OnDemandTyped'
  BY <1>0, <1>1, <1>2, <1>4, PostKeeps DEF OnDemandTyped
<1>6. GivenFollows'
  BY <1>0, <1>1, <1>4, Nothing DEF GivenFollows
<1>7. CountsLast'
  BY <1>0, <1>1, <1>2, CountsLastKeeps
<1>8. ViewerFed'
  <2> SUFFICES ASSUME NEW q \in Players
               PROVE  /\ since[q] <= sent
                      /\ Settled(q)' => (clearing => since[q] = sent) /\ Fed(got'[q], since[q], flow, sent)
    BY <1>1 DEF ViewerFed
  <2>1. Settled(q)' => q # p /\ Settled(q)
    BY <1>0, <1>1, <1>2, PostSettles
  <2> QED
    BY <1>0, <1>4, <2>1 DEF ViewerFed
<1> QED
  BY <1>0, <1>1, <1>5, <1>6, <1>7, <1>8 DEF OnDemandInv, CacheIsCurrent, Waiting, OffIsEmpty

LEMMA ReaderChangedKeeps ==
  ASSUME OnDemandInv, MuxerReaderChanged
  PROVE  OnDemandInv'
<1> DEFINE c == Head(counts)
<1>0. OnDemandTyped /\ Ordered(flow, sent) /\ CacheIsCurrent /\ GivenFollows /\ OffIsEmpty /\ CountsLast /\ ViewerFed
  BY DEF OnDemandInv
<1>1. /\ counts # <<>> /\ enabled' = (c.size > 0) /\ clearing' = (clearing \/ c.size = 0)
      /\ counts' = Tail(counts) /\ since' = [since EXCEPT ![c.who] = sent]
      /\ UNCHANGED <<sent, isEnable, others, flow, viewing, got>>
  BY DEF MuxerReaderChanged, Switch
<1>2. /\ c \in [who : Players, size : Nat] /\ c = counts[1]
      /\ Len(counts) \in Nat /\ Len(counts) > 0 /\ Len(counts') = Len(counts) - 1
      /\ counts' \in Seq([who : Players, size : Nat])
      /\ \A j \in 1..Len(counts') : counts'[j] = counts[j + 1]
      /\ DOMAIN counts' = 1..Len(counts')
  <2>1. counts \in Seq([who : Players, size : Nat])
    BY <1>0 DEF OnDemandTyped
  <2>2. Len(counts) \in Nat /\ Len(counts) > 0 /\ counts[1] \in [who : Players, size : Nat]
    <3> DEFINE T == [who : Players, size : Nat]
    <3>1. counts \in Seq(T)
      BY <2>1
    <3> HIDE DEF T
    <3>2. Len(counts) \in Nat /\ Len(counts) > 0 /\ counts[1] \in T
      BY <1>1, <3>1
    <3> QED
      BY <3>2 DEF T
  <2>3. c = counts[1]
    BY <1>1, <2>1
  <2>4. /\ Tail(counts) \in Seq([who : Players, size : Nat]) /\ Len(Tail(counts)) = Len(counts) - 1
        /\ DOMAIN Tail(counts) = 1..Len(Tail(counts))
    BY <1>1, <2>1
  <2>5. \A j \in 1..(Len(counts) - 1) : Tail(counts)[j] = counts[j + 1]
    BY <1>1, <2>1
  <2> HIDE DEF c
  <2> QED
    BY <1>1, <2>2, <2>3, <2>4, <2>5
<1> HIDE DEF c
<1>3. c.who \in Players /\ c.size \in Nat
  BY <1>2
<1>4. /\ since' \in [Players -> 0..MaxFrames] /\ since'[c.who] = sent
      /\ \A q \in Players : q # c.who => since'[q] = since[q]
  BY <1>0, <1>1, <1>3 DEF OnDemandTyped
<1>5. OnDemandTyped'
  BY <1>0, <1>1, <1>2, <1>3, <1>4 DEF OnDemandTyped
<1>6. OffIsEmpty'
  <2>1. CASE c.size > 0
    <3>1. enabled' = (c.size > 0)
      BY <1>1
    <3>2. enabled'
      BY <2>1, <3>1, Zenon
    <3> QED
      BY <3>2 DEF OffIsEmpty
  <2>2. CASE c.size = 0
    <3>1. clearing' = (clearing \/ c.size = 0)
      BY <1>1
    <3>2. clearing'
      BY <2>2, <3>1, Zenon
    <3> QED
      BY <3>2 DEF OffIsEmpty
  <2> QED
    BY <1>3, <2>1, <2>2
<1>7. CountsLast'
  <2> SUFFICES ASSUME NEW q \in viewing
               PROVE  \E i \in 0..Len(counts') :
                         /\ i = 0 => enabled'
                         /\ i > 0 => counts'[i].who = q
                         /\ \A j \in 1..Len(counts') : i <= j => counts'[j].size > 0
    BY <1>1 DEF CountsLast
  <2>1. PICK i \in 0..Len(counts) :
          /\ i = 0 => enabled
          /\ i > 0 => counts[i].who = q
          /\ \A j \in 1..Len(counts) : i <= j => counts[j].size > 0
    BY <1>0 DEF CountsLast
  <2>2. CASE i \in {0, 1}
    <3>1. /\ 0 \in 0..Len(counts')
          /\ \A j \in 1..Len(counts') : j + 1 \in 1..Len(counts) /\ i <= j + 1
      BY <1>2, <2>2
    <3>2. \A j \in 1..Len(counts') : counts'[j].size > 0
      BY <1>2, <2>1, <3>1
    <3>3. 1 \in 1..Len(counts) /\ i <= 1
      BY <1>2, <2>2
    <3>4. enabled'
      BY <1>1, <1>2, <2>1, <3>3
    <3> QED
      BY <3>1, <3>2, <3>4
  <2>3. CASE i \notin {0, 1}
    <3>1. /\ i - 1 \in 0..Len(counts') /\ i - 1 > 0 /\ i - 1 \in 1..Len(counts') /\ (i - 1) + 1 = i
          /\ \A j \in 1..Len(counts') : j + 1 \in 1..Len(counts) /\ (i - 1 <= j => i <= j + 1)
      BY <1>2, <2>3
    <3>2. counts'[i - 1].who = q
      <4> DEFINE e == i - 1
      <4>1. counts'[e] = counts[e + 1] /\ e + 1 = i
        BY <1>2, <3>1
      <4>2. counts[i].who = q
        BY <2>1, <2>3
      <4> QED
        BY <4>1, <4>2
    <3>3. \A j \in 1..Len(counts') : i - 1 <= j => counts'[j].size > 0
      BY <1>2, <2>1, <3>1
    <3> DEFINE e == i - 1
    <3>4. e \in 0..Len(counts') /\ e # 0 /\ counts'[e].who = q
          /\ \A j \in 1..Len(counts') : e <= j => counts'[j].size > 0
      BY <3>1, <3>2, <3>3
    <3> HIDE DEF e
    <3> QED
      BY <3>4
  <2> QED
    BY <2>2, <2>3
<1>8. ViewerFed'
  <2>0. sent \in Int
    BY <1>0 DEF OnDemandTyped
  <2> SUFFICES ASSUME NEW q \in Players
               PROVE  /\ since'[q] <= sent
                      /\ Settled(q)' => (clearing' => since'[q] = sent) /\ Fed(got[q], since'[q], flow, sent)
    BY <1>1 DEF ViewerFed
  <2>1. CASE q = c.who
    <3>1. since'[q] = sent
      BY <1>4, <2>1
    <3>2. \A m \in ToSet(got[q]) \cup ToSet(flow.cache) \cup {flow.held} : m \in Int /\ m <= sent
      <4>1. /\ got[q] \in Seq(Frames) /\ AllBelow(got[q], flow.held)
            /\ flow.cache \in Seq(Frames) /\ AllBelow(flow.cache, flow.held)
            /\ flow.held \in Int /\ flow.held <= sent
        BY <1>0, OrderedHas DEF OnDemandTyped, GivenFollows, Follows
      <4>2. /\ \A i \in DOMAIN got[q] : got[q][i] \in Int /\ got[q][i] < flow.held
            /\ \A i \in DOMAIN flow.cache : flow.cache[i] \in Int /\ flow.cache[i] < flow.held
        BY <4>1, FramesAreInts DEF AllBelow
      <4> QED
        BY <2>0, <4>1, <4>2 DEF ToSet
    <3> QED
      BY <2>0, <3>1, <3>2 DEF Fed
  <2>2. CASE q # c.who
    <3>1. since'[q] = since[q] /\ since[q] <= sent
      BY <1>0, <1>4, <2>2 DEF ViewerFed
    <3>2. ASSUME Settled(q)'
          PROVE  Settled(q) /\ (clearing' => clearing)
      <4>1. q \in viewing /\ \A i \in 1..Len(counts') : counts'[i].who # q
        BY <1>1, <1>2, <3>2 DEF Settled
      <4>2. \A i \in 1..Len(counts) : counts[i].who # q
        <5> SUFFICES ASSUME NEW i \in 1..Len(counts) PROVE counts[i].who # q
          OBVIOUS
        <5>1. CASE i = 1
          BY <1>2, <2>2, <5>1
        <5>2. CASE i # 1
          <6>1. i - 1 \in 1..Len(counts') /\ (i - 1) + 1 = i
            BY <1>2, <5>2
          <6> QED
            BY <1>2, <4>1, <6>1
        <5> QED
          BY <5>1, <5>2
      <4>3. Settled(q)
        BY <1>0, <4>1, <4>2 DEF Settled, OnDemandTyped
      <4>4. counts[1].size > 0
        BY <1>0, <1>2, <4>3, SettledIsOn
      <4> QED
        <5>1. c.size # 0
          BY <1>2, <1>3, <4>4
        <5> QED
          BY <1>1, <4>3, <5>1
    <3> QED
      BY <1>0, <3>1, <3>2 DEF ViewerFed
  <2> QED
    BY <2>1, <2>2
<1> QED
  BY <1>0, <1>1, <1>5, <1>6, <1>7, <1>8 DEF OnDemandInv, CacheIsCurrent, Waiting, GivenFollows

LEMMA OnDemandInvariance == OnDemandSpec => []OnDemandInv
<1>1. OnDemandInit => OnDemandInv
  <2> SUFFICES ASSUME OnDemandInit PROVE OnDemandInv
    OBVIOUS
  <2>1. /\ sent = 0 /\ viewing = {} /\ counts = <<>> /\ clearing = FALSE /\ enabled = TRUE
        /\ got = [p \in Players |-> <<>>] /\ since = [p \in Players |-> 0]
        /\ flow.held = 0 /\ flow.cache = <<>> /\ flow.gop = <<>> /\ flow.out = <<>>
    BY DEF OnDemandInit
  <2>2. <<>> \in Seq(Frames) /\ <<>> \in Seq([who : Players, size : Nat]) /\ 0 \in 0..MaxFrames /\ Len(<<>>) = 0
    BY OnDemandAssumption
  <2>3. OnDemandTyped
    BY <2>1, <2>2, FS_EmptySet DEF OnDemandTyped, OnDemandInit
  <2>4. flow \in FlowType
    BY <2>2 DEF OnDemandInit, FlowType
  <2>5. Increasing(<<>>) /\ AllBelow(<<>>, 0)
    BY DEF Increasing, AllBelow
  <2>6. Ordered(flow, sent)
    BY <2>1, <2>2, <2>4, <2>5, Nothing, OnDemandAssumption DEF Ordered
  <2>7. CacheIsCurrent
    BY <2>1, <2>4, ShortIsTailRun, CurrentIsTailRun
  <2>8. GivenFollows /\ OffIsEmpty /\ CountsLast /\ ViewerFed
    BY <2>1, Nothing DEF GivenFollows, OffIsEmpty, CountsLast, ViewerFed, Settled
  <2> QED
    BY <2>3, <2>6, <2>7, <2>8 DEF OnDemandInv
<1>2. OnDemandInv /\ [OnDemandNext]_vars => OnDemandInv'
  <2> SUFFICES ASSUME OnDemandInv, [OnDemandNext]_vars PROVE OnDemandInv'
    OBVIOUS
  <2>1. CASE SendFrame
    BY <2>1, SendFrameKeeps
  <2>2. CASE OthersChange
    BY <2>2 DEF OthersChange, OnDemandInv, OnDemandTyped, CacheIsCurrent, Waiting, GivenFollows, OffIsEmpty,
                CountsLast, ViewerFed, Settled
  <2>3. CASE MuxerReaderChanged
    BY <2>3, ReaderChangedKeeps
  <2>4. CASE \E p \in Players : AttachReader(p) \/ DetachReader(p)
    BY <2>4, AttachKeeps, DetachKeeps
  <2>5. CASE UNCHANGED vars
    BY <2>5 DEF vars, OnDemandInv, OnDemandTyped, CacheIsCurrent, Waiting, GivenFollows, OffIsEmpty,
                CountsLast, ViewerFed, Settled
  <2> QED
    BY <2>1, <2>2, <2>3, <2>4, <2>5 DEF OnDemandNext
<1> QED
  BY <1>1, <1>2, PTL DEF OnDemandSpec

-----------------------------------------------------------------------------
\* Every set of natural numbers that is not empty has a least element.
LEMMA LeastNumber ==
  ASSUME NEW T, T \subseteq Nat, T # {}
  PROVE  \E n \in T : \A m \in T : n <= m
<1> DEFINE R == OpToRel(<, Nat)
<1>1. IsWellFoundedOn(R, Nat)
  BY NatLessThanWellFounded
<1> HIDE DEF R
<1>2. PICK n \in T : \A m \in T : ~ (<<m, n>> \in R)
  BY <1>1, WFMin
<1>3. \A m \in T : ~(m < n)
  <2> SUFFICES ASSUME NEW m \in T, m < n PROVE FALSE
    OBVIOUS
  <2>1. <<m, n>> \in Nat \X Nat /\ <<m, n>>[1] = m /\ <<m, n>>[2] = n
    OBVIOUS
  <2>2. <<m, n>> \in R
    BY <2>1 DEF R, OpToRel
  <2> QED
    BY <1>2, <2>2
<1> QED
  BY <1>3


\* What has no hole below any of its numbers is counted by its last number.
LEMMA Unbroken ==
  ASSUME NEW s \in Nat, NEW n \in Nat, NEW A, A \subseteq (s + 1)..n,
         \A a \in A, b \in (s + 1)..n : b <= a => b \in A
  PROVE  Cardinality(A) \in Nat /\ A = (s + 1)..(s + Cardinality(A))
<1> DEFINE B == ((s + 1)..n) \ A
<1>1. \E e \in Int : e >= s /\ A = (s + 1)..e
  <2>1. CASE B = {}
    <3>1. A = (s + 1)..n
      BY <2>1
    <3>2. CASE n >= s
      BY <3>1, <3>2
    <3>3. CASE n < s
      <4>1. A = (s + 1)..s
        BY <3>1, <3>3
      <4> QED
        BY <4>1
    <3> QED
      BY <3>2, <3>3
  <2>2. CASE B # {}
    <3>1. B \subseteq Nat
      OBVIOUS
    <3>2. PICK b \in B : \A m \in B : b <= m
      <4> HIDE DEF B
      <4> QED
        BY <2>2, <3>1, LeastNumber
    <3>3. b \in (s + 1)..n /\ b \notin A
      OBVIOUS
    <3>4. A = (s + 1)..(b - 1)
      <4>1. ASSUME NEW x \in A PROVE x \in (s + 1)..(b - 1)
        BY <3>3, <4>1
      <4>2. ASSUME NEW x \in (s + 1)..(b - 1) PROVE x \in A
        <5>1. x \in (s + 1)..n /\ ~(b <= x)
          BY <3>3, <4>2
        <5> QED
          BY <3>2, <5>1
      <4> QED
        BY <4>1, <4>2
    <3>5. b - 1 \in Int /\ b - 1 >= s
      BY <3>3
    <3> QED
      BY <3>4, <3>5
  <2> QED
    BY <2>1, <2>2
<1> HIDE DEF B
<1>2. PICK e \in Int : e >= s /\ A = (s + 1)..e
  BY <1>1
<1>3. Cardinality((s + 1)..e) = IF s + 1 > e THEN 0 ELSE e - (s + 1) + 1
  BY <1>2, FS_Interval
<1>4. Cardinality(A) = e - s
  BY <1>2, <1>3
<1> QED
  BY <1>2, <1>4

\* A list of k frames and one more are no more than k + 1 frames.
LEMMA FewWait ==
  ASSUME NEW c \in Seq(Frames), NEW h
  PROVE  /\ IsFiniteSet(ToSet(c) \cup {h})
         /\ Cardinality(ToSet(c) \cup {h}) <= Len(c) + 1
         /\ Cardinality(ToSet(c) \cup {h}) \in Nat
<1>1. DOMAIN c = 1..Len(c) /\ Len(c) \in Nat
  OBVIOUS
<1>2. c \in Surjection(1..Len(c), ToSet(c))
  BY <1>1 DEF Surjection, ToSet
<1>3. IsFiniteSet(1..Len(c)) /\ Cardinality(1..Len(c)) = Len(c)
  <2>1. Cardinality(1..Len(c)) = IF 1 > Len(c) THEN 0 ELSE Len(c) - 1 + 1
    BY <1>1, FS_Interval
  <2>2. Cardinality(1..Len(c)) = Len(c)
    BY <1>1, <2>1
  <2> QED
    BY <1>1, <2>2, FS_Interval
<1>4. IsFiniteSet(ToSet(c)) /\ Cardinality(ToSet(c)) <= Len(c)
  BY <1>2, <1>3, FS_Surjection
<1>5. IsFiniteSet(ToSet(c) \cup {h}) /\ Cardinality(ToSet(c) \cup {h})
         \in {Cardinality(ToSet(c)), Cardinality(ToSet(c)) + 1}
  BY <1>4, FS_AddElement
<1>6. Cardinality(ToSet(c)) \in Nat /\ Cardinality(ToSet(c) \cup {h}) \in Nat
  BY <1>4, <1>5, FS_CardinalityType
<1> QED
  BY <1>1, <1>4, <1>5, <1>6

LEMMA NothingMissedHere == OnDemandInv => NothingMissed
<1> SUFFICES ASSUME OnDemandInv, NEW p \in Players, Settled(p)
             PROVE  LET new == {n \in ToSet(got[p]) : n > since[p]}
                    IN  /\ new = (since[p] + 1) .. (since[p] + Cardinality(new))
                        /\ sent - since[p] > CacheCap + 1 =>
                             since[p] + Cardinality(new) >= sent - (CacheCap + 1)
  BY DEF NothingMissed
<1> DEFINE s == since[p]
           new == {n \in ToSet(got[p]) : n > s}
           wait == ToSet(flow.cache) \cup {flow.held}
<1>1. /\ s \in Nat /\ sent \in Nat /\ got[p] \in Seq(Frames) /\ CacheCap \in Nat
      /\ Fed(got[p], s, flow, sent) /\ Follows(got[p], flow)
      /\ flow.cache \in Seq(Frames) /\ Len(flow.cache) <= CacheCap /\ flow.held \in Int
  BY OrderedHas, OnDemandAssumption DEF OnDemandInv, OnDemandTyped, ViewerFed, GivenFollows
<1>2. \A x \in ToSet(got[p]) : x \in Int /\ x < flow.held /\ \A y \in ToSet(flow.cache) : x < y
  BY <1>1, FramesAreInts DEF Follows, Before, AllBelow, ToSet
<1> HIDE DEF s
<1>3. new \subseteq (s + 1)..sent
  <2> SUFFICES ASSUME NEW x \in ToSet(got[p]), x > s PROVE x \in (s + 1)..sent
    OBVIOUS
  <2>1. x \in Int
    BY <1>2
  <2> QED
    BY <1>1, <2>1 DEF Fed
<1>4. ASSUME NEW x \in (s + 1)..sent, x \notin new
      PROVE  x \in wait
  <2>1. x \in Int /\ x > s
    BY <1>1
  <2>2. x \in ToSet(got[p]) \cup ToSet(flow.cache) \cup {flow.held}
    BY <1>1, <2>1 DEF Fed
  <2> QED
    BY <1>4, <2>1, <2>2
<1>5. \A a \in new, b \in (s + 1)..sent : b <= a => b \in new
  <2> SUFFICES ASSUME NEW a \in new, NEW b \in (s + 1)..sent, b <= a, b \notin new PROVE FALSE
    OBVIOUS
  <2>1. b \in wait
    BY <1>4
  <2>2. a \in Int /\ a < b
    BY <1>2, <2>1
  <2> QED
    BY <1>1, <2>2
<1> HIDE DEF new, wait
<1>6. Cardinality(new) \in Nat /\ new = (s + 1)..(s + Cardinality(new))
  BY <1>1, <1>3, <1>5, Unbroken
<1> DEFINE e == s + Cardinality(new)
<1>7. (e + 1)..sent \subseteq wait
  <2> SUFFICES ASSUME NEW x \in (e + 1)..sent PROVE x \in wait
    OBVIOUS
  <2>1. x \in (s + 1)..sent /\ x \notin (s + 1)..e
    BY <1>1, <1>6
  <2> QED
    BY <1>4, <1>6, <2>1
<1>8. IsFiniteSet(wait) /\ Cardinality(wait) \in Nat /\ Cardinality(wait) <= CacheCap + 1
  <2> DEFINE c == flow.cache
             h == flow.held
  <2>1. c \in Seq(Frames) /\ Len(c) \in Nat /\ Len(c) <= CacheCap
    BY <1>1
  <2> HIDE DEF c, h
  <2>2. /\ IsFiniteSet(ToSet(c) \cup {h}) /\ Cardinality(ToSet(c) \cup {h}) \in Nat
        /\ Cardinality(ToSet(c) \cup {h}) <= Len(c) + 1
    BY <2>1, FewWait
  <2>3. Cardinality(ToSet(c) \cup {h}) <= CacheCap + 1
    BY <1>1, <2>1, <2>2
  <2> QED
    BY <2>2, <2>3 DEF wait, c, h
<1>9. e \in Nat /\ sent \in Int
  BY <1>1, <1>6
<1> HIDE DEF e
<1>10. Cardinality((e + 1)..sent) <= CacheCap + 1
  <2> DEFINE rest == (e + 1)..sent
  <2>1. rest \in SUBSET wait
    BY <1>7
  <2>2. Cardinality(rest) \in Nat
    BY <1>9, FS_Interval, FS_CardinalityType
  <2> HIDE DEF rest
  <2>3. Cardinality(rest) <= Cardinality(wait)
    BY <1>8, <2>1, FS_Subset
  <2>4. Cardinality(rest) <= CacheCap + 1
    BY <1>1, <1>8, <2>2, <2>3
  <2> QED
    BY <2>4 DEF rest
<1>11. Cardinality((e + 1)..sent) = IF e + 1 > sent THEN 0 ELSE sent - (e + 1) + 1
  BY <1>9, FS_Interval
<1>12. e >= sent - (CacheCap + 1)
  BY <1>1, <1>9, <1>10, <1>11
<1> QED
  BY <1>6, <1>12 DEF e, new, s

-----------------------------------------------------------------------------
\* The state of the muxer, its caches and its viewers has its type.
THEOREM OnDemandTypeCorrect == OnDemandSpec => []OnDemandTypeOK
<1>1. OnDemandInv => OnDemandTypeOK
  <2> SUFFICES ASSUME OnDemandInv PROVE OnDemandTypeOK
    OBVIOUS
  <2>1. OnDemandTyped /\ flow \in FlowType
    BY DEF OnDemandInv, Ordered
  <2>2. \A i \in DOMAIN counts : counts[i] \in [who : Players, size : Nat]
    <3> DEFINE T == [who : Players, size : Nat]
    <3>1. counts \in Seq(T)
      BY <2>1 DEF OnDemandTyped
    <3> HIDE DEF T
    <3>2. \A i \in DOMAIN counts : counts[i] \in T
      BY <3>1
    <3> QED
      BY <3>2 DEF T
  <2>3. \A i \in DOMAIN counts : counts[i].who \in Players /\ counts[i].size \in Nat
    BY <2>2
  <2> QED
    BY <2>1, <2>3 DEF OnDemandTyped, FlowType, OnDemandTypeOK
<1> QED
  BY <1>1, OnDemandInvariance, PTL

\* What waits for a player who comes ends at the last frame and has no hole:
\* what was cached before the muxer was off has gone (clearCache).
THEOREM WaitingIsCurrent == OnDemandSpec => []CacheIsCurrent
  BY OnDemandInvariance, PTL DEF OnDemandInv

\* No player is given a frame twice, or one after a later one.
THEOREM PlayersGetInOrder == OnDemandSpec => []GivenInOrder
<1>1. OnDemandInv => GivenInOrder
  BY DEF OnDemandInv, GivenFollows, Follows, GivenInOrder
<1> QED
  BY <1>1, OnDemandInvariance, PTL

\* Once his count has been handled, a viewer gets every frame, at most a
\* cache and a merged frame behind, however counts and switches interleave.
THEOREM PlayersMissNothing == OnDemandSpec => []NothingMissed
  BY NothingMissedHere, OnDemandInvariance, PTL
==============================================================================
