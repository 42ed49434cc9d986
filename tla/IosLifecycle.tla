---------------------------- MODULE IosLifecycle ----------------------------
(***************************************************************************)
(* PyTagManagerLifecycleObserver of the iOS SDK: registrations with the    *)
(* notification centre, and the background task around a flush.            *)
(*                                                                         *)
(* start and stop may be called from any thread.  Notifications, the       *)
(* expiration handler and the end of a flush run on the main queue, one at *)
(* a time.  The flush itself is a Task that holds the observer weakly      *)
(* until it begins.  UIKit is external: it delivers notifications, may let *)
(* a background task expire, and expects every task it began to be ended.  *)
(***************************************************************************)
EXTENDS Naturals

CONSTANTS
  Starters,      \* threads that call start
  MaxTasks,      \* bound: background tasks begun
  MaxStarts,     \* bound: calls of start
  MaxStops,      \* bound: calls of stop
  KeepsObserver  \* the host keeps the observer for the life of the process

LifecycleAssumption ==
  /\ {MaxTasks, MaxStarts, MaxStops} \subseteq Nat
  /\ KeepsObserver \in BOOLEAN

VARIABLES
  observers,   \* the observer's list: the start that filled it, or 0 when it is empty
  centre,      \* starts whose registrations the notification centre holds
  starting,    \* [Starters -> 0, or the number of the start between its lock sections]
  starts, stops,
  active,      \* activeTask: a task's number, or 0
  task,        \* [1 .. MaxTasks -> stage of the background task]
  flushing,    \* [1 .. MaxTasks -> whether and how far the Task around flush is]
  released     \* the observer is gone

vars == <<observers, centre, starting, starts, stops, active, task, flushing, released>>

Tasks == 1 .. MaxTasks

Init ==
  /\ observers = 0 /\ centre = {}
  /\ starting = [s \in Starters |-> 0]
  /\ starts = 0 /\ stops = 0
  /\ active = 0
  /\ task = [k \in Tasks |-> "unused"]
  /\ flushing = [k \in Tasks |-> "none"]
  /\ released = FALSE

\* start, first lock section: a filled list ends it; otherwise the
\* registrations are made outside the lock.
Start(s) ==
  /\ ~ released /\ starting[s] = 0
  /\ starts < MaxStarts
  /\ observers = 0
  /\ starts' = starts + 1
  /\ starting' = [starting EXCEPT ![s] = starts + 1]
  /\ centre' = centre \cup {starts + 1}
  /\ UNCHANGED <<observers, stops, active, task, flushing, released>>

\* Mutant of Started: the list is filled without a second look.
StartedAnyway(s) ==
  /\ starting[s] # 0
  /\ observers' = starting[s]
  /\ starting' = [starting EXCEPT ![s] = 0]
  /\ UNCHANGED <<centre, starts, stops, active, task, flushing, released>>

\* start, second lock section: another start may have won, and these
\* registrations are taken back.
Started(s) ==
  /\ starting[s] # 0
  /\ IF observers = 0
       THEN observers' = starting[s] /\ UNCHANGED centre
       ELSE centre' = centre \ {starting[s]} /\ UNCHANGED observers
  /\ starting' = [starting EXCEPT ![s] = 0]
  /\ UNCHANGED <<starts, stops, active, task, flushing, released>>

\* stop empties the list and takes its registrations back.
Stop ==
  /\ ~ released
  /\ stops < MaxStops
  /\ stops' = stops + 1
  /\ observers' = 0
  /\ centre' = centre \ {observers}
  /\ UNCHANGED <<starting, starts, active, task, flushing, released>>

\* A notification: unless a task is active, a background task is begun and the
\* flush scheduled.
FlushInBackground ==
  /\ ~ released /\ centre # {}
  /\ active = 0
  /\ \E k \in Tasks :
       /\ task[k] = "unused" /\ (\A j \in 1 .. k - 1 : task[j] # "unused")
       /\ active' = k
       /\ task' = [task EXCEPT ![k] = "begun"]
       /\ flushing' = [flushing EXCEPT ![k] = "scheduled"]
  /\ UNCHANGED <<observers, centre, starting, starts, stops, released>>

\* The Task begins; from here on it keeps the observer alive.
BeginFlush(k) ==
  /\ flushing[k] = "scheduled"
  /\ flushing' = [flushing EXCEPT ![k] = IF released THEN "dropped" ELSE "running"]
  /\ UNCHANGED <<observers, centre, starting, starts, stops, active, task, released>>

\* end(token): the first call ends the task, later ones do nothing.
End(k) ==
  /\ task' = [task EXCEPT ![k] = "ended"]
  /\ active' = IF active = k THEN 0 ELSE active

\* Mutant of EndFlush: the background task is left to expire.
EndFlushOnly(k) ==
  /\ flushing[k] = "running"
  /\ flushing' = [flushing EXCEPT ![k] = "over"]
  /\ UNCHANGED <<observers, centre, starting, starts, stops, active, task, released>>

\* The flush is over.
EndFlush(k) ==
  /\ flushing[k] = "running"
  /\ flushing' = [flushing EXCEPT ![k] = "over"]
  /\ End(k)
  /\ UNCHANGED <<observers, centre, starting, starts, stops, released>>

\* UIKit's time for the task is up; the handler holds the observer weakly.
Expire(k) ==
  /\ task[k] = "begun"
  /\ ~ released
  /\ End(k)
  /\ UNCHANGED <<observers, centre, starting, starts, stops, flushing, released>>

\* The host drops the observer; deinit calls stop.  A call under way or a
\* running Task keeps it alive.
ReleaseObserver ==
  /\ ~ KeepsObserver /\ ~ released
  /\ \A s \in Starters : starting[s] = 0
  /\ \A k \in Tasks : flushing[k] # "running"
  /\ released' = TRUE
  /\ observers' = 0
  /\ centre' = centre \ {observers}
  /\ UNCHANGED <<starting, starts, stops, active, task, flushing>>

Next ==
  \/ \E s \in Starters : Start(s) \/ Started(s)
  \/ Stop
  \/ FlushInBackground
  \/ \E k \in Tasks : BeginFlush(k) \/ EndFlush(k) \/ Expire(k)
  \/ ReleaseObserver

\* Scheduled Tasks run, and a flush ends: its requests time out.
Spec ==
  /\ Init /\ [][Next]_vars
  /\ \A k \in Tasks : WF_vars(BeginFlush(k)) /\ WF_vars(EndFlush(k))
  /\ \A s \in Starters : WF_vars(Started(s))

-----------------------------------------------------------------------------
(* Properties.                                                             *)

\* The notification centre never holds registrations that the observer has
\* lost track of, however start and stop interleave: those could not be
\* taken back and would flush for a host that stopped the observer.
NoLostRegistration ==
  centre \subseteq {observers} \cup {starting[s] : s \in Starters}

\* At most one background task is open at a time, also when the application
\* enters the background and terminates while a flush is under way.
OneBackgroundTask ==
  \A j, k \in Tasks : task[j] = "begun" /\ task[k] = "begun" => j = k

\* Registrations are never lost track of, and one background task is open at most.
LifecycleSound == NoLostRegistration /\ OneBackgroundTask

\* Every background task that was begun is ended: UIKit terminates an application
\* that leaves one open ("a bounded iOS background task", sdk/ios/README.md).
TasksEnded == \A k \in Tasks : task[k] = "begun" ~> task[k] = "ended"

\* After a flush ended or expired, the next notification can flush again.
FlushPossibleAgain == []<>(active = 0)
=============================================================================
