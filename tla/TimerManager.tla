---------------------------- MODULE TimerManager ----------------------------
(***************************************************************************)
(* ComTimer and ComTimerManager (com_timer.cpp).  A thread scans the       *)
(* started timers once per TIMER_INTERVAL_MIN_MS, takes that much off each *)
(* of them, and makes the messages of those that are due under             *)
(* mutex_timers; when the mutex is free again it hands them on, to the     *)
(* task manager (TaskManager) and to the thread pool that the timer        *)
(* manager is (ThreadPool).  Between the scan and the handing on a timer   *)
(* can be stopped, changed or started again.                               *)
(*                                                                         *)
(* A ComTimer object belongs to one thread at a time.  What start puts     *)
(* into the list is a copy of the object, found again by its uuid, and     *)
(* setType gives the object a new uuid.                                    *)
(***************************************************************************)
EXTENDS Integers, SequencesExt

CONSTANTS
  Timer,                   \* the ComTimer objects
  Interval,                \* what setInterval is called with
  TIMER_INTERVAL_MIN_MS,
  MaxUUID,                 \* bound on the uuids of one object
  MaxCalls                 \* bound on the calls of the interface

ASSUME IntervalAssumption ==
  /\ TIMER_INTERVAL_MIN_MS \in Nat \ {0} /\ Interval \subseteq Int
  /\ MaxUUID \in Nat \ {0}

Dest == {"task", "fc"}              \* a task's name, a callback
UUID == Timer \X (1 .. MaxUUID)     \* com_uuid_generator: the n-th of an object

VARIABLES
  obj,            \* the objects: uuid, interval_set, repeat, to
  opc,            \* per object: inside stop, between its two calls?
  timers,         \* ComTimerManager::timers
  running_loop, tpc,
  timeout_msgs,   \* ThreadTimerLoop: the messages it has made
  mpc,            \* the thread that calls stopTimerManager
  calls,          \* number of calls so far
  age,            \* history: scans of an entry since its start or last expiry
  starts,         \* history: starts of a uuid
  fired,          \* history: messages made for a uuid by entries that do not repeat
  stopped         \* history: objects whose last start or stop was a stop

objectVars == <<obj, opc, calls, starts, stopped>>
loopVars == <<running_loop, tpc, timeout_msgs, age, fired>>
vars == <<objectVars, timers, loopVars, mpc>>

\* An object made by the default constructor, or by one of the others and then
\* given an interval and a repetition.
Constructed(o) ==
  [uuid : {<<o, 1>>}, interval_set : {0}, repeat : {FALSE}, to : {{}}]
  \cup [uuid : {<<o, 1>>}, interval_set : Interval, repeat : BOOLEAN, to : {{"task"}, {"fc"}}]

Init ==
  /\ obj \in [Timer -> UNION {Constructed(o) : o \in Timer}]
  /\ \A o \in Timer : obj[o] \in Constructed(o)
  /\ opc = [o \in Timer |-> "idle"]
  /\ timers = <<>>
  /\ running_loop = TRUE /\ tpc = "scan" /\ timeout_msgs = <<>>
  /\ mpc = "idle" /\ calls = 0
  /\ age = [u \in UUID |-> 0]
  /\ starts = [u \in UUID |-> 0]
  /\ fired = [u \in UUID |-> [d \in Dest |-> 0]]
  /\ stopped = Timer

-----------------------------------------------------------------------------
(* ComTimer *)

Call(o) ==
  /\ opc[o] = "idle" /\ calls < MaxCalls
  /\ calls' = calls + 1

isTimerExist(u) == \E i \in 1 .. Len(timers) : timers[i].uuid = u
Without(u) == RemoveFirstMatch(timers, LAMBDA t : t.uuid = u)

\* setType(task_name) or setType(fc, ctx): the other kind stays as it was, and
\* an entry with the old uuid is left to itself.
setType(o, d) ==
  /\ Call(o) /\ obj[o].uuid[2] < MaxUUID
  /\ obj' = [obj EXCEPT ![o].to = @ \cup {d}, ![o].uuid = <<o, @[2] + 1>>]
  /\ UNCHANGED <<opc, timers, loopVars, mpc, starts, stopped>>

setInterval(o, ms) ==
  /\ Call(o)
  /\ obj' = [obj EXCEPT ![o].interval_set = ms]
  /\ UNCHANGED <<opc, timers, loopVars, mpc, starts, stopped>>

setRepeat(o) ==
  /\ Call(o)
  /\ obj' = [obj EXCEPT ![o].repeat = ~@]
  /\ UNCHANGED <<opc, timers, loopVars, mpc, starts, stopped>>

\* The copy of the object that is put into the list.  (immediate is kept for the
\* properties.)
Copy(o, immediate) ==
  [uuid |-> obj[o].uuid, interval_set |-> obj[o].interval_set,
   interval |-> IF immediate THEN 0 ELSE obj[o].interval_set,
   immediate |-> immediate, repeat |-> obj[o].repeat, to |-> obj[o].to]

\* Fault: the old entry stays in the list.
updateTimerKeeps(o, immediate) == timers' = Append(timers, Copy(o, immediate))

\* The entry of this uuid, if any, is replaced.
updateTimer(o, immediate) == timers' = Append(Without(obj[o].uuid), Copy(o, immediate))

\* start(immediate), restart()
start(o, immediate) ==
  /\ Call(o)
  /\ obj[o].interval_set > 0 /\ obj[o].to # {}
  /\ updateTimer(o, immediate)
  /\ age' = [age EXCEPT ![obj[o].uuid] = 0]
  /\ starts' = [starts EXCEPT ![obj[o].uuid] = @ + 1]
  /\ stopped' = stopped \ {o}
  /\ UNCHANGED <<obj, opc, running_loop, tpc, timeout_msgs, fired, mpc>>

\* stop(): isTimerExist ...
stop(o) ==
  /\ Call(o)
  /\ IF isTimerExist(obj[o].uuid)
     THEN opc' = [opc EXCEPT ![o] = "stop"] /\ UNCHANGED stopped
     ELSE stopped' = stopped \cup {o} /\ UNCHANGED opc
  /\ UNCHANGED <<obj, timers, loopVars, mpc, starts>>

\* ... and removeTimer, if the entry is still there.
removeTimer(o) ==
  /\ opc[o] = "stop"
  /\ timers' = Without(obj[o].uuid)
  /\ opc' = [opc EXCEPT ![o] = "idle"]
  /\ stopped' = stopped \cup {o}
  /\ UNCHANGED <<obj, calls, starts, loopVars, mpc>>

-----------------------------------------------------------------------------
(* ThreadTimerLoop *)

Left(t) == t.interval - TIMER_INTERVAL_MIN_MS

\* Fault: an entry that has come down to 0 waits for another round.
DueLate(t) == Left(t) < 0

Due(t) == Left(t) <= 0
Again(t) == t.repeat /\ t.interval_set > 0

\* The task's message comes first.
MessageTo(t, d) == IF d \in t.to THEN <<[uuid |-> t.uuid, to |-> d]>> ELSE <<>>
Messages(t) == IF Due(t) THEN MessageTo(t, "task") \o MessageTo(t, "fc") ELSE <<>>

Reset(t) == [t EXCEPT !.interval = t.interval_set, !.immediate = FALSE]
Aged(t) == [t EXCEPT !.interval = Left(t)]

\* Entries that are not due get older, those that repeat begin again, others go.
Stays(t) == IF ~Due(t) THEN <<Aged(t)>> ELSE IF Again(t) THEN <<Reset(t)>> ELSE <<>>

DueUUIDs == {timers[i].uuid : i \in {j \in 1 .. Len(timers) : Due(timers[j])}}
OneShot(u) == \E i \in 1 .. Len(timers) : timers[i].uuid = u /\ ~Again(timers[i])
Made(u, d) ==
  Cardinality({i \in 1 .. Len(timeout_msgs') : timeout_msgs'[i] = [uuid |-> u, to |-> d]})

\* One round of the outer loop, up to unlock.
scan ==
  /\ tpc = "scan" /\ running_loop
  /\ timers' = FlattenSeq([i \in 1 .. Len(timers) |-> Stays(timers[i])])
  /\ timeout_msgs' = FlattenSeq([i \in 1 .. Len(timers) |-> Messages(timers[i])])
  /\ age' = [u \in UUID |-> IF isTimerExist(u) /\ u \notin DueUUIDs THEN age[u] + 1 ELSE 0]
  /\ fired' = [u \in UUID |-> [d \in Dest |->
                 fired[u][d] + (IF OneShot(u) THEN Made(u, d) ELSE 0)]]
  /\ tpc' = "send"
  /\ UNCHANGED <<objectVars, running_loop, mpc>>

\* sendMessage to the task, or pushPoolMessage.
send ==
  /\ tpc = "send" /\ timeout_msgs # <<>>
  /\ timeout_msgs' = Tail(timeout_msgs)
  /\ UNCHANGED <<objectVars, timers, running_loop, tpc, age, fired, mpc>>

\* The rest of the round: the thread sleeps until the next one.
sleep ==
  /\ tpc = "send" /\ timeout_msgs = <<>>
  /\ tpc' = "scan"
  /\ UNCHANGED <<objectVars, timers, running_loop, timeout_msgs, age, fired, mpc>>

\* Fault: running_loop is looked at between the messages.
endLoopEarly ==
  /\ tpc \in {"scan", "send"} /\ ~running_loop
  /\ tpc' = "ended"
  /\ UNCHANGED <<objectVars, timers, running_loop, timeout_msgs, age, fired, mpc>>

endLoop ==
  /\ tpc = "scan" /\ ~running_loop
  /\ tpc' = "ended"
  /\ UNCHANGED <<objectVars, timers, running_loop, timeout_msgs, age, fired, mpc>>

-----------------------------------------------------------------------------
(* stopTimerManager *)

stopLoop ==
  /\ mpc = "idle"
  /\ running_loop' = FALSE /\ mpc' = "join"
  /\ UNCHANGED <<objectVars, timers, tpc, timeout_msgs, age, fired>>

\* The loop is joined and stopThreadPool(true) called.
stopPool ==
  /\ mpc = "join" /\ tpc = "ended"
  /\ mpc' = "stopped"
  /\ UNCHANGED <<objectVars, timers, loopVars>>

-----------------------------------------------------------------------------
Use(o) ==
  \/ \E d \in Dest : setType(o, d)
  \/ \E ms \in Interval : setInterval(o, ms)
  \/ setRepeat(o)
  \/ \E immediate \in BOOLEAN : start(o, immediate)
  \/ stop(o)

ThreadTimerLoop == scan \/ send \/ sleep \/ endLoop

Next ==
  \/ \E o \in Timer : Use(o) \/ removeTimer(o)
  \/ ThreadTimerLoop
  \/ stopLoop \/ stopPool

Spec == Init /\ [][Next]_vars

-----------------------------------------------------------------------------
Entry == [uuid : UUID, interval_set : Interval, interval : Int, immediate : BOOLEAN,
          repeat : BOOLEAN, to : SUBSET Dest]

TypeOK ==
  /\ obj \in [Timer -> [uuid : UUID, interval_set : Interval \cup {0}, repeat : BOOLEAN,
                        to : SUBSET Dest]]
  /\ opc \in [Timer -> {"idle", "stop"}]
  /\ timers \in Seq(Entry)
  /\ running_loop \in BOOLEAN /\ tpc \in {"scan", "send", "ended"}
  /\ timeout_msgs \in Seq([uuid : UUID, to : Dest])
  /\ tpc # "send" => timeout_msgs = <<>>
  /\ mpc \in {"idle", "join", "stopped"} /\ calls \in Nat
  /\ age \in [UUID -> Nat] /\ starts \in [UUID -> Nat] /\ fired \in [UUID -> [Dest -> Nat]]
  /\ stopped \subseteq Timer

Scans == tpc = "scan" /\ tpc' = "send"
MakesFor(u) == \E i \in 1 .. Len(timeout_msgs') : timeout_msgs'[i].uuid = u

\* A timer expires in the first round by which its interval has passed, counted
\* in whole rounds, again after each expiry, or in the next one if it was
\* started with immediate, whatever is started and stopped in between.
ExpiresOnTime ==
  [][Scans => \A i \in 1 .. Len(timers) :
       MakesFor(timers[i].uuid) <=>
         \/ timers[i].immediate
         \/ (age[timers[i].uuid] + 1) * TIMER_INTERVAL_MIN_MS >= timers[i].interval_set]_vars

\* What a round makes is asked for: entries that do not repeat make one message of
\* each kind per start at most, however they are started again while the loop has
\* them, and once stop has returned no message is made for the timer until it is
\* started again; those that were made before may still be handed on.
StoppedIsSilent ==
  [][Scans => /\ \A u \in UUID, d \in Dest : fired'[u][d] <= starts'[u]
              /\ \A o \in stopped : ~MakesFor(obj[o].uuid)]_vars
=============================================================================
