--------------------------- MODULE FeishuProcesses ---------------------------
(***************************************************************************)
(* The long connection of one Feishu binding lives in a child process.     *)
(* The manager compares the bindings in the database with what it knows to *)
(* run, every few seconds and from a snapshot; requests that change or     *)
(* delete the binding pause it, have the child stopped, commit, and resume *)
(* it; the supervisor starts, stops and watches the child.  A child holds  *)
(* a lock file, and serves only if the binding has its revision.           *)
(*                                                                         *)
(* The manager's thread "reconcile", the thread "stop" that a pause        *)
(* starts, and the "request" all call the supervisor.  Requests for one    *)
(* binding follow one another (binding_lifecycle_lock).                    *)
(***************************************************************************)
EXTENDS Naturals

CONSTANTS
    Children,      \* names for child processes, used again when one is gone
    NoChild,
    MaxTroubles    \* bound: requests and faults together

ASSUME ProcessesAssumption ==
    /\ NoChild \notin Children
    /\ MaxTroubles \in Nat

VARIABLES
    troubles,   \* requests and faults so far
    binding,    \* the row: status, config_revision, connected
    paused,     \* the manager has the binding in _paused
    known,      \* the revision in _known, 0 for none
    record,     \* the supervisor's record: its child, state, connected
    backoff,    \* the supervisor waits after crashes
    operation,  \* the thread that has the binding's operation lock
    at,         \* what each thread is about to do
    view,       \* what the manager's thread has read
    change,     \* the request: its kind, whether it starts the child again
    child       \* the processes: step, revision, whether told to stop,
                \* whether its parent has died, its last word not yet heard

manager    == <<paused, known>>
supervisor == <<record, backoff, operation>>
vars == <<troubles, binding, manager, supervisor, at, view, change, child>>

Threads   == {"reconcile", "stop", "request"}
Revisions == 1 .. MaxTroubles + 1
Kinds     == {"rotate", "disable", "enable", "delete"}
NoProcess == [at |-> "none", revision |-> 1, doomed |-> FALSE,
              orphan |-> FALSE, says |-> "nothing"]
NoRecord  == [child |-> NoChild, state |-> "none", connected |-> FALSE]

Statuses  == {"active", "disabled", "deleted"}
Labels    == {"idle", "look", "restart", "start", "spawn", "started", "stop",
              "stopping", "stopped", "write", "done", "wait", "commit",
              "resume"}
Binding   == [status : Statuses, revision : Revisions, connected : BOOLEAN]
View      == [status : Statuses, revision : Revisions, connected : BOOLEAN,
              run : BOOLEAN]
Record    == [child : Children \cup {NoChild}, connected : BOOLEAN,
              state : {"none", "starting", "running", "stopping", "gone"}]
Change    == [kind : Kinds, start : BOOLEAN]
Child     == [at : {"none", "spawned", "holding", "serving", "connected",
                    "dead"},
              revision : Revisions, doomed : BOOLEAN, orphan : BOOLEAN,
              says : {"nothing", "up", "down"}]

TypeOK ==
    /\ troubles \in 0 .. MaxTroubles
    /\ binding \in Binding /\ view \in View /\ change \in Change
    /\ paused \in BOOLEAN /\ known \in Revisions \cup {0}
    /\ record \in Record /\ backoff \in BOOLEAN
    /\ operation \in Threads \cup {"nobody"}
    /\ at \in [Threads -> Labels]
    /\ child \in [Children -> Child]

Init ==
    /\ troubles = 0
    /\ binding = [status |-> "active", revision |-> 1, connected |-> FALSE]
    /\ paused = FALSE /\ known = 0
    /\ record = NoRecord /\ backoff = FALSE /\ operation = "nobody"
    /\ at = [t \in Threads |-> "idle"]
    /\ view = [status |-> "active", revision |-> 1, connected |-> FALSE,
               run |-> FALSE]
    /\ change = [kind |-> "rotate", start |-> FALSE]
    /\ child = [c \in Children |-> NoProcess]

Alive(c) == c # NoChild /\ child[c].at \notin {"none", "dead"}
\* The lock file is taken: a child of this process or of one before has it.
Locked   == \E c \in Children : child[c].at \in {"holding", "serving",
                                                 "connected"}
Go(t, label) == at' = [at EXCEPT ![t] = label]

-----------------------------------------------------------------------------
(* The supervisor's operations, for the thread t.                          *)

\* start_binding, to the point where it returns or waits for the lock file.
Start(t, revision, returned, raised) ==
    /\ operation = "nobody"
    /\ IF Alive(record.child)
       THEN /\ Go(t, IF child[record.child].revision = revision
                     THEN returned ELSE raised)
            /\ UNCHANGED <<record, operation, child>>
       ELSE /\ record' = NoRecord
            /\ child' = [c \in Children |-> IF c = record.child THEN NoProcess
                                            ELSE child[c]]
            /\ IF backoff
               THEN Go(t, raised) /\ UNCHANGED operation
               ELSE Go(t, "spawn") /\ operation' = t
    /\ UNCHANGED <<troubles, binding, manager, backoff, view, change>>

Spawn(t, revision, returned) ==
    /\ operation = t /\ at[t] = "spawn" /\ ~Locked
    /\ \E c \in Children : child[c].at = "none"
    /\ LET c == CHOOSE c \in Children : child[c].at = "none"
       IN  /\ child' = [child EXCEPT ![c] =
                            [NoProcess EXCEPT !.at = "spawned",
                                              !.revision = revision]]
           /\ record' = [child |-> c, state |-> "starting",
                         connected |-> FALSE]
    /\ operation' = "nobody" /\ Go(t, returned)
    /\ UNCHANGED <<troubles, binding, manager, backoff, view, change>>

\* The lock file stayed taken for three seconds.
SpawnFails(t, raised) ==
    /\ operation = t /\ at[t] = "spawn" /\ Locked
    /\ operation' = "nobody" /\ Go(t, raised)
    /\ UNCHANGED <<troubles, binding, manager, record, backoff, view, change,
                   child>>

\* stop_binding: the message, then terminate, then kill.
Stop(t, stopped) ==
    /\ operation = "nobody"
    /\ IF record.child = NoChild
       THEN Go(t, stopped) /\ UNCHANGED <<record, operation, child>>
       ELSE /\ record' = [record EXCEPT !.state = "stopping"]
            /\ child' = [child EXCEPT ![record.child].doomed = TRUE]
            /\ operation' = t /\ Go(t, "stopping")
    /\ UNCHANGED <<troubles, binding, manager, backoff, view, change>>

\* It is gone; FALSE all the same when the lock file is taken.
Stopped(t, stopped, failed) ==
    /\ operation = t /\ at[t] = "stopping" /\ ~Alive(record.child)
    /\ record' = NoRecord /\ operation' = "nobody"
    /\ child' = [child EXCEPT ![record.child] = NoProcess]
    /\ Go(t, IF Locked THEN failed ELSE stopped)
    /\ UNCHANGED <<troubles, binding, manager, backoff, view, change>>

DropsRecord(t, failed) ==   \* mutant
    /\ operation = t /\ at[t] = "stopping" /\ Alive(record.child)
    /\ operation' = "nobody" /\ record' = NoRecord /\ Go(t, failed)
    /\ UNCHANGED <<troubles, binding, manager, backoff, view, change, child>>
StopTimesOut(t, failed) ==
    /\ operation = t /\ at[t] = "stopping" /\ Alive(record.child)
    /\ operation' = "nobody" /\ Go(t, failed)
    /\ UNCHANGED <<troubles, binding, manager, record, backoff, view, change,
                   child>>

-----------------------------------------------------------------------------
(* The manager's thread: reconcile_once, for this binding.                 *)

ReadBinding ==
    /\ at["reconcile"] = "idle"
    /\ view' = [status |-> binding.status, revision |-> binding.revision,
                connected |-> binding.connected, run |-> FALSE]
    /\ Go("reconcile", "look")
    /\ UNCHANGED <<troubles, binding, manager, supervisor, change, child>>

AnyRevision ==   \* mutant
    /\ at["reconcile"] = "look"
    /\ LET run == view.status = "active" /\ ~paused
       IN  /\ view' = [view EXCEPT !.run = run]
           /\ Go("reconcile", IF run THEN "start"
                              ELSE IF known # 0 THEN "stop" ELSE "write")
    /\ UNCHANGED <<troubles, binding, manager, supervisor, change, child>>
\* What is paused and known is read later, and used later still.
LookAtPaused ==
    /\ at["reconcile"] = "look"
    /\ LET run == view.status = "active" /\ ~paused
       IN  /\ view' = [view EXCEPT !.run = run]
           /\ Go("reconcile",
                 IF run /\ known \in {0, view.revision} THEN "start"
                 ELSE IF run THEN "restart"
                 ELSE IF known # 0 THEN "stop" ELSE "write")
    /\ UNCHANGED <<troubles, binding, manager, supervisor, change, child>>

Reconciles ==
    \/ at["reconcile"] = "restart" /\ Stop("reconcile", "start")
    \/ at["reconcile"] = "stop" /\ Stop("reconcile", "stopped")
    \/ view.run /\ Stopped("reconcile", "start", "idle")
    \/ view.run /\ StopTimesOut("reconcile", "idle")
    \/ ~view.run /\ Stopped("reconcile", "stopped", "write")
    \/ ~view.run /\ StopTimesOut("reconcile", "write")
    \/ /\ at["reconcile"] = "start"
       /\ Start("reconcile", view.revision, "started", "write")
    \/ Spawn("reconcile", view.revision, "started")
    \/ SpawnFails("reconcile", "write")

\* _known after a start, or after a stop.
Knows ==
    /\ at["reconcile"] \in {"started", "stopped"}
    /\ known' = IF at["reconcile"] = "started" THEN view.revision ELSE 0
    /\ Go("reconcile", "write")
    /\ UNCHANGED <<troubles, binding, paused, supervisor, view, change, child>>

Connected == Alive(record.child) /\ record.connected

\* The guarded update of the column.
Current ==
    /\ view.status # "deleted"
    /\ binding.revision = view.revision /\ binding.status = view.status
WriteConnected ==
    /\ at["reconcile"] = "write"
    /\ binding' = IF Connected # view.connected /\ Current
                  THEN [binding EXCEPT !.connected = Connected] ELSE binding
    /\ Go("reconcile", "idle")
    /\ UNCHANGED <<troubles, manager, supervisor, view, change, child>>

-----------------------------------------------------------------------------
(* Requests that change the binding, and the thread a pause starts.        *)

Request(kind) ==
    /\ at["request"] = "idle" /\ troubles < MaxTroubles
    /\ binding.status \in CASE kind = "disable" -> {"active"}
                            [] kind = "enable"  -> {"disabled"}
                            [] OTHER            -> {"active", "disabled"}
    /\ troubles' = troubles + 1
    /\ change' = [kind |-> kind, start |-> binding.status = "active"]
    /\ IF kind = "enable"
       THEN Go("request", "commit") /\ UNCHANGED paused
       ELSE /\ paused' = TRUE
            /\ at' = [at EXCEPT !["request"] = "wait",
                                !["stop"] = IF @ \in {"idle", "done"}
                                            THEN "stop" ELSE @]
    /\ UNCHANGED <<binding, known, supervisor, view, child>>

Stops ==
    \/ at["stop"] = "stop" /\ Stop("stop", "stopped")
    \/ Stopped("stop", "stopped", "done")
    \/ StopTimesOut("stop", "done")

Forget ==
    /\ at["stop"] = "stopped"
    /\ known' = 0
    /\ Go("stop", "done")
    /\ UNCHANGED <<troubles, binding, paused, supervisor, view, change, child>>

\* wait_binding_stopped
Waited ==
    /\ at["request"] = "wait" /\ at["stop"] = "done"
    /\ record.state \in {"none", "gone"}
    /\ Go("request", "commit")
    /\ UNCHANGED <<troubles, binding, manager, supervisor, view, change, child>>

\* Five seconds have passed: 409, nothing is committed.
WaitTimesOut ==
    /\ at["request"] = "wait"
    /\ at["stop"] # "done" \/ record.state \notin {"none", "gone"}
    /\ change' = [change EXCEPT !.start = FALSE]
    /\ Go("request", "resume")
    /\ UNCHANGED <<troubles, binding, manager, supervisor, view, child>>

Commit ==
    /\ at["request"] = "commit"
    /\ binding' = CASE change.kind = "rotate"  ->
                         [status |-> "active", connected |-> FALSE,
                          revision |-> binding.revision + 1]
                    [] change.kind = "disable" ->
                         [binding EXCEPT !.status = "disabled"]
                    [] change.kind = "enable"  ->
                         [binding EXCEPT !.status = "active"]
                    [] OTHER -> [binding EXCEPT !.status = "deleted"]
    /\ change' = [change EXCEPT !.start = change.kind \in {"rotate", "enable"}]
    /\ Go("request", "resume")
    /\ UNCHANGED <<troubles, manager, supervisor, view, child>>

\* The transaction is rolled back: a conflict, a reaction that stays.
CommitFails ==
    /\ at["request"] = "commit"
    /\ Go("request", IF change.kind = "enable" THEN "idle" ELSE "resume")
    /\ UNCHANGED <<troubles, binding, manager, supervisor, view, change, child>>

\* resume_binding: refused, and the binding stays paused, when the thread
\* of the pause takes five seconds more.
Resume ==
    /\ at["request"] = "resume"
    /\ IF at["stop"] \in {"idle", "done"}
       THEN /\ paused' = FALSE /\ backoff' = FALSE
            /\ at' = [at EXCEPT
                        !["stop"] = "idle",
                        !["request"] = IF change.start
                                          /\ binding.status = "active"
                                       THEN "start" ELSE "idle"]
       ELSE Go("request", "idle") /\ UNCHANGED <<paused, backoff>>
    /\ UNCHANGED <<troubles, binding, known, record, operation, view, change,
                   child>>

\* ensure_binding
Ensures ==
    \/ /\ at["request"] = "start"
       /\ Start("request", binding.revision, "started", "idle")
    \/ Spawn("request", binding.revision, "started")
    \/ SpawnFails("request", "idle")

Ensured ==
    /\ at["request"] = "started"
    /\ known' = binding.revision
    /\ Go("request", "idle")
    /\ UNCHANGED <<troubles, binding, paused, supervisor, view, change, child>>

-----------------------------------------------------------------------------
(* The child, and the supervisor's thread that watches it.                 *)

Becomes(c, step, word) ==
    child' = [child EXCEPT ![c].at = step, ![c].says = word]
OnlyChild == UNCHANGED <<troubles, binding, manager, supervisor, at, view,
                         change>>

\* The lock file or exit code 73.
TakeLock(c) ==
    /\ child[c].at = "spawned"
    /\ Becomes(c, IF Locked THEN "dead" ELSE "holding", "nothing")
    /\ OnlyChild

\* The startup fence.
Served(c) == binding.status = "active" /\ binding.revision = child[c].revision
Fence(c) ==
    /\ child[c].at = "holding"
    /\ Becomes(c, IF Served(c) THEN "serving" ELSE "dead", "nothing")
    /\ OnlyChild

Connect(c) ==
    /\ child[c].at = "serving"
    /\ Becomes(c, "connected", "up")
    /\ OnlyChild

LoseConnection(c) ==
    /\ child[c].at = "connected" /\ troubles < MaxTroubles
    /\ troubles' = troubles + 1
    /\ Becomes(c, "serving", "down")
    /\ UNCHANGED <<binding, manager, supervisor, at, view, change>>

\* A child of a dead parent leaves nothing behind.
Gone(c) == IF child[c].orphan THEN NoProcess
           ELSE [child[c] EXCEPT !.at = "dead"]

Exit(c) ==
    /\ Alive(c) /\ child[c].doomed
    /\ child' = [child EXCEPT ![c] = Gone(c)]
    /\ OnlyChild

\* A crash, the watchdog of a frame, or the time limit for starting.
Die(c) ==
    /\ Alive(c) /\ troubles < MaxTroubles
    /\ troubles' = troubles + 1
    /\ child' = [child EXCEPT ![c] = Gone(c)]
    /\ UNCHANGED <<binding, manager, supervisor, at, view, change>>

\* poll_once: first what the child has sent,
Hear ==
    /\ record.child # NoChild
    /\ LET word == child[record.child].says
       IN  /\ word # "nothing"
           /\ record' = [record EXCEPT
                            !.connected = word = "up",
                            !.state = IF word = "up" THEN "running" ELSE @]
    /\ child' = [child EXCEPT ![record.child].says = "nothing"]
    /\ UNCHANGED <<troubles, binding, manager, backoff, operation, at, view,
                   change>>

\* then whether it lives; the third crash within a minute makes it wait.
Notice ==
    /\ record.child # NoChild /\ record.state # "gone"
    /\ child[record.child].at = "dead" /\ child[record.child].says = "nothing"
    /\ record' = [record EXCEPT !.state = "gone", !.connected = FALSE]
    /\ IF record.state = "stopping" THEN UNCHANGED backoff
       ELSE backoff' \in {backoff, TRUE}
    /\ UNCHANGED <<troubles, binding, manager, operation, at, view, change,
                   child>>

BackoffEnds ==
    /\ backoff
    /\ backoff' = FALSE
    /\ UNCHANGED <<troubles, binding, manager, record, operation, at, view,
                   change, child>>

\* The parent dies and starts again; its children read the end of the pipe.
Crash ==
    /\ troubles < MaxTroubles
    /\ troubles' = troubles + 1
    /\ paused' = FALSE /\ known' = 0
    /\ record' = NoRecord /\ backoff' = FALSE /\ operation' = "nobody"
    /\ at' = [t \in Threads |-> "idle"]
    /\ child' = [c \in Children |->
                    IF Alive(c) THEN [child[c] EXCEPT !.orphan = TRUE,
                                                      !.doomed = TRUE]
                    ELSE NoProcess]
    /\ UNCHANGED <<binding, view, change>>

-----------------------------------------------------------------------------
Manage   == ReadBinding \/ LookAtPaused \/ Reconciles \/ Knows
            \/ WriteConnected
Handle   == Waited \/ WaitTimesOut \/ Commit \/ CommitFails \/ Resume
            \/ Ensures \/ Ensured
Watch    == Hear \/ Notice \/ BackoffEnds
Run(c)   == TakeLock(c) \/ Fence(c) \/ Connect(c)
Process(c) == Run(c) \/ Exit(c) \/ LoseConnection(c) \/ Die(c)

Next ==
    \/ Manage \/ Stops \/ Forget \/ Handle \/ Watch \/ Crash
    \/ \E kind \in Kinds : Request(kind)
    \/ \E c \in Children : Process(c)

Spec == Init /\ [][Next]_vars

\* The threads go on, whoever else wants the operation lock; a child starts
\* up, or exits once it is told to; what it sends is read; waiting ends.
FairSpec ==
    /\ Spec
    /\ SF_vars(Manage) /\ SF_vars(Stops) /\ WF_vars(Forget) /\ SF_vars(Handle)
    /\ WF_vars(Hear) /\ WF_vars(Notice) /\ WF_vars(BackoffEnds)
    /\ \A c \in Children : WF_vars(Run(c)) /\ WF_vars(Exit(c))

-----------------------------------------------------------------------------
(* Properties                                                              *)

\* _start_binding_core, feishu_process.py:133: the supervisor knows every child of
\* its own that lives, also those that a stop gave up on or that another
\* thread has just started.
OneChild ==
    \A c \in Children : Alive(c) /\ ~child[c].orphan => c = record.child

\* reconcile_once, feishu_manager.py:73: in the end an active binding is
\* served with its revision and the others are not served, whatever the
\* snapshots, pauses, stops that time out and crashes came between; and the
\* column says so.  A binding whose resume was refused stays paused.
Converges ==
    <>[] /\ binding.status = "active" =>
               \/ paused
               \/ \E c \in Children : child[c].at = "connected" /\ Served(c)
         /\ binding.status # "active" => \A c \in Children : ~Alive(c)
         /\ binding.status # "deleted" => binding.connected = Connected

=============================================================================
