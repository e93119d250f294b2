----------------------------- MODULE Instances -----------------------------
(***************************************************************************)
(* Instances of the server, from main of src/server/main.c: how they start *)
(* and stop, and the lock, pid and socket files they compete for.  One     *)
(* action per system call on a file, so that the steps of two instances    *)
(* mix.  What a running instance does for its clients is module Server.    *)
(***************************************************************************)
EXTENDS Sequences, Naturals

CONSTANTS
    Instance,
    NoOne,
    MaxFaults       \* a bound on failing calls and kills

ASSUME InstancesAssumption == NoOne \notin Instance /\ MaxFaults \in Nat

File == {"lock", "pid", "socket"}

VARIABLES
    pc,             \* where in main an instance is; "off" when there is none
    todo,           \* the files it will still remove
    owner,          \* the instance that made each file, or NoOne
    catches,        \* its signal handler is installed
    signalled,      \* it was sent SIGTERM, at most once
    intruded,       \* history: an instance removed a file of another that was up
    faults          \* the number of failed calls and kills

vars == <<pc, todo, owner, catches, signalled, intruded, faults>>

Init ==
    /\ pc = [i \in Instance |-> "off"]
    /\ todo = [i \in Instance |-> <<>>]
    /\ owner = [f \in File |-> NoOne]
    /\ catches = [i \in Instance |-> FALSE]
    /\ signalled = [i \in Instance |-> FALSE]
    /\ intruded = FALSE
    /\ faults = 0

\* The instance has the lock and has not begun to remove files.
Up(i) == pc[i] \in {"locked", "pid", "unlinked", "bound", "running"}

Goto(i, place) == pc' = [pc EXCEPT ![i] = place]

\* What server_shutdown removes, whoever made it.
Shutdown == <<"socket", "pid", "lock">>

\* main leaves through server_shutdown, after it has removed some files itself.
Leave(i, files) ==
    /\ Goto(i, "leaving")
    /\ todo' = [todo EXCEPT ![i] = files \o Shutdown]

\* A call fails.
Fault == faults < MaxFaults /\ faults' = faults + 1

\* Mutant: O_CREAT without O_EXCL.
server_write_lock_shared(i) ==
    /\ pc[i] = "off"
    /\ owner' = [owner EXCEPT !["lock"] = i]
    /\ Goto(i, "locked")
    /\ UNCHANGED <<todo, catches, signalled, intruded, faults>>

\* Mutant: a refused start returns without server_shutdown.
server_write_lock_refuses(i) ==
    /\ pc[i] = "off"
    /\ IF owner["lock"] = NoOne
       THEN owner' = [owner EXCEPT !["lock"] = i] /\ Goto(i, "locked")
       ELSE UNCHANGED <<owner, pc>>
    /\ UNCHANGED <<todo, catches, signalled, intruded, faults>>

\* server_write_lock: the file is created only if there is none.
\* A start that cannot make the run directory or the Server ends before this
\* and changes nothing.
server_write_lock(i) ==
    /\ pc[i] = "off"
    /\ \/ /\ owner["lock"] = NoOne
          /\ owner' = [owner EXCEPT !["lock"] = i]
          /\ Goto(i, "locked")
          /\ UNCHANGED <<todo, faults>>
       \/ /\ IF owner["lock"] = NoOne THEN Fault ELSE UNCHANGED faults
          /\ Leave(i, <<>>)
          /\ UNCHANGED owner
    /\ UNCHANGED <<catches, signalled, intruded>>

server_write_pid(i) ==
    /\ pc[i] = "locked"
    /\ \/ /\ owner' = [owner EXCEPT !["pid"] = i]
          /\ Goto(i, "pid")
          /\ UNCHANGED <<todo, faults>>
       \/ /\ Fault
          /\ Leave(i, <<"lock">>)
          /\ UNCHANGED owner
    /\ UNCHANGED <<catches, signalled, intruded>>

\* A file goes away.
Unlink(i, f) ==
    /\ owner' = [owner EXCEPT ![f] = NoOne]
    /\ intruded' = (intruded \/ \E j \in Instance \ {i} : owner[f] = j /\ Up(j))

\* server_bind_and_listen removes the socket first.
unlink_socket(i) ==
    /\ pc[i] = "pid"
    /\ Unlink(i, "socket")
    /\ Goto(i, "unlinked")
    /\ UNCHANGED <<todo, catches, signalled, faults>>

\* bind fails when the path exists again; when listen fails the file is made
\* all the same.  server_setup_signals follows.
bind_and_listen(i) ==
    /\ pc[i] = "unlinked"
    /\ \/ /\ owner["socket"] = NoOne
          /\ owner' = [owner EXCEPT !["socket"] = i]
          /\ Goto(i, "bound")
          /\ catches' = [catches EXCEPT ![i] = TRUE]
          /\ UNCHANGED <<todo, faults>>
       \/ /\ owner["socket"] = NoOne
          /\ Fault
          /\ owner' \in {owner, [owner EXCEPT !["socket"] = i]}
          /\ Leave(i, <<"pid", "lock">>)
          /\ UNCHANGED catches
       \/ /\ owner["socket"] # NoOne
          /\ Leave(i, <<"pid", "lock">>)
          /\ UNCHANGED <<owner, catches, faults>>
    /\ UNCHANGED <<signalled, intruded>>

open_database(i) ==
    /\ pc[i] = "bound"
    /\ \/ /\ Goto(i, "running")
          /\ UNCHANGED <<todo, faults>>
       \/ /\ Fault
          /\ Leave(i, <<"pid", "lock">>)
    /\ UNCHANGED <<owner, catches, signalled, intruded>>

\* server_run ends at a SHUTDOWN request; the database is closed.
stop(i) ==
    /\ pc[i] = "running"
    /\ Leave(i, <<>>)
    /\ UNCHANGED <<owner, catches, signalled, intruded, faults>>

\* One unlink on the way out; after the last one the process ends.
leave(i) ==
    /\ pc[i] = "leaving"
    /\ Unlink(i, Head(todo[i]))
    /\ todo' = [todo EXCEPT ![i] = Tail(@)]
    /\ IF Len(todo[i]) = 1
       THEN /\ Goto(i, "off")
            /\ catches' = [catches EXCEPT ![i] = FALSE]
            /\ signalled' = [signalled EXCEPT ![i] = FALSE]
       ELSE UNCHANGED <<pc, catches, signalled>>
    /\ UNCHANGED faults

\* The process is gone; its files stay.
Gone(i) ==
    /\ Goto(i, "off")
    /\ todo' = [todo EXCEPT ![i] = <<>>]
    /\ catches' = [catches EXCEPT ![i] = FALSE]
    /\ signalled' = [signalled EXCEPT ![i] = FALSE]
    /\ UNCHANGED <<owner, intruded>>

killed(i) ==
    /\ pc[i] # "off"
    /\ Fault
    /\ Gone(i)

\* The handler looks at g_server, which nothing sets: it does nothing.
\* Before it is installed the signal ends the process.
sigterm(i) ==
    /\ pc[i] # "off"
    /\ ~signalled[i]
    /\ IF catches[i]
       THEN /\ signalled' = [signalled EXCEPT ![i] = TRUE]
            /\ UNCHANGED <<pc, todo, owner, catches, intruded, faults>>
       ELSE Fault /\ Gone(i)

\* What an instance does by itself.
Step(i) ==
    \/ server_write_pid(i)
    \/ unlink_socket(i)
    \/ bind_and_listen(i)
    \/ open_database(i)
    \/ leave(i)

Next ==
    \E i \in Instance :
       \/ server_write_lock(i)
       \/ Step(i)
       \/ stop(i)
       \/ killed(i)
       \/ sigterm(i)

Spec == Init /\ [][Next]_vars

\* A started instance goes on, and one that has ended is started again.
Fairness ==
    \A i \in Instance : WF_vars(Step(i)) /\ WF_vars(server_write_lock(i))

FairSpec == Spec /\ Fairness

----------------------------------------------------------------------------
(* Properties.                                                             *)

TypeOK ==
    /\ pc \in [Instance -> {"off", "locked", "pid", "unlinked", "bound", "running", "leaving"}]
    /\ todo \in [Instance -> Seq(File)]
    /\ owner \in [File -> Instance \cup {NoOne}]
    /\ catches \in [Instance -> BOOLEAN]
    /\ signalled \in [Instance -> BOOLEAN]
    /\ intruded \in BOOLEAN
    /\ faults \in 0 .. MaxFaults

\* The lock excludes: as long as no instance has removed a file of another
\* that is up, at most one instance is past server_write_lock, and the lock,
\* pid and socket files are its own from the moment it has made them.
LockExcludes ==
    ~intruded =>
       \A i \in Instance : Up(i) =>
          /\ \A j \in Instance : Up(j) => j = i
          /\ owner["lock"] = i
          /\ pc[i] # "locked" => owner["pid"] = i
          /\ pc[i] \in {"bound", "running"} => owner["socket"] = i

\* A lock file that a killed server left does not keep the service down: if
\* starts are repeated and faults end, some instance runs again and again.
\* The start that is refused removes the stale lock.
RunsAgain == []<>(\E i \in Instance : pc[i] = "running")

\* "The server SHALL prevent multiple instances" (server-daemon/spec.md:65).
SingleInstance ==
    \A i, j \in Instance : pc[i] = "running" /\ pc[j] = "running" => i = j
============================================================================
