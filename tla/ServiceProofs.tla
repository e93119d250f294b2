--------------------------- MODULE ServiceProofs ---------------------------
(***************************************************************************)
(* Proofs about the processes around a database: instances of the daemon   *)
(* (module Instances), the server and its connections (Server), and the    *)
(* command-line client (Client), for any number of instances, connections, *)
(* faults and requests and every size of a line.                           *)
(***************************************************************************)
EXTENDS Instances, Client, Server, SequenceTheorems, TLAPS

----------------------------------------------------------------------------
(* Instances of the daemon.  The inductive invariant is TypeOK with the    *)
(* files of each instance that is up; that two are never up follows, since *)
(* the lock has one owner.                                                 *)

\* While nobody has removed a live instance's file, the files an instance has
\* made since it took the lock are its own.
FilesOwn ==
    ~intruded =>
       \A i \in Instance : Up(i) =>
          /\ owner["lock"] = i
          /\ pc[i] # "locked" => owner["pid"] = i
          /\ pc[i] \in {"bound", "running"} => owner["socket"] = i

\* A refused or failing instance leaves with a list of files to remove.
Leaving ==
    \A i \in Instance : pc[i] = "leaving" => todo[i] # <<>>

IInv == TypeOK /\ FilesOwn /\ Leaving

\* The excluded owner is unique, which makes the instance that is up unique.
LEMMA OwnAlone == TypeOK /\ FilesOwn => LockExcludes
BY DEF TypeOK, FilesOwn, LockExcludes

\* The invariant holds before any instance is started.
LEMMA InstancesInit == Init => IInv
<1>. SUFFICES ASSUME Init PROVE IInv
  OBVIOUS
<1>1. TypeOK
  <2>1. /\ faults \in 0 .. MaxFaults
        /\ todo \in [Instance -> Seq(File)]
        /\ pc \in [Instance -> {"off", "locked", "pid", "unlinked", "bound", "running", "leaving"}]
        /\ owner \in [File -> Instance \cup {NoOne}]
    BY InstancesAssumption DEF Init
  <2>2. /\ catches \in [Instance -> BOOLEAN]
        /\ signalled \in [Instance -> BOOLEAN]
        /\ intruded \in BOOLEAN
    BY Zenon DEF Init
  <2>. QED BY <2>1, <2>2 DEF TypeOK
<1>2. FilesOwn /\ Leaving
  BY DEF Init, FilesOwn, Leaving, Up
<1>. QED BY <1>1, <1>2 DEF IInv

\* The list of server_shutdown makes every list of files one that is not empty.
LEMMA LeaveList ==
    ASSUME NEW files \in Seq(File)
    PROVE  files \o Shutdown \in Seq(File) /\ files \o Shutdown # <<>>
<1>1. Shutdown \in Seq(File) /\ Shutdown # <<>>
  BY DEF Shutdown, File
<1>. HIDE DEF Shutdown
<1>2. files \o Shutdown \in Seq(File)
  BY <1>1, ConcatProperties, Zenon
<1>3. Len(files \o Shutdown) = Len(files) + Len(Shutdown)
  BY <1>1, ConcatProperties, Zenon
<1>4. Len(files) \in Nat /\ Len(Shutdown) \in Nat \ {0} /\ Len(<<>>) = 0
  <2>1. Len(Shutdown) \in Nat \ {0} /\ Len(<<>>) = 0
    BY <1>1, EmptySeq, Zenon
  <2>2. Len(files) \in Nat
    BY LenProperties, Zenon
  <2>. QED BY <2>1, <2>2
<1>5. Len(files \o Shutdown) # 0
  BY <1>3, <1>4
<1>. QED BY <1>2, <1>4, <1>5, Zenon

\* The rest of a list of more than one file is not empty.
LEMMA RestList ==
    ASSUME NEW files \in Seq(File), files # <<>>
    PROVE  /\ Head(files) \in File
           /\ Tail(files) \in Seq(File)
           /\ Len(files) # 1 => Tail(files) # <<>>
<1>1. Head(files) \in File /\ Tail(files) \in Seq(File)
  BY HeadTailProperties, Zenon
<1>2. Len(Tail(files)) = Len(files) - 1
  BY HeadTailProperties, Zenon
<1>3. Len(files) \in Nat \ {0} /\ Len(<<>>) = 0
  BY EmptySeq, Zenon
<1>4. Len(files) # 1 => Len(Tail(files)) # 0
  BY <1>2, <1>3
<1>. QED BY <1>1, <1>3, <1>4, Zenon

\* What an instance on its way out removes are files, and never none.
LEMMA LeaveTodo ==
    ASSUME TypeOK, NEW i \in Instance, NEW files \in Seq(File), Leave(i, files)
    PROVE  /\ pc' = [pc EXCEPT ![i] = "leaving"]
           /\ todo' \in [Instance -> Seq(File)]
           /\ todo'[i] # <<>>
           /\ \A j \in Instance \ {i} : todo'[j] = todo[j]
<1>1. files \o Shutdown \in Seq(File) /\ files \o Shutdown # <<>>
  BY LeaveList
<1>2. pc' = [pc EXCEPT ![i] = "leaving"] /\ todo' = [todo EXCEPT ![i] = files \o Shutdown]
  BY DEF Leave, Goto
<1>. HIDE DEF Shutdown
<1>. QED BY <1>1, <1>2 DEF TypeOK

\* The bound on faults is kept.
LEMMA FaultBound ==
    ASSUME TypeOK, Fault
    PROVE  faults' \in 0 .. MaxFaults
BY InstancesAssumption DEF TypeOK, Fault

\* The history of intrusions stays a truth value and is never taken back.
LEMMA UnlinkFile ==
    ASSUME TypeOK, NEW i \in Instance, NEW f \in File, Unlink(i, f)
    PROVE  /\ owner' \in [File -> Instance \cup {NoOne}]
           /\ intruded' \in BOOLEAN
           /\ \A g \in File \ {f} : owner'[g] = owner[g]
           /\ ~intruded' => ~intruded /\ \A j \in Instance \ {i} : Up(j) => owner[f] # j
<1>1. intruded' \in BOOLEAN
  BY Zenon DEF TypeOK, Unlink
<1>2. owner' \in [File -> Instance \cup {NoOne}] /\ \A g \in File \ {f} : owner'[g] = owner[g]
  BY DEF TypeOK, Unlink
<1>3. ~intruded' => ~intruded /\ \A j \in Instance \ {i} : Up(j) => owner[f] # j
  BY Zenon DEF Unlink
<1>. QED BY <1>1, <1>2, <1>3

\* Every step keeps the types and the lists of the leaving instances.
LEMMA InstancesType ==
    ASSUME IInv, NEW i \in Instance,
           \/ server_write_lock(i) \/ Step(i) \/ stop(i) \/ killed(i) \/ sigterm(i)
    PROVE  TypeOK' /\ Leaving'
<1>. DEFINE Place == {"off", "locked", "pid", "unlinked", "bound", "running", "leaving"}
            Types == /\ pc' \in [Instance -> Place]
                     /\ todo' \in [Instance -> Seq(File)]
                     /\ owner' \in [File -> Instance \cup {NoOne}]
                     /\ faults' \in 0 .. MaxFaults
            Bools == /\ catches' \in [Instance -> BOOLEAN]
                     /\ signalled' \in [Instance -> BOOLEAN]
                     /\ intruded' \in BOOLEAN
<1>. SUFFICES Types /\ Bools /\ Leaving'
  BY DEF TypeOK
<1>f. "lock" \in File /\ "pid" \in File /\ "socket" \in File
  BY DEF File
<1>s. <<>> \in Seq(File) /\ <<"lock">> \in Seq(File) /\ <<"pid", "lock">> \in Seq(File)
  BY <1>f
<1>t. TypeOK /\ Leaving
  BY DEF IInv
<1>1. CASE server_write_lock(i)
  <2>1. Bools
    BY <1>1, <1>t, Zenon DEF server_write_lock, TypeOK
  <2>2. CASE Leave(i, <<>>) /\ owner' = owner /\ faults' \in 0 .. MaxFaults
    BY <2>1, <2>2, <1>t, <1>s, LeaveTodo, Zenon DEF TypeOK, Leaving
  <2>3. CASE Goto(i, "locked") /\ owner' = [owner EXCEPT !["lock"] = i] /\ todo' = todo /\ faults' = faults
    BY <2>1, <2>3, <1>t, <1>f DEF TypeOK, Leaving, Goto
  <2>. QED BY <1>1, <1>t, <2>2, <2>3, FaultBound DEF server_write_lock, TypeOK
<1>2. CASE server_write_pid(i)
  <2>1. Bools
    BY <1>2, <1>t, Zenon DEF server_write_pid, TypeOK
  <2>2. CASE Leave(i, <<"lock">>) /\ owner' = owner /\ Fault
    BY <2>1, <2>2, <1>t, <1>s, LeaveTodo, FaultBound, Zenon DEF TypeOK, Leaving
  <2>3. CASE Goto(i, "pid") /\ owner' = [owner EXCEPT !["pid"] = i] /\ todo' = todo /\ faults' = faults
    BY <2>1, <2>3, <1>t, <1>f DEF TypeOK, Leaving, Goto
  <2>. QED BY <1>2, <2>2, <2>3 DEF server_write_pid
<1>3. CASE unlink_socket(i)
  <2>1. Bools
    BY <1>3, <1>t, <1>f, UnlinkFile, Zenon DEF unlink_socket, TypeOK
  <2>2. Types /\ Leaving'
    BY <1>3, <1>t, <1>f, UnlinkFile DEF unlink_socket, TypeOK, Goto, Leaving
  <2>. QED BY <2>1, <2>2
<1>4. CASE bind_and_listen(i)
  <2>1. Bools
    BY <1>4, <1>t, Zenon DEF bind_and_listen, TypeOK
  <2>2. CASE Leave(i, <<"pid", "lock">>)
    <3>1. owner' \in [File -> Instance \cup {NoOne}]
      BY <1>4, <1>t, <1>f DEF bind_and_listen, TypeOK
    <3>2. faults' \in 0 .. MaxFaults
      BY <1>4, <1>t, FaultBound DEF bind_and_listen, TypeOK
    <3>. QED BY <2>1, <2>2, <3>1, <3>2, <1>t, <1>s, LeaveTodo, Zenon DEF TypeOK, Leaving
  <2>3. CASE Goto(i, "bound") /\ owner' = [owner EXCEPT !["socket"] = i] /\ todo' = todo /\ faults' = faults
    BY <2>1, <2>3, <1>t, <1>f DEF TypeOK, Leaving, Goto
  <2>. QED BY <1>4, <2>2, <2>3 DEF bind_and_listen
<1>5. CASE open_database(i)
  <2>1. Bools
    BY <1>5, <1>t, Zenon DEF open_database, TypeOK
  <2>2. CASE Leave(i, <<"pid", "lock">>) /\ owner' = owner /\ Fault
    BY <2>1, <2>2, <1>t, <1>s, LeaveTodo, FaultBound, Zenon DEF TypeOK, Leaving
  <2>3. CASE Goto(i, "running") /\ owner' = owner /\ todo' = todo /\ faults' = faults
    BY <2>1, <2>3, <1>t DEF TypeOK, Leaving, Goto
  <2>. QED BY <1>5, <2>2, <2>3 DEF open_database
<1>6. CASE leave(i)
  <2>1. todo[i] \in Seq(File) /\ todo[i] # <<>>
    BY <1>6, <1>t DEF leave, TypeOK, Leaving
  <2>2. Head(todo[i]) \in File /\ Tail(todo[i]) \in Seq(File)
        /\ (Len(todo[i]) # 1 => Tail(todo[i]) # <<>>)
    BY <2>1, RestList
  <2>3. owner' \in [File -> Instance \cup {NoOne}] /\ intruded' \in BOOLEAN
    BY <1>6, <1>t, <2>2, UnlinkFile DEF leave
  <2>4. Bools
    <3>1. CASE Len(todo[i]) = 1
      BY <3>1, <1>6, <1>t, <2>3, Zenon DEF leave, TypeOK
    <3>2. CASE Len(todo[i]) # 1
      BY <3>2, <1>6, <1>t, <2>3, Zenon DEF leave, TypeOK
    <3>. QED BY <3>1, <3>2
  <2>5. Types /\ Leaving'
    BY <1>6, <1>t, <2>2, <2>3, Zenon DEF leave, TypeOK, Goto, Leaving
  <2>. QED BY <2>4, <2>5
<1>7. CASE stop(i)
  <2>1. Bools
    BY <1>7, <1>t, Zenon DEF stop, TypeOK
  <2>. QED BY <1>7, <2>1, <1>t, <1>s, LeaveTodo, Zenon DEF stop, TypeOK, Leaving
<1>8. CASE Gone(i) /\ Fault
  <2>1. Bools
    BY <1>8, <1>t, Zenon DEF Gone, TypeOK
  <2>. QED BY <1>8, <2>1, <1>t, <1>s, FaultBound DEF Gone, Goto, TypeOK, Leaving
<1>9. CASE catches[i] /\ sigterm(i)
  <2>1. Bools
    BY <1>9, <1>t, Zenon DEF sigterm, TypeOK
  <2>. QED BY <1>9, <2>1, <1>t DEF sigterm, TypeOK, Leaving
<1>. QED BY <1>1, <1>2, <1>3, <1>4, <1>5, <1>6, <1>7, <1>8, <1>9 DEF Step, killed, sigterm

\* An instance that leaves or ends, with no file changed, disturbs no other.
LEMMA NoFileChanged ==
    ASSUME IInv, NEW i \in Instance, owner' = owner, intruded' = intruded,
           pc' \in [Instance -> {"off", "locked", "pid", "unlinked", "bound", "running", "leaving"}],
           \A j \in Instance \ {i} : pc'[j] = pc[j],
           ~Up(i)'
    PROVE  FilesOwn'
BY DEF IInv, TypeOK, FilesOwn, Up

\* Every step keeps the files of the instances that are up.
LEMMA InstancesFiles ==
    ASSUME IInv, TypeOK', NEW i \in Instance,
           \/ server_write_lock(i) \/ Step(i) \/ stop(i) \/ killed(i) \/ sigterm(i)
    PROVE  FilesOwn'
<1>t. TypeOK /\ FilesOwn /\ Leaving
  BY DEF IInv
<1>f. "lock" \in File /\ "pid" \in File /\ "socket" \in File
  BY DEF File
<1>a. \A j \in Instance : Up(i) /\ Up(j) /\ ~intruded => j = i
  BY <1>t, OwnAlone DEF LockExcludes
<1>n. ASSUME owner' = owner, intruded' = intruded, pc' = [pc EXCEPT ![i] = "leaving"] \/ pc' = [pc EXCEPT ![i] = "off"]
      PROVE  FilesOwn'
  <2>1. ~Up(i)' /\ \A j \in Instance \ {i} : pc'[j] = pc[j]
    BY <1>n, <1>t DEF Up, TypeOK
  <2>. QED BY <2>1, <1>n, NoFileChanged DEF TypeOK
<1>1. CASE server_write_lock(i)
  <2>1. CASE owner["lock"] = NoOne /\ owner' = [owner EXCEPT !["lock"] = i] /\ pc' = [pc EXCEPT ![i] = "locked"]
    <3>1. intruded' = intruded
      BY <1>1, Zenon DEF server_write_lock
    <3>2. ~intruded => \A j \in Instance : ~Up(j)
      BY <2>1, <1>t, InstancesAssumption DEF FilesOwn
    <3>3. \A j \in Instance \ {i} : Up(j)' => Up(j)
      BY <2>1, <1>t DEF Up, TypeOK
    <3>4. owner'["lock"] = i /\ pc'[i] = "locked"
      BY <2>1, <1>t, <1>f DEF TypeOK
    <3>. QED BY <3>1, <3>2, <3>3, <3>4 DEF FilesOwn
  <2>. QED BY <1>1, <2>1, <1>n DEF server_write_lock, Goto, Leave
<1>2. CASE server_write_pid(i)
  <2>1. CASE owner' = [owner EXCEPT !["pid"] = i] /\ pc' = [pc EXCEPT ![i] = "pid"]
    <3>1. intruded' = intruded /\ Up(i)
      BY <1>2, Zenon DEF server_write_pid, Up
    <3>2. \A j \in Instance \ {i} : Up(j)' => Up(j)
      BY <2>1, <1>t DEF Up, TypeOK
    <3>3. pc'[i] = "pid" /\ owner'["pid"] = i /\ owner'["lock"] = owner["lock"]
      BY <2>1, <1>t, <1>f DEF TypeOK
    <3>. QED BY <3>1, <3>2, <3>3, <1>a, <1>t DEF FilesOwn
  <2>. QED BY <1>2, <2>1, <1>n DEF server_write_pid, Goto, Leave
<1>3. CASE unlink_socket(i)
  <2>1. Up(i) /\ pc[i] # "locked" /\ pc' = [pc EXCEPT ![i] = "unlinked"] /\ Unlink(i, "socket")
    BY <1>3 DEF unlink_socket, Up, Goto
  <2>2. (~intruded' => ~intruded) /\ owner'["lock"] = owner["lock"] /\ owner'["pid"] = owner["pid"]
    BY <2>1, <1>t, <1>f, UnlinkFile
  <2>3. pc'[i] = "unlinked" /\ \A j \in Instance \ {i} : Up(j)' => Up(j)
    BY <2>1, <1>t DEF Up, TypeOK
  <2>. QED BY <2>1, <2>2, <2>3, <1>a, <1>t DEF FilesOwn
<1>4. CASE bind_and_listen(i)
  <2>0. Up(i) /\ pc[i] # "locked" /\ intruded' = intruded
    BY <1>4, Zenon DEF bind_and_listen, Up
  <2>1. CASE owner' = [owner EXCEPT !["socket"] = i] /\ pc' = [pc EXCEPT ![i] = "bound"]
    <3>1. pc'[i] = "bound" /\ \A j \in Instance \ {i} : Up(j)' => Up(j)
      BY <2>1, <1>t DEF Up, TypeOK
    <3>2. owner'["socket"] = i /\ owner'["lock"] = owner["lock"] /\ owner'["pid"] = owner["pid"]
      BY <2>1, <1>t, <1>f DEF TypeOK
    <3>. QED BY <2>0, <3>1, <3>2, <1>a, <1>t DEF FilesOwn
  <2>2. CASE pc' = [pc EXCEPT ![i] = "leaving"]
    <3>1. ~Up(i)' /\ \A j \in Instance \ {i} : Up(j)' => Up(j)
      BY <2>2, <1>t DEF Up, TypeOK
    <3>. QED BY <2>0, <3>1, <1>a DEF FilesOwn
  <2>. QED BY <1>4, <2>1, <2>2 DEF bind_and_listen, Goto, Leave
<1>5. CASE open_database(i)
  <2>1. CASE pc' = [pc EXCEPT ![i] = "running"] /\ owner' = owner /\ intruded' = intruded
    BY <1>5, <2>1, <1>t DEF open_database, FilesOwn, Up, TypeOK
  <2>. QED BY <1>5, <2>1, <1>n DEF open_database, Goto, Leave
<1>6. CASE leave(i)
  <2>1. todo[i] \in Seq(File) /\ todo[i] # <<>>
    BY <1>6, <1>t DEF leave, TypeOK, Leaving
  <2>2. PICK f \in File : Unlink(i, f)
    BY <1>6, <2>1 DEF leave
  <2>3. ~Up(i)' /\ \A j \in Instance \ {i} : pc'[j] = pc[j]
    BY <1>6, <1>t DEF leave, Goto, Up, TypeOK
  <2>4. /\ \A g \in File \ {f} : owner'[g] = owner[g]
        /\ ~intruded' => ~intruded /\ \A j \in Instance \ {i} : Up(j) => owner[f] # j
    BY <2>2, <1>t, UnlinkFile, SMTT(30)
  <2>5. SUFFICES ASSUME ~intruded', NEW j \in Instance, Up(j)'
                 PROVE  /\ owner'["lock"] = j
                        /\ pc'[j] # "locked" => owner'["pid"] = j
                        /\ pc'[j] \in {"bound", "running"} => owner'["socket"] = j
    BY DEF FilesOwn
  <2>6. j # i /\ Up(j) /\ pc'[j] = pc[j]
    BY <2>3, <2>5 DEF Up
  <2>7. /\ owner["lock"] = j
        /\ pc[j] # "locked" => owner["pid"] = j
        /\ pc[j] \in {"bound", "running"} => owner["socket"] = j
        /\ owner[f] # j
    BY <2>4, <2>5, <2>6, <1>t DEF FilesOwn
  <2>. QED BY <2>4, <2>6, <2>7, <1>f
<1>7. CASE stop(i)
  BY <1>7, <1>n DEF stop, Leave, Goto
<1>8. CASE Gone(i)
  BY <1>8, <1>n DEF Gone, Goto
<1>9. CASE catches[i] /\ sigterm(i)
  BY <1>9, <1>t DEF sigterm, FilesOwn, Up
<1>. QED BY <1>1, <1>2, <1>3, <1>4, <1>5, <1>6, <1>7, <1>8, <1>9 DEF Step, killed, sigterm

\* Every reachable state satisfies the invariant.
THEOREM InstancesInvariant == Spec => []IInv
<1>1. IInv /\ [Next]_vars => IInv'
  <2>. SUFFICES ASSUME IInv, [Next]_vars PROVE IInv'
    OBVIOUS
  <2>1. CASE Next
    BY <2>1, InstancesType, InstancesFiles DEF Next, IInv
  <2>2. CASE UNCHANGED vars
    BY <2>2 DEF vars, IInv, TypeOK, FilesOwn, Leaving, Up
  <2>. QED BY <2>1, <2>2
<1>. QED BY <1>1, InstancesInit, PTL DEF Spec

\* For any number of instances and faults: while no instance has removed a
\* file of another that is up, at most one is past server_write_lock and the
\* lock, pid and socket files are its own.
THEOREM InstancesLock == Spec => []LockExcludes
<1>1. IInv => LockExcludes
  BY OwnAlone DEF IInv
<1>. QED BY <1>1, InstancesInvariant, PTL
----------------------------------------------------------------------------
(* The buffer of the statement.                                            *)

\* The statement pending, and every statement sent, fit in sql_buf with their end.
BufferInv ==
    /\ sql_len \in Nat
    /\ sql_len < SqlBuf
    /\ sent \in Seq([full : Nat, len : Nat])
    /\ SentFits

\* A line is no longer than fgets allows, so that alone it fits.
LEMMA LineShort ==
    ASSUME NEW line \in Line
    PROVE  line.len \in Nat /\ line.len < SqlBuf
  <1>1. line.len \in 1 .. MaxLine - 1 \/ line.len = 0 \/ line.len = MaxLine - 1
    BY Zenon DEF Line
  <1> QED BY <1>1, ClientAssumption DEF SqlBuf

\* What cli_execute_sql sends is the statement, if it sends anything.
LEMMA ExecuteFits ==
    ASSUME BufferInv, NEW n \in Nat, n < SqlBuf, cli_execute_sql(n)
    PROVE  sent' \in Seq([full : Nat, len : Nat]) /\ SentFits'
  <1>1. CASE sent' = sent
    BY <1>1 DEF BufferInv, SentFits, SqlBuf
  <1>2. CASE sent' = Append(sent, Request(n))
    <2>1. Request(n) \in [full : Nat, len : Nat] /\ Request(n).full = n
      BY ClientAssumption DEF Request
    <2>2. sent' \in Seq([full : Nat, len : Nat])
      BY <1>2, <2>1 DEF BufferInv
    <2>3. Len(sent') = Len(sent) + 1 /\ sent'[Len(sent) + 1] = Request(n)
          /\ \A i \in 1 .. Len(sent) : sent'[i] = sent[i]
      BY <1>2, <2>1, AppendProperties DEF BufferInv
    <2>4. ASSUME NEW i \in DOMAIN sent' PROVE sent'[i].full < SqlBuf
      <3>1. i \in 1 .. Len(sent) + 1 /\ Len(sent) \in Nat
        BY <2>2, <2>3 DEF BufferInv
      <3>2. CASE i \in 1 .. Len(sent)
        <4>1. i \in DOMAIN sent
          BY <3>2, LenProperties DEF BufferInv
        <4>2. sent'[i] = sent[i]
          BY <2>3, <3>2
        <4> QED BY <4>1, <4>2, Zenon DEF BufferInv, SentFits
      <3>3. CASE i = Len(sent) + 1
        BY <2>1, <2>3, <3>3
      <3> QED BY <3>1, <3>2, <3>3
    <2> QED BY <2>2, <2>4 DEF SentFits, SqlBuf
  <1> QED BY <1>1, <1>2 DEF cli_execute_sql

\* Every step keeps it: the check before a line is added counts the space.
LEMMA BufferStep == BufferInv /\ [ClientNext]_clientVars => BufferInv'
  <1> SUFFICES ASSUME BufferInv, [ClientNext]_clientVars PROVE BufferInv'
    OBVIOUS
  <1> USE ClientAssumption
  <1>1. ASSUME NEW line \in Line, ReadLine(line) PROVE BufferInv'
    <2>1. line.len \in Nat /\ line.len < SqlBuf
      BY LineShort
    <2>2. CASE UNCHANGED <<sql_len, sent>>
      BY <2>2 DEF BufferInv, SentFits, SqlBuf
    <2>3. CASE Forget /\ UNCHANGED sent
      BY <2>3 DEF BufferInv, SentFits, SqlBuf, Forget
    <2>4. CASE mode = "pipe" \/ mode # "tty"
      <3>1. piped_line(line)
        BY <1>1, <2>4 DEF ReadLine
      <3>2. CASE cli_execute_sql(line.len)
        BY <2>1, <3>1, <3>2, ExecuteFits DEF piped_line, BufferInv, SqlBuf
      <3>3. CASE UNCHANGED sent
        BY <2>2, <3>1, <3>3 DEF piped_line
      <3> QED BY <3>1, <3>2, <3>3 DEF piped_line
    <2>5. CASE mode = "tty"
      <3> DEFINE n == IF sql_len > 0 THEN sql_len + 1 + line.len ELSE line.len
      <3>1. interactive_line(line)
        BY <1>1, <2>5 DEF ReadLine
      <3>2. n \in Nat
        BY <2>1 DEF BufferInv
      <3>3. ASSUME Fits(line.len) PROVE n < SqlBuf
        BY <3>3, <2>1 DEF Fits, BufferInv, SqlBuf
      <3>4. CASE Fits(line.len) /\ Forget /\ cli_execute_sql(n)
        BY <3>2, <3>3, <3>4, ExecuteFits DEF Forget, BufferInv, SqlBuf
      <3>5. CASE Fits(line.len) /\ sql_len' = n /\ UNCHANGED sent
        BY <3>2, <3>3, <3>5 DEF BufferInv, SentFits, SqlBuf
      <3> QED BY <2>2, <2>3, <3>1, <3>4, <3>5 DEF interactive_line
    <2> QED BY <2>4, <2>5
  <1>2. CASE UNCHANGED <<sql_len, sent>>
    BY <1>2 DEF BufferInv, SentFits, SqlBuf
  <1> QED
    BY <1>1, <1>2 DEF ClientNext, clientVars, cli, Start, EndOfFile, Read, ServerAnswers, ServerStops, ServerStarts

\* Whatever is typed, a statement put together from lines fits in sql_buf with its
\* terminating zero (cli.c:316-328), for every CLI_MAX_LINE.
THEOREM ClientSentFits == ClientSpec => []SentFits
  <1>1. ClientInit => BufferInv
    BY ClientAssumption DEF ClientInit, BufferInv, SentFits, SqlBuf
  <1>2. BufferInv => SentFits
    BY DEF BufferInv
  <1> QED BY <1>1, <1>2, BufferStep, PTL DEF ClientSpec

----------------------------------------------------------------------------
(* The exchange with the server.                                           *)

Chunk == [of : Nat, end : BOOLEAN]

\* The server has the last statement only, and then nothing is on the way; what is
\* on the way, with what has been read, is the whole answer to the last statement;
\* a response is shown when all of it has been read.
ExchangeInv ==
    /\ sent \in Seq([full : Nat, len : Nat])
    /\ inbox \in Nat /\ stream \in Seq(Chunk) /\ got \in Seq(Chunk) /\ shown \in Seq(Nat)
    /\ inbox # 0 => phase = "wait" /\ inbox = Len(sent) /\ Len(stream) = 0 /\ Len(got) = 0
    /\ sock = "dead" => inbox = 0
    /\ Len(stream) > 0 => phase = "wait" /\ Len(got) + Len(stream) = 2
    /\ phase = "wait" /\ Len(got) > 0 => Len(stream) > 0
    /\ \A i \in 1 .. Len(stream) : stream[i].of = Len(sent)
    /\ \A i \in 1 .. Len(stream) : IF i + Len(got) = 2 THEN stream[i].end ELSE ~stream[i].end
    /\ \A i \in 1 .. Len(got) : got[i].of = Len(sent)
    /\ \A i \in 1 .. Len(shown) : shown[i] <= Len(sent)
    /\ phase = "wait" => \A i \in 1 .. Len(shown) : shown[i] < Len(sent)
    /\ \A i, j \in 1 .. Len(shown) : i < j => shown[i] < shown[j]

\* The server writes the whole answer at once.
LEMMA AnswerStep == ExchangeInv /\ ServerAnswers => ExchangeInv'
  <1> SUFFICES ASSUME ExchangeInv, ServerAnswers PROVE ExchangeInv'
    OBVIOUS
  <1> DEFINE first == [of |-> inbox, end |-> FALSE]
             second == [of |-> inbox, end |-> TRUE]
             answer == <<first, second>>
  <1>1. inbox # 0 /\ inbox \in Nat /\ phase = "wait" /\ inbox = Len(sent) /\ Len(stream) = 0 /\ Len(got) = 0
    BY DEF ExchangeInv, ServerAnswers
  <1>2. first \in Chunk /\ second \in Chunk
    BY <1>1 DEF Chunk
  <1>3. first.of = Len(sent) /\ second.of = Len(sent) /\ ~first.end /\ second.end
    BY <1>1
  <1> HIDE DEF first, second
  <1>4. answer \in Seq(Chunk) /\ Len(answer) = 2 /\ answer[1] = first /\ answer[2] = second
    BY <1>2
  <1>5. stream' = stream \o answer
    BY DEF ServerAnswers, first, second
  <1> HIDE DEF answer
  <1>6. /\ stream' \in Seq(Chunk) /\ Len(stream') = 2
        /\ stream'[1] = first /\ stream'[2] = second
    <2>1. stream \in Seq(Chunk)
      BY DEF ExchangeInv
    <2>2. /\ stream' \in Seq(Chunk) /\ Len(stream') = Len(stream) + Len(answer)
          /\ \A i \in 1 .. Len(stream) + Len(answer) :
                stream'[i] = IF i <= Len(stream) THEN stream[i] ELSE answer[i - Len(stream)]
      BY <1>4, <1>5, <2>1, ConcatProperties, Zenon
    <2> QED BY <1>1, <1>4, <2>2
  <1>7. UNCHANGED <<sent, got, shown, phase, sock>> /\ inbox' = 0
    BY DEF ServerAnswers, cli
  <1>8. \A i \in 1 .. Len(stream') : i = 1 \/ i = 2
    BY <1>6
  <1>9. \A i \in 1 .. Len(stream') : stream'[i].of = Len(sent')
    BY <1>3, <1>6, <1>7, <1>8, Zenon
  <1>10. Len(got') = 0
    BY <1>1, <1>7
  <1>11. \A i \in 1 .. Len(stream') : IF i + Len(got') = 2 THEN stream'[i].end ELSE ~stream'[i].end
    <2> SUFFICES ASSUME NEW i \in 1 .. Len(stream')
                 PROVE IF i + Len(got') = 2 THEN stream'[i].end ELSE ~stream'[i].end
      OBVIOUS
    <2>1. CASE i = 1
      <3>1. i + Len(got') # 2
        BY <1>10, <2>1
      <3> QED BY <1>3, <1>6, <2>1, <3>1, Zenon
    <2>2. CASE i = 2
      <3>1. i + Len(got') = 2
        BY <1>10, <2>2
      <3> QED BY <1>3, <1>6, <2>2, <3>1, Zenon
    <2> QED BY <1>8, <2>1, <2>2
  <1> QED BY <1>1, <1>6, <1>7, <1>9, <1>10, <1>11 DEF ExchangeInv

\* A read takes a part of what is on the way; with the last of it the response is
\* whole.
LEMMA ReadStep == ExchangeInv /\ Read => ExchangeInv'
  <1> SUFFICES ASSUME ExchangeInv, Read PROVE ExchangeInv'
    OBVIOUS
  <1>1. phase = "wait" /\ UNCHANGED <<sent, inbox, sock>>
    BY DEF Read
  <1>2. CASE stream = <<>> /\ sock = "dead" /\ phase' = "prompt" /\ UNCHANGED <<got, stream, shown>>
    BY <1>1, <1>2 DEF ExchangeInv
  <1>3. ASSUME NEW k \in 1 .. Len(stream),
               got' = got \o SubSeq(stream, 1, k),
               stream' = SubSeq(stream, k + 1, Len(stream)),
               IF ResponseWhole(got')
               THEN phase' = "prompt" /\ shown' = Append(shown, got'[1].of)
               ELSE UNCHANGED <<phase, shown>>
        PROVE  ExchangeInv'
    <2>1. stream \in Seq(Chunk) /\ got \in Seq(Chunk) /\ Len(stream) \in Nat /\ Len(got) \in Nat
      BY DEF ExchangeInv
    <2>2. Len(got) + Len(stream) = 2 /\ inbox = 0 /\ k \in Nat /\ k >= 1 /\ k <= Len(stream)
      BY <1>3, <2>1 DEF ExchangeInv
    <2>3. \A i \in 1 .. Len(stream) : stream[i] \in Chunk
      BY <2>1, ElementOfSeq
    <2> DEFINE taken == SubSeq(stream, 1, k)
    <2>4. taken \in Seq(Chunk) /\ Len(taken) = k /\ \A i \in 1 .. k : taken[i] = stream[i]
      <3>1. \A i \in 1 .. k : stream[i] \in Chunk
        BY <2>1, <2>2, <2>3
      <3> QED BY <2>2, <3>1, SubSeqProperties
    <2>5. /\ stream' \in Seq(Chunk) /\ Len(stream') = Len(stream) - k
          /\ \A i \in 1 .. Len(stream) - k : stream'[i] = stream[k + i]
      <3>1. \A i \in k + 1 .. Len(stream) : stream[i] \in Chunk
        BY <2>1, <2>2, <2>3
      <3> DEFINE m == k + 1
                 n == Len(stream)
      <3>2. m \in Int /\ n \in Int /\ stream' = SubSeq(stream, m, n) /\ \A i \in m .. n : stream[i] \in Chunk
        BY <1>3, <2>1, <2>2, <3>1
      <3>3. m <= n \/ n - m + 1 = 0
        BY <2>1, <2>2
      <3>4. n - m + 1 = Len(stream) - k /\ \A i \in 1 .. n - m + 1 : m + i - 1 = k + i
        BY <2>1, <2>2
      <3> HIDE DEF m, n
      <3>5. /\ stream' \in Seq(Chunk) /\ Len(stream') = (IF m <= n THEN n - m + 1 ELSE 0)
            /\ \A i \in 1 .. n - m + 1 : stream'[i] = stream[m + i - 1]
        BY <3>2, SubSeqProperties
      <3> QED BY <3>3, <3>4, <3>5
    <2>51. \A i \in 1 .. Len(stream') : stream'[i] = stream[k + i] /\ k + i \in 1 .. Len(stream)
      <3> SUFFICES ASSUME NEW i \in 1 .. Len(stream')
                   PROVE stream'[i] = stream[k + i] /\ k + i \in 1 .. Len(stream)
        OBVIOUS
      <3>1. i \in 1 .. Len(stream) - k
        BY <2>1, <2>2, <2>5
      <3>2. k + i \in 1 .. Len(stream)
        BY <2>1, <2>2, <3>1
      <3> QED BY <2>5, <3>1, <3>2
    <2> HIDE DEF taken
    <2>6. /\ got' \in Seq(Chunk) /\ Len(got') = Len(got) + k
          /\ \A i \in 1 .. Len(got) + k : got'[i] = IF i <= Len(got) THEN got[i] ELSE taken[i - Len(got)]
      <3>1. got' = got \o taken
        BY <1>3 DEF taken
      <3>2. /\ got' \in Seq(Chunk) /\ Len(got') = Len(got) + Len(taken)
            /\ \A i \in 1 .. Len(got) + Len(taken) :
                  got'[i] = IF i <= Len(got) THEN got[i] ELSE taken[i - Len(got)]
        BY <2>1, <2>4, <3>1, ConcatProperties, Zenon
      <3> QED BY <2>4, <3>2
    <2>7. \A i \in 1 .. Len(got') : got'[i].of = Len(sent')
      <3> SUFFICES ASSUME NEW i \in 1 .. Len(got') PROVE got'[i].of = Len(sent)
        BY <1>1
      <3>1. CASE i <= Len(got)
        BY <2>1, <2>2, <2>6, <3>1, SMTT(30) DEF ExchangeInv
      <3>2. CASE i > Len(got)
        <4>1. i - Len(got) \in 1 .. k /\ got'[i] = taken[i - Len(got)]
          BY <2>1, <2>2, <2>6, <3>2
        <4>2. got'[i] = stream[i - Len(got)] /\ i - Len(got) \in 1 .. Len(stream)
          BY <2>1, <2>2, <2>4, <4>1
        <4> QED BY <4>2 DEF ExchangeInv
      <3> QED BY <2>1, <2>2, <2>6, <3>1, <3>2
    <2>8. \A i \in 1 .. Len(stream') : stream'[i].of = Len(sent')
      <3> SUFFICES ASSUME NEW i \in 1 .. Len(stream') PROVE stream'[i].of = Len(sent)
        BY <1>1
      <3>1. stream'[i] = stream[k + i] /\ k + i \in 1 .. Len(stream)
        BY <2>51
      <3> QED BY <3>1 DEF ExchangeInv
    <2>9. \A i \in 1 .. Len(stream') : IF i + Len(got') = 2 THEN stream'[i].end ELSE ~stream'[i].end
      <3> SUFFICES ASSUME NEW i \in 1 .. Len(stream')
                   PROVE IF i + Len(got') = 2 THEN stream'[i].end ELSE ~stream'[i].end
        OBVIOUS
      <3>1. stream'[i] = stream[k + i] /\ k + i \in 1 .. Len(stream)
        BY <2>51
      <3>2. i + Len(got') = 2 <=> (k + i) + Len(got) = 2
        BY <2>1, <2>2, <2>5, <2>6
      <3>3. IF (k + i) + Len(got) = 2 THEN stream[k + i].end ELSE ~stream[k + i].end
        BY <3>1, Zenon DEF ExchangeInv
      <3> QED BY <3>1, <3>2, <3>3, Zenon
    <2>10. got'[Len(got')] = stream[k]
      <3>1. Len(got') \in 1 .. Len(got) + k /\ Len(got') > Len(got) /\ Len(got') - Len(got) = k /\ k \in 1 .. k
        BY <2>1, <2>2, <2>6
      <3>2. got'[Len(got')] = taken[Len(got') - Len(got)]
        BY <2>1, <2>6, <3>1
      <3> QED BY <2>4, <3>1, <3>2
    <2>11. ResponseWhole(got') <=> k + Len(got) = 2
      <3>1. Len(got') > 0
        BY <2>1, <2>2, <2>6
      <3>2. IF k + Len(got) = 2 THEN stream[k].end ELSE ~stream[k].end
        BY <1>3, Zenon DEF ExchangeInv
      <3> QED BY <2>10, <3>1, <3>2, Zenon DEF ResponseWhole
    <2>12. CASE ResponseWhole(got')
      <3>1. phase' = "prompt" /\ shown' = Append(shown, Len(sent))
        <4>1. 1 \in 1 .. Len(got')
          BY <2>1, <2>2, <2>6
        <4>2. got'[1].of = Len(sent)
          BY <1>1, <2>7, <4>1
        <4> QED BY <1>3, <2>12, <4>2, Zenon
      <3>2. Len(stream') = 0
        BY <2>1, <2>2, <2>5, <2>11, <2>12
      <3>3. shown \in Seq(Nat) /\ Len(sent) \in Nat /\ Len(shown) \in Nat
        BY DEF ExchangeInv
      <3>4. /\ shown' \in Seq(Nat) /\ Len(shown') = Len(shown) + 1
            /\ \A i \in 1 .. Len(shown) : shown'[i] = shown[i]
            /\ shown'[Len(shown) + 1] = Len(sent)
        BY <3>1, <3>3, AppendProperties
      <3>5. \A i \in 1 .. Len(shown) : shown[i] < Len(sent) /\ shown[i] \in Nat
        BY <1>1, <3>3, ElementOfSeq, SMTT(30) DEF ExchangeInv
      <3>51. \A i \in 1 .. Len(shown') : i \in 1 .. Len(shown) \/ i = Len(shown) + 1
        BY <3>3, <3>4
      <3>52. \A i \in 1 .. Len(shown) : shown'[i] < Len(sent)
        BY <3>4, <3>5
      <3>6. \A i \in 1 .. Len(shown') : shown'[i] <= Len(sent')
        <4> SUFFICES ASSUME NEW i \in 1 .. Len(shown') PROVE shown'[i] <= Len(sent)
          BY <1>1
        <4>1. CASE i \in 1 .. Len(shown)
          <5>1. shown'[i] < Len(sent) /\ shown'[i] \in Nat
            BY <3>4, <3>5, <4>1, SMTT(30)
          <5> QED BY <3>3, <5>1
        <4>2. CASE i = Len(shown) + 1
          BY <3>3, <3>4, <4>2
        <4> QED BY <3>51, <4>1, <4>2
      <3>7. \A i, j \in 1 .. Len(shown') : i < j => shown'[i] < shown'[j]
        <4> SUFFICES ASSUME NEW i \in 1 .. Len(shown'), NEW j \in 1 .. Len(shown'), i < j
                     PROVE  shown'[i] < shown'[j]
          OBVIOUS
        <4>1. i \in 1 .. Len(shown)
          BY <3>3, <3>51
        <4>2. CASE j \in 1 .. Len(shown)
          <5>1. shown[i] < shown[j]
            BY <4>1, <4>2 DEF ExchangeInv
          <5> QED BY <3>4, <4>1, <4>2, <5>1
        <4>3. CASE j = Len(shown) + 1
          <5>1. shown'[j] = Len(sent)
            BY <3>4, <4>3, Zenon
          <5> QED BY <3>52, <4>1, <5>1
        <4> QED BY <3>51, <4>2, <4>3
      <3>8. ~(Len(stream') > 0) /\ phase' # "wait" /\ inbox' = 0
        BY <1>1, <2>2, <3>1, <3>2
      <3>9. sent' \in Seq([full : Nat, len : Nat]) /\ inbox' \in Nat
        BY <1>1 DEF ExchangeInv
      <3> QED BY <2>5, <2>6, <2>7, <2>8, <2>9, <3>4, <3>6, <3>7, <3>8, <3>9, Zenon DEF ExchangeInv
    <2>13. CASE ~ResponseWhole(got')
      <3>1. UNCHANGED <<phase, shown>>
        BY <1>3, <2>13
      <3>2. Len(stream') > 0 /\ Len(got') + Len(stream') = 2
        BY <2>1, <2>2, <2>5, <2>6, <2>11, <2>13
      <3> QED BY <1>1, <2>2, <2>5, <2>6, <2>7, <2>8, <2>9, <3>1, <3>2 DEF ExchangeInv
    <2> QED BY <2>12, <2>13
  <1> QED BY <1>2, <1>3, Zenon DEF Read

\* Outside a read nothing is on the way, so that leaving "prompt" or "start" without
\* a request disturbs nothing.
LEMMA IdleStep ==
    ASSUME ExchangeInv, phase # "wait", phase' # "wait",
           UNCHANGED <<sent, inbox, got, stream, shown>>
    PROVE  ExchangeInv'
  BY DEF ExchangeInv

\* A request is sent when the answer to the one before has been read or is lost.
LEMMA RequestStep ==
    ASSUME ExchangeInv, phase = "prompt", NEW n \in Nat, phase' = "wait", sock' # "dead",
           sent' = Append(sent, Request(n)), inbox' = Len(sent'), got' = <<>>,
           UNCHANGED <<stream, shown>>
    PROVE  ExchangeInv'
  <1>1. Request(n) \in [full : Nat, len : Nat]
    BY ClientAssumption DEF Request
  <1>2. sent' \in Seq([full : Nat, len : Nat]) /\ Len(sent') = Len(sent) + 1 /\ Len(sent) \in Nat
    BY <1>1, AppendProperties DEF ExchangeInv
  <1>3. Len(stream') = 0 /\ stream' \in Seq(Chunk)
    <2>1. Len(stream) \in Nat /\ ~(Len(stream) > 0)
      BY DEF ExchangeInv
    <2> QED BY <2>1 DEF ExchangeInv
  <1>4. Len(got') = 0 /\ got' \in Seq(Chunk)
    OBVIOUS
  <1>5. inbox' \in Nat /\ inbox' = Len(sent')
    BY <1>2
  <1>6. \A i \in 1 .. Len(shown') : shown'[i] <= Len(sent') /\ shown'[i] < Len(sent')
    <2>1. \A i \in 1 .. Len(shown) : shown[i] <= Len(sent) /\ shown[i] \in Nat
      BY ElementOfSeq DEF ExchangeInv
    <2> QED BY <1>2, <2>1
  <1>7. \A i, j \in 1 .. Len(shown') : i < j => shown'[i] < shown'[j]
    BY DEF ExchangeInv
  <1>8. shown' \in Seq(Nat)
    BY DEF ExchangeInv
  <1>9. /\ ~(Len(stream') > 0) /\ ~(Len(got') > 0)
        /\ \A i \in 1 .. Len(stream') : FALSE
        /\ \A i \in 1 .. Len(got') : FALSE
    BY <1>3, <1>4
  <1> QED BY <1>2, <1>3, <1>4, <1>5, <1>6, <1>7, <1>8, <1>9, Zenon DEF ExchangeInv

\* A line sends a request or leaves the exchange alone.
LEMMA LineStep ==
    ASSUME ExchangeInv, BufferInv, NEW line \in Line, ReadLine(line)
    PROVE  ExchangeInv'
  <1>1. phase = "prompt" /\ UNCHANGED <<stream, shown>>
    BY DEF ReadLine
  <1>2. CASE phase' = phase /\ UNCHANGED <<sent, inbox, got>>
    BY <1>1, <1>2, IdleStep
  <1>3. ASSUME NEW n \in Nat, cli_execute_sql(n) PROVE ExchangeInv'
    <2>1. CASE phase' = "prompt" /\ UNCHANGED <<sent, inbox, got>>
      BY <1>1, <2>1, IdleStep
    <2>2. CASE phase' = "killed" /\ UNCHANGED <<sent, inbox, got>>
      BY <1>1, <2>2, IdleStep
    <2>3. CASE /\ phase' = "wait" /\ sock' # "dead" /\ sent' = Append(sent, Request(n))
               /\ inbox' = Len(sent') /\ got' = <<>>
      BY <1>1, <2>3, RequestStep
    <2> QED BY <1>3, <2>1, <2>2, <2>3 DEF cli_execute_sql
  <1>4. line.len \in Nat /\ sql_len \in Nat
    BY LineShort DEF BufferInv
  <1>5. CASE mode = "tty"
    <2>1. interactive_line(line)
      BY <1>5 DEF ReadLine
    <2> DEFINE n == IF sql_len > 0 THEN sql_len + 1 + line.len ELSE line.len
    <2>2. n \in Nat
      BY <1>4
    <2>3. CASE cli_execute_sql(n)
      BY <1>3, <2>2, <2>3
    <2> QED BY <1>2, <2>1, <2>3 DEF interactive_line
  <1>6. CASE mode # "tty"
    BY <1>2, <1>3, <1>4, <1>6 DEF ReadLine, piped_line
  <1> QED BY <1>5, <1>6

\* A server that stops takes its request with it.
LEMMA StopStep == ExchangeInv /\ ServerStops => ExchangeInv'
  <1> SUFFICES ASSUME ExchangeInv, ServerStops PROVE ExchangeInv'
    OBVIOUS
  <1>1. inbox' = 0 /\ UNCHANGED <<phase, got, sent, shown, stream>>
    BY DEF ServerStops
  <1> QED BY <1>1 DEF ExchangeInv

\* Every step of the client preserves the invariant.
LEMMA ExchangeStep == BufferInv /\ ExchangeInv /\ [ClientNext]_clientVars => ExchangeInv'
  <1> SUFFICES ASSUME BufferInv, ExchangeInv, [ClientNext]_clientVars PROVE ExchangeInv'
    OBVIOUS
  <1>1. CASE Start
    BY <1>1, IdleStep DEF Start, world
  <1>2. CASE EndOfFile
    BY <1>2, IdleStep DEF EndOfFile, world
  <1>3. CASE UNCHANGED <<phase, sock, inbox, got, sent, shown, stream>>
    BY <1>3 DEF ExchangeInv
  <1>4. ASSUME NEW line \in Line, ReadLine(line) PROVE ExchangeInv'
    BY <1>4, LineStep
  <1>5. CASE ServerStarts
    BY <1>3, <1>5 DEF ServerStarts, cli
  <1>6. CASE UNCHANGED clientVars
    BY <1>3, <1>6 DEF clientVars
  <1> QED BY <1>1, <1>2, <1>4, <1>5, <1>6, ReadStep, AnswerStep, StopStep DEF ClientNext

\* However the stream is cut and whenever the server stops, the response shown is
\* the answer to the last statement, and none is shown twice (cli.c:94-125).
THEOREM ClientAnswers == ClientSpec => []AnswersInStep
  <1>1. ClientInit => BufferInv
    BY ClientAssumption DEF ClientInit, BufferInv, SentFits, SqlBuf
  <1>2. ClientInit => ExchangeInv
    BY DEF ClientInit, ExchangeInv
  <1>3. ExchangeInv => AnswersInStep
    <2> SUFFICES ASSUME ExchangeInv PROVE AnswersInStep
      OBVIOUS
    <2>1. ASSUME got # <<>> PROVE got[1].of = Len(sent)
      <3>1. Len(got) \in Nat /\ Len(got) # 0
        BY <2>1, EmptySeq DEF ExchangeInv
      <3> QED BY <3>1 DEF ExchangeInv
    <2>2. DOMAIN shown = 1 .. Len(shown)
      BY LenProperties DEF ExchangeInv
    <2> QED BY <2>1, <2>2 DEF AnswersInStep, ExchangeInv
  <1> QED BY <1>1, <1>2, <1>3, BufferStep, ExchangeStep, PTL DEF ClientSpec
----------------------------------------------------------------------------
(* The server.                                                             *)

Reply == {"PONG", "OK shutdown", "Query OK", "OK 0 rows", "ERROR"}

\* What is known of a connection whose requests come one at a time: the answers
\* are right and at most the last request waits, alone.
InStep(q, a, p) ==
    /\ \A n \in 1 .. Len(q) : q[n] # "long"
    /\ \A n \in 1 .. Len(a) : a[n] = RightAnswer(q[n])
    /\ \/ Len(q) = Len(a) /\ p = <<>>
       \/ Len(q) = Len(a) + 1 /\ p = <<q[Len(q)]>>

\* The inductive invariant.
ServerInv ==
    /\ ServerTypeOK
    /\ \A c \in Conn : alone[c] => InStep(asked[c], answers[c], arrived[c])

\* The one answer to a request that fits in the buffer is the right one.
LEMMA OneAnswer ==
    ASSUME NEW r \in Requests, r # "long"
    PROVE  Answer(r) = {RightAnswer(r)} /\ <<r>> \in Seq(Piece) /\ Pieces(r) = <<r>>
<1>1. r \in {"ping", "shutdown", "empty", "bad", "ddl", "query", "junk"}
  BY ServerAssumption
<1>2. Answer(r) = {RightAnswer(r)}
  BY <1>1 DEF Answer, RightAnswer
<1>3. r \in Piece
  BY <1>1 DEF Piece
<1> QED
  BY <1>2, <1>3 DEF Pieces

\* What the server answers to a piece of the stream is a reply.
LEMMA AnswersKnown == \A p \in Piece : Answer(p) \subseteq Reply
BY DEF Answer, Reply, Piece

\* The variables of a connection.
LEMMA ServerTypes ==
    ASSUME ServerTypeOK, NEW c \in Conn
    PROVE  /\ asked[c] \in Seq(Requests) /\ answers[c] \in Seq(Reply)
           /\ arrived[c] \in Seq(Piece) /\ alone[c] \in BOOLEAN
BY DEF ServerTypeOK, Reply

\* The invariant holds when server_run starts.
LEMMA ServerInitInv == ServerInit => ServerInv
<1> SUFFICES ASSUME ServerInit PROVE ServerInv
  OBVIOUS
<1>1. Len(<<>>) = 0 /\ 1 .. 0 = {}
  OBVIOUS
<1>2. InStep(<<>>, <<>>, <<>>)
  BY <1>1 DEF InStep
<1> QED
  BY <1>2 DEF ServerInit, ServerInv, ServerTypeOK

\* The n-th request is sent when the ones before are answered, or the
\* connection counts no longer.
LEMMA SendInv ==
    ASSUME ServerInv, NEW c \in Conn, NEW r \in Requests, client_send(c, r)
    PROVE  ServerInv'
<1>1. ServerTypeOK /\ UNCHANGED <<running, serving, client_count, backlog, link, left, answers>>
  BY DEF ServerInv, client_send
<1>2. asked[c] \in Seq(Requests) /\ answers[c] \in Seq(Reply) /\ arrived[c] \in Seq(Piece)
  BY <1>1, ServerTypes
<1>3. Pieces(r) \in Seq(Piece)
  <2>1. CASE r = "long"
    BY <2>1 DEF Pieces, Piece
  <2>2. CASE r # "long"
    BY <2>2, OneAnswer, Zenon
  <2> QED
    BY <2>1, <2>2
<1> DEFINE q == Append(asked[c], r)
           p == arrived[c] \o Pieces(r)
           lone == alone[c] /\ r # "long" /\ Len(asked[c]) = Len(answers[c])
<1>4. /\ asked' = [asked EXCEPT ![c] = q]
      /\ arrived' = [arrived EXCEPT ![c] = p]
      /\ alone' = [alone EXCEPT ![c] = lone]
  BY DEF client_send
<1>5. q \in Seq(Requests) /\ p \in Seq(Piece) /\ lone \in BOOLEAN
  BY <1>2, <1>3
<1>6. ASSUME lone PROVE InStep(q, answers[c], p)
  <2>1. InStep(asked[c], answers[c], arrived[c]) /\ r # "long" /\ Len(asked[c]) = Len(answers[c])
    BY <1>6, SMTT(30) DEF ServerInv
  <2>2. arrived[c] = <<>> /\ Pieces(r) = <<r>>
    BY <1>2, <2>1, OneAnswer, SMTT(30) DEF InStep
  <2>3. p = <<r>>
    BY <2>2
  <2>4. /\ Len(q) = Len(asked[c]) + 1 /\ q[Len(asked[c]) + 1] = r
        /\ \A n \in 1 .. Len(asked[c]) : q[n] = asked[c][n]
    BY <1>2
  <2>5. \A n \in 1 .. Len(q) : n \in 1 .. Len(asked[c]) \/ n = Len(asked[c]) + 1
    BY <1>2, <2>4
  <2> HIDE DEF q, p
  <2>6. \A n \in 1 .. Len(q) : q[n] # "long"
    BY <2>1, <2>4, <2>5 DEF InStep
  <2>7. \A n \in 1 .. Len(answers[c]) : answers[c][n] = RightAnswer(q[n])
    BY <2>1, <2>4 DEF InStep
  <2> QED
    BY <1>2, <2>1, <2>3, <2>4, <2>6, <2>7 DEF InStep
<1> HIDE DEF q, p, lone
<1>7. ServerTypeOK'
  BY <1>1, <1>4, <1>5 DEF ServerTypeOK
<1>8. ASSUME NEW d \in Conn, alone'[d] PROVE InStep(asked'[d], answers'[d], arrived'[d])
  <2>1. CASE d = c
    <3>1. /\ asked'[c] = q /\ arrived'[c] = p /\ alone'[c] = lone /\ answers'[c] = answers[c]
      BY <1>1, <1>4 DEF ServerTypeOK
    <3> QED
      BY <1>6, <1>8, <2>1, <3>1
  <2>2. CASE d # c
    <3>1. /\ asked'[d] = asked[d] /\ arrived'[d] = arrived[d] /\ alone'[d] = alone[d]
          /\ answers'[d] = answers[d]
      BY <1>1, <1>4, <2>2 DEF ServerTypeOK
    <3> QED
      BY <1>8, <3>1 DEF ServerInv
  <2> QED
    BY <2>1, <2>2
<1> QED
  BY <1>7, <1>8, SMTT(30) DEF ServerInv

\* A read takes all that has come, or the head of a long request alone.
LEMMA UnreadPieces ==
    ASSUME NEW pieces \in Seq(Piece), pieces # <<>>
    PROVE  Head(pieces) \in Piece /\ Unread(pieces) \in Seq(Piece)
BY DEF Unread

\* The stop of the server keeps the types.
LEMMA StopTypes ==
    ASSUME ServerTypeOK, Stop
    PROVE  /\ running' \in BOOLEAN /\ serving' \in Conn \cup {NoConn}
           /\ backlog' \in Seq(Conn) /\ link' \in [Conn -> {"new", "up", "closed"}]
<1>1. link' \in [Conn -> {"new", "up", "closed"}]
  BY DEF ServerTypeOK, Stop
<1>2. <<>> \in Seq(Conn)
  OBVIOUS
<1> QED
  BY <1>1, <1>2, Zenon DEF Stop

\* The answer goes to the connection that asked, and is that of its last request.
LEMMA HandleInv ==
    ASSUME ServerInv, server_handle_client
    PROVE  ServerInv'
<1> DEFINE c == serving
           pieces == arrived[c]
<1>1. ServerTypeOK /\ c \in Conn /\ pieces # <<>> /\ UNCHANGED <<client_count, left, asked, alone>>
  BY DEF ServerInv, server_handle_client, ServerTypeOK
<1>2. PICK a \in Answer(Head(pieces)) : answers' = [answers EXCEPT ![c] = Append(answers[c], a)]
  BY Zenon DEF server_handle_client
<1>3. arrived' = [arrived EXCEPT ![c] = Unread(pieces)]
  BY DEF server_handle_client
<1>4. asked[c] \in Seq(Requests) /\ answers[c] \in Seq(Reply) /\ pieces \in Seq(Piece)
  BY <1>1, ServerTypes
<1>5. Head(pieces) \in Piece /\ Unread(pieces) \in Seq(Piece)
  BY <1>1, <1>4, UnreadPieces
<1>6. a \in Reply
  BY <1>5, AnswersKnown
<1> DEFINE b == Append(answers[c], a)
<1>7. b \in Seq(Reply)
  BY <1>4, <1>6
<1>8. Stop \/ UNCHANGED <<running, serving, backlog, link>>
  BY Zenon DEF server_handle_client
<1>9. ASSUME alone[c] PROVE InStep(asked[c], b, Unread(pieces))
  <2> DEFINE q == asked[c]
             r == q[Len(q)]
  <2>1. InStep(q, answers[c], pieces)
    BY <1>1, <1>9 DEF ServerInv
  <2>2. Len(q) = Len(answers[c]) + 1 /\ pieces = <<r>>
    BY <1>1, <2>1 DEF InStep
  <2>3. Len(q) \in Nat /\ Len(answers[c]) \in Nat
    BY <1>4
  <2>4. Len(q) \in 1 .. Len(q)
    BY <2>2, <2>3
  <2>5. r \in Requests /\ r # "long"
    BY <1>4, <2>1, <2>4 DEF InStep
  <2>6. Head(pieces) = r /\ Unread(pieces) = <<>>
    <3>1. r # "head"
      BY <2>5, ServerAssumption, SMTT(30)
    <3> HIDE DEF r, pieces
    <3> QED
      BY <2>2, <3>1 DEF Unread
  <2>7. a = RightAnswer(r)
    BY <1>2, <2>5, <2>6, OneAnswer
  <2>8. /\ Len(b) = Len(q) /\ b[Len(q)] = a
        /\ \A n \in 1 .. Len(answers[c]) : b[n] = answers[c][n]
    BY <1>4, <1>6, <2>2
  <2>9. \A n \in 1 .. Len(b) : n \in 1 .. Len(answers[c]) \/ n = Len(q)
    BY <2>2, <2>3, <2>8
  <2> HIDE DEF b
  <2>10. \A n \in 1 .. Len(b) : b[n] = RightAnswer(q[n])
    BY <2>1, <2>7, <2>8, <2>9 DEF InStep
  <2> QED
    BY <2>1, <2>6, <2>8, <2>10 DEF InStep
<1> HIDE DEF c, pieces, b
<1>10. ServerTypeOK'
  <2>1. /\ running' \in BOOLEAN /\ serving' \in Conn \cup {NoConn}
        /\ backlog' \in Seq(Conn) /\ link' \in [Conn -> {"new", "up", "closed"}]
    BY <1>1, <1>8, StopTypes DEF ServerTypeOK
  <2>2. answers' \in [Conn -> Seq(Reply)] /\ arrived' \in [Conn -> Seq(Piece)]
    BY <1>1, <1>2, <1>3, <1>5, <1>7 DEF ServerTypeOK, Reply, b
  <2> QED
    BY <1>1, <2>1, <2>2 DEF ServerTypeOK, Reply
<1>11. ASSUME NEW d \in Conn, alone'[d] PROVE InStep(asked'[d], answers'[d], arrived'[d])
  <2>1. CASE d = c
    <3>1. /\ asked'[c] = asked[c] /\ arrived'[c] = Unread(pieces) /\ alone'[c] = alone[c]
          /\ answers'[c] = b
      BY <1>1, <1>2, <1>3 DEF ServerTypeOK, b
    <3> QED
      BY <1>9, <1>11, <2>1, <3>1
  <2>2. CASE d # c
    <3>1. /\ asked'[d] = asked[d] /\ arrived'[d] = arrived[d] /\ alone'[d] = alone[d]
          /\ answers'[d] = answers[d]
      BY <1>1, <1>2, <1>3, <2>2 DEF ServerTypeOK
    <3> QED
      BY <1>11, <3>1 DEF ServerInv
  <2> QED
    BY <2>1, <2>2
<1> QED
  BY <1>10, <1>11 DEF ServerInv

\* A step that neither asks nor answers keeps the invariant if it keeps the types.
LEMMA LinkInv ==
    ASSUME ServerInv, UNCHANGED <<arrived, asked, answers, alone>>, ServerTypeOK'
    PROVE  ServerInv'
BY DEF ServerInv

\* Every step preserves the invariant.
LEMMA ServerNextInv == ServerInv /\ [ServerNext]_serverVars => ServerInv'
<1> SUFFICES ASSUME ServerInv, [ServerNext]_serverVars PROVE ServerInv'
  OBVIOUS
<1>1. ServerTypeOK
  BY DEF ServerInv
<1>2. ASSUME NEW c \in Conn, client_connect(c) PROVE ServerInv'
  <2>2. backlog' \in Seq(Conn) /\ link' \in [Conn -> {"new", "up", "closed"}]
    <3>1. backlog \in Seq(Conn) /\ backlog' = Append(backlog, c)
      BY <1>1, <1>2 DEF ServerTypeOK, client_connect
    <3>2. link' \in [Conn -> {"new", "up", "closed"}]
      BY <1>1, <1>2 DEF ServerTypeOK, client_connect
    <3> QED
      BY <3>1, <3>2
  <2>1. ServerTypeOK'
    BY <1>1, <1>2, <2>2 DEF ServerTypeOK, client_connect
  <2> QED
    BY <1>2, <2>1, LinkInv DEF client_connect
<1>3. ASSUME NEW c \in Conn, client_leave(c) PROVE ServerInv'
  <2>1. ServerTypeOK'
    BY <1>1, <1>3 DEF ServerTypeOK, client_leave
  <2> QED
    BY <1>3, <2>1, LinkInv DEF client_leave
<1>4. ASSUME NEW c \in Conn, NEW r \in Requests, client_send(c, r) PROVE ServerInv'
  BY <1>4, SendInv
<1>5. ASSUME server_accept_client PROVE ServerInv'
  <2>1. Head(backlog) \in Conn /\ Tail(backlog) \in Seq(Conn)
    <3>1. backlog \in Seq(Conn) /\ backlog # <<>>
      BY <1>1, <1>5 DEF ServerTypeOK, server_accept_client
    <3> QED
      BY <3>1
  <2>3. client_count' \in Nat
    <3>1. client_count \in Nat /\ client_count' = client_count + 1
      BY <1>1, <1>5 DEF ServerTypeOK, server_accept_client
    <3> QED
      BY <3>1
  <2>4. serving' \in Conn \cup {NoConn} /\ backlog' \in Seq(Conn)
    BY <1>5, <2>1 DEF server_accept_client
  <2>2. ServerTypeOK'
    BY <1>1, <1>5, <2>3, <2>4 DEF ServerTypeOK, server_accept_client
  <2> QED
    BY <1>5, <2>2, LinkInv DEF server_accept_client
<1>6. ASSUME server_handle_client PROVE ServerInv'
  BY <1>6, HandleInv
<1>7. ASSUME server_close_client \/ interrupted PROVE ServerInv'
  <2>1. Close(serving) /\ serving \in Conn
    BY <1>1, <1>7 DEF server_close_client, interrupted, ServerTypeOK
  <2>2. ServerTypeOK'
    BY <1>1, <2>1 DEF ServerTypeOK, Close
  <2> QED
    BY <2>1, <2>2, LinkInv DEF Close
<1>8. ASSUME UNCHANGED serverVars PROVE ServerInv'
  <2>1. ServerTypeOK'
    BY <1>1, <1>8 DEF ServerTypeOK, serverVars
  <2> QED
    BY <1>8, <2>1, LinkInv DEF serverVars
<1> QED
  BY <1>2, <1>3, <1>4, <1>5, <1>6, <1>7, <1>8 DEF ServerNext, server_run

\* On every connection whose requests fit in the buffer and come one at a time
\* the n-th answer is that of the n-th request, whatever the other connections
\* send, for any number of connections and requests.
THEOREM ServerAnswersMatch == ServerSpec => []AnswersMatch
<1>1. ServerInv => AnswersMatch
  <2> SUFFICES ASSUME ServerInv PROVE AnswersMatch
    OBVIOUS
  <2>1. ServerTypeOK
    BY DEF ServerInv
  <2>2. ASSUME NEW c \in Conn, alone[c]
        PROVE  /\ Len(asked[c]) = Len(answers[c]) + Len(arrived[c])
               /\ \A n \in 1 .. Len(answers[c]) : answers[c][n] = RightAnswer(asked[c][n])
    <3>1. InStep(asked[c], answers[c], arrived[c])
      BY <2>2 DEF ServerInv
    <3>2. Len(answers[c]) \in Nat
      BY <2>1, ServerTypes
    <3>3. arrived[c] = <<>> => Len(arrived[c]) = 0
      OBVIOUS
    <3>4. \A x : arrived[c] = <<x>> => Len(arrived[c]) = 1
      OBVIOUS
    <3>5. Len(asked[c]) = Len(answers[c]) + Len(arrived[c])
      <4>1. CASE Len(asked[c]) = Len(answers[c]) /\ arrived[c] = <<>>
        BY <3>2, <3>3, <4>1
      <4>2. CASE Len(asked[c]) = Len(answers[c]) + 1 /\ Len(arrived[c]) = 1
        BY <4>2
      <4> QED
        BY <3>1, <3>4, <4>1, <4>2, Zenon DEF InStep
    <3> QED
      BY <3>1, <3>5 DEF InStep
  <2> QED
    BY <2>1, <2>2, Zenon DEF AnswersMatch
<1>2. ServerInit => ServerInv
  BY ServerInitInv
<1>3. ServerInv /\ [ServerNext]_serverVars => ServerInv'
  BY ServerNextInv
<1> QED
  BY <1>1, <1>2, <1>3, PTL DEF ServerSpec
=============================================================================
