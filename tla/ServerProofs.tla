---------------------------- MODULE ServerProofs ----------------------------
(***************************************************************************)
(* Proofs about the processes and settings of a machine (Daemons) and      *)
(* about access to its servers (Access), for any number of directories,    *)
(* processes, commands, servers and requests.                              *)
(***************************************************************************)
EXTENDS Daemons, Access, SequenceTheorems, TLAPS

-----------------------------------------------------------------------------
(* Types of the machine *)

ServerRecords ==
    [kind : {"server"}, args : Args, daemon : BOOLEAN,
     at : {"validate", "global", "folder", "bind", "serving"},
     config : Settings, read_only : BOOLEAN, dying : BOOLEAN, clean : BOOLEAN]

Strangers == [kind : {"other"}, dying : BOOLEAN]

PidSteps == {"look", "check", "kill", "wait", "remove", "spawn", "truncate_pid", "write_pid"}
SetSteps == {"load", "load_folder", "truncate", "write"}
Stages   == {"idle", "serve", "check_file", "create_file", "done", "failed"}
            \cup PidSteps \cup SetSteps

Entries ==
    [at : Stages, ask : Asks, left : Seq(Shares), pid : Pids \cup {Absent},
     base : Files \cup Settings \cup {Missing}, config : Settings]

\* What a command has in hand at its step.
Equipped(e) ==
    /\ e.at \in PidSteps => e.ask.cmd \in {"start", "stop"} /\ e.left # <<>>
    /\ e.at \in PidSteps \ {"look", "spawn"} => e.pid \in Pids
    /\ e.at = "serve" => e.ask.cmd = "serve"
    /\ e.at \in SetSteps => e.ask.cmd = "set"
    /\ e.at \in {"check_file", "create_file"} => e.ask.cmd = "init"
    /\ e.at = "load_folder" => e.ask.file # Global
    /\ e.at \in {"truncate", "write"} => e.base \in Settings \cup {Missing}

CommandsTyped == cmd \in [Commands -> Entries] /\ \A c \in Commands : Equipped(cmd[c])

FilesTyped ==
    /\ pidfile \in [Roots -> Pids \cup {Absent, Torn}]
    /\ conf \in [Files -> Settings \cup {Missing}]
    /\ want \in [Files -> BOOLEAN \cup {Unset}]
    /\ tangled \subseteq Roots /\ lost \subseteq Files /\ frozen \subseteq Files

ProcessesTyped == proc \in [Pids -> ServerRecords \cup Strangers \cup {Absent}]

MachineTyped == CommandsTyped /\ FilesTyped /\ ProcessesTyped
-----------------------------------------------------------------------------

\* What a plan asks for, field by field.
LEMMA AsksAre ==
  ASSUME NEW a \in Asks
  PROVE  /\ a.cmd \in {"start", "stop", "serve", "set", "init"}
         /\ a.shares \in Seq(Shares)
         /\ a.cmd \in {"start", "stop"} => a.shares # <<>>
         /\ a.cmd = "serve" => a.args \in Args
         /\ a.cmd = "set" => a.file \in Files /\ a.key \in Options /\ a.value \in BOOLEAN
         /\ a.cmd = "init" => a.root \in Roots
<1>e. <<>> \in Seq(Shares)
  OBVIOUS
<1>1. CASE a \in [cmd : {"start", "stop"}, shares : Seq(Shares) \ {<<>>}]
  BY <1>1
<1>2. CASE a \in [cmd : {"serve"}, shares : {<<>>}, args : Args]
  BY <1>2, <1>e
<1>3. CASE a \in [cmd : {"set"}, shares : {<<>>}, file : Files, key : Options, value : BOOLEAN]
  BY <1>3, <1>e
<1>4. CASE a \in [cmd : {"init"}, shares : {<<>>}, root : Roots]
  BY <1>4, <1>e
<1> QED
  BY <1>1, <1>2, <1>3, <1>4 DEF Asks

\* What is read of a file of settings is settings.
LEMMA LoadedTyped ==
  ASSUME FilesTyped, NEW f \in Files
  PROVE  load_from(f) \in Settings
BY DEF FilesTyped, load_from, default, Settings

\* So is a folder's over the global ones.
LEMMA MergedTyped ==
  ASSUME NEW g \in Settings, NEW s \in Settings
  PROVE  merge(g, s) \in Settings
BY DEF merge, Settings

\* A share of the list is a share, and so is the rest of the list.
LEMMA SharesAre ==
  ASSUME NEW s \in Seq(Shares), s # <<>>
  PROVE  /\ Head(s) \in Shares /\ Head(s).root \in Roots
         /\ Tail(s) \in Seq(Shares)
         /\ Len(s) # 1 => Tail(s) # <<>>
<1>1. /\ Head(s) \in Shares /\ Tail(s) \in Seq(Shares)
      /\ Len(Tail(s)) = Len(s) - 1 /\ Len(s) \in Nat
  BY HeadTailProperties
<1>2. Len(s) # 0 /\ (Tail(s) = <<>> => Len(Tail(s)) = 0)
  BY <1>1, EmptySeq
<1> QED
  BY <1>1, <1>2 DEF Shares
-----------------------------------------------------------------------------
(* The steps keep the types *)

\* An entry's fields, one by one.
LEMMA EntryIs ==
  ASSUME NEW e \in Entries
  PROVE  /\ e.at \in Stages /\ e.ask \in Asks /\ e.left \in Seq(Shares)
         /\ e.pid \in Pids \cup {Absent} /\ e.base \in Files \cup Settings \cup {Missing}
         /\ e.config \in Settings
BY DEF Entries

\* A command that only goes on to another stage.
LEMMA GoesTyped ==
  ASSUME CommandsTyped, NEW c \in Commands, NEW at \in Stages, Goes(c, at),
         at \in PidSteps => cmd[c].at \in PidSteps,
         at \in PidSteps \ {"look", "spawn"} => cmd[c].at \in PidSteps \ {"look", "spawn"},
         at # "serve",
         at \in SetSteps => cmd[c].at \in SetSteps,
         at \in {"check_file", "create_file"} => cmd[c].at \in {"check_file", "create_file"},
         at # "load_folder",
         at \in {"truncate", "write"} => cmd[c].at \in {"truncate", "write"}
  PROVE  /\ CommandsTyped'
         /\ cmd'[c] = [cmd[c] EXCEPT !.at = at]
         /\ \A d \in Commands \ {c} : cmd'[d] = cmd[d]
<1>1. cmd[c] \in Entries /\ Equipped(cmd[c])
  BY DEF CommandsTyped
<1>2. [cmd[c] EXCEPT !.at = at] \in Entries
  BY <1>1 DEF Entries
<1>3. Equipped([cmd[c] EXCEPT !.at = at])
  BY <1>1, EntryIs DEF Equipped, Entries
<1>4. cmd' = [cmd EXCEPT ![c] = [cmd[c] EXCEPT !.at = at]]
  BY DEF Goes, CommandsTyped
<1> QED
  BY <1>2, <1>3, <1>4 DEF CommandsTyped

\* A command that takes up a new entry.
LEMMA TakesTyped ==
  ASSUME CommandsTyped, NEW c \in Commands, NEW e \in Entries, Equipped(e),
         cmd' = [cmd EXCEPT ![c] = e]
  PROVE  /\ CommandsTyped'
         /\ cmd'[c] = e
         /\ \A d \in Commands \ {c} : cmd'[d] = cmd[d]
BY DEF CommandsTyped

\* After a share comes the next one, or the end.
LEMMA NextShareTyped ==
  ASSUME CommandsTyped, NEW c \in Commands, NextShare(c), cmd[c].at \in PidSteps
  PROVE  /\ CommandsTyped'
         /\ cmd'[c].at \in {"look", "done"} /\ cmd'[c].pid = Absent
         /\ \A d \in Commands \ {c} : cmd'[d] = cmd[d]
<1> DEFINE at == IF Len(cmd[c].left) = 1 THEN "done" ELSE "look"
           e == [cmd[c] EXCEPT !.left = Tail(@), !.pid = Absent, !.at = at]
<1>1. cmd[c] \in Entries /\ Equipped(cmd[c])
  BY DEF CommandsTyped
<1>2. /\ cmd[c].left \in Seq(Shares) /\ cmd[c].left # <<>>
      /\ cmd[c].ask.cmd \in {"start", "stop"}
  BY <1>1, EntryIs DEF Equipped
<1>3. Tail(cmd[c].left) \in Seq(Shares) /\ (at = "look" => Tail(cmd[c].left) # <<>>)
  BY <1>2, SharesAre
<1>4. at \in Stages /\ at \in {"look", "done"}
  BY DEF Stages, PidSteps
<1>5. cmd' = [cmd EXCEPT ![c] = e]
  BY DEF NextShare, CommandsTyped
<1> HIDE DEF at
<1>6. e \in Entries /\ e.at = at /\ e.pid = Absent
  BY <1>1, <1>3, <1>4 DEF Entries
<1>7. Equipped(e)
  BY <1>1, <1>2, <1>3, <1>4 DEF Equipped, Entries, PidSteps, SetSteps
<1> HIDE DEF e
<1> QED
  BY <1>4, <1>5, <1>6, <1>7, TakesTyped
\* Every step of a command leaves all commands equipped for their next one.
LEMMA CommandsStay ==
  ASSUME MachineTyped, MachineNext
  PROVE  CommandsTyped'
<1>t. CommandsTyped /\ FilesTyped /\ ProcessesTyped
  BY DEF MachineTyped
<1>u. UNCHANGED cmd => CommandsTyped'
  BY <1>t DEF CommandsTyped
<1>c. ASSUME NEW c \in Commands
      PROVE  /\ cmd[c] \in Entries /\ Equipped(cmd[c])
             /\ cmd[c].at \in Stages /\ cmd[c].ask \in Asks /\ cmd[c].left \in Seq(Shares)
             /\ cmd[c].base \in Files \cup Settings \cup {Missing} /\ cmd[c].config \in Settings
             /\ cmd[c].at \in PidSteps => Root(c) \in Roots
  <2>1. cmd[c] \in Entries /\ Equipped(cmd[c])
    BY <1>t DEF CommandsTyped
  <2>2. cmd[c].left \in Seq(Shares) /\ (cmd[c].at \in PidSteps => cmd[c].left # <<>>)
    BY <2>1, EntryIs DEF Equipped
  <2> QED
    BY <2>1, <2>2, EntryIs, SharesAre DEF Root
<1> USE DEF Stages, PidSteps, SetSteps
<1>1. ASSUME NEW c \in Commands, Run(c)
      PROVE  CommandsTyped'
  <2> DEFINE e == [cmd[c] EXCEPT !.left = cmd[c].ask.shares, !.at = FirstStep(cmd[c].ask)]
  <2>1. /\ cmd[c].ask.shares \in Seq(Shares)
        /\ cmd[c].ask.cmd \in {"start", "stop", "serve", "set", "init"}
        /\ cmd[c].ask.cmd \in {"start", "stop"} => cmd[c].ask.shares # <<>>
    BY <1>c, AsksAre
  <2>2. /\ FirstStep(cmd[c].ask) \in {"look", "serve", "load", "check_file"}
        /\ FirstStep(cmd[c].ask) = "look" => cmd[c].ask.cmd \in {"start", "stop"}
        /\ FirstStep(cmd[c].ask) = "serve" => cmd[c].ask.cmd = "serve"
        /\ FirstStep(cmd[c].ask) = "load" => cmd[c].ask.cmd = "set"
        /\ FirstStep(cmd[c].ask) = "check_file" => cmd[c].ask.cmd = "init"
    BY <2>1 DEF FirstStep
  <2>3. cmd' = [cmd EXCEPT ![c] = e]
    BY <1>1, <1>t DEF Run, CommandsTyped
  <2>4. e \in Entries
    BY <1>c, <2>1, <2>2 DEF Entries
  <2>5. Equipped(e)
    BY <1>c, <2>1, <2>2 DEF Equipped, Entries
  <2> HIDE DEF e
  <2> QED  BY <1>t, <2>3, <2>4, <2>5, TakesTyped
<1>2. ASSUME NEW c \in Commands, Look(c)
      PROVE  CommandsTyped'
  <2>1. cmd[c].at = "look"
    BY <1>2 DEF Look, At
  <2>2. CASE Goes(c, "failed") \/ Goes(c, "spawn")
    BY <1>t, <2>1, <2>2, GoesTyped
  <2>3. CASE NextShare(c)
    BY <1>t, <2>1, <2>3, NextShareTyped
  <2>4. CASE /\ pidfile[Root(c)] \notin {Absent, Torn}
             /\ cmd' = [cmd EXCEPT ![c].pid = pidfile[Root(c)], ![c].at = "check"]
    <3> DEFINE e == [cmd[c] EXCEPT !.pid = pidfile[Root(c)], !.at = "check"]
    <3>1. pidfile[Root(c)] \in Pids
      BY <1>t, <1>c, <2>1, <2>4 DEF FilesTyped
    <3>2. cmd' = [cmd EXCEPT ![c] = e]
      BY <1>t, <2>4 DEF CommandsTyped
    <3>3. e \in Entries
      BY <1>c, <3>1 DEF Entries
    <3>4. Equipped(e)
      BY <1>c, <2>1, <3>1 DEF Equipped, Entries
    <3> HIDE DEF e
    <3> QED  BY <1>t, <3>2, <3>3, <3>4, TakesTyped
  <2> QED  BY <1>2, <2>2, <2>3, <2>4 DEF Look
<1>3. ASSUME NEW c \in Commands, Check(c)
      PROVE  CommandsTyped'
  BY <1>3, <1>t, GoesTyped DEF Check, At
<1>4. ASSUME NEW c \in Commands, Kill(c) \/ Wait(c)
      PROVE  CommandsTyped'
  BY <1>4, <1>t, GoesTyped DEF Kill, Wait, At
<1>5. ASSUME NEW c \in Commands, RemovePid(c)
      PROVE  CommandsTyped'
  BY <1>5, <1>t, GoesTyped, NextShareTyped DEF RemovePid, At
<1>6. ASSUME NEW c \in Commands, Spawn(c)
      PROVE  CommandsTyped'
  <2>1. PICK p \in Free : cmd' = [cmd EXCEPT ![c].pid = p, ![c].at = "truncate_pid"]
    BY <1>6 DEF Spawn
  <2>2. p \in Pids /\ cmd[c].at = "spawn"
    BY <1>6 DEF Free, Spawn, At
  <2> DEFINE e == [cmd[c] EXCEPT !.pid = p, !.at = "truncate_pid"]
  <2>3. cmd' = [cmd EXCEPT ![c] = e]
    BY <1>t, <2>1 DEF CommandsTyped
  <2>4. e \in Entries
    BY <1>c, <2>2 DEF Entries
  <2>5. Equipped(e)
    BY <1>c, <2>2 DEF Equipped, Entries
  <2> HIDE DEF e
  <2> QED  BY <1>t, <2>3, <2>4, <2>5, TakesTyped
<1>7. ASSUME NEW c \in Commands, TruncatePid(c)
      PROVE  CommandsTyped'
  BY <1>7, <1>t, GoesTyped DEF TruncatePid, At
<1>8. ASSUME NEW c \in Commands, WritePid(c)
      PROVE  CommandsTyped'
  BY <1>8, <1>t, NextShareTyped DEF WritePid, At
<1>9. ASSUME NEW c \in Commands, ServeHere(c)
      PROVE  CommandsTyped'
  BY <1>9, <1>t, GoesTyped DEF ServeHere, At
<1>10. ASSUME NEW c \in Commands, Load(c)
       PROVE  CommandsTyped'
  <2> DEFINE ask == cmd[c].ask
             at  == IF ask.file = Global THEN "truncate" ELSE "load_folder"
             s   == IF ask.file = Global
                    THEN [load_from(Global) EXCEPT ![ask.key] = ask.value]
                    ELSE load_from(Global)
             e   == [cmd[c] EXCEPT !.at = at, !.base = conf[Global], !.config = s]
  <2>1. cmd[c].at = "load" /\ ask.cmd = "set"
    BY <1>10, <1>c DEF Load, At, Equipped
  <2>2. ask.key \in Options /\ ask.value \in BOOLEAN
    BY <1>c, <2>1, AsksAre
  <2>3. load_from(Global) \in Settings /\ conf[Global] \in Settings \cup {Missing}
    BY <1>t, LoadedTyped DEF FilesTyped, Files
  <2>4. s \in Settings
    BY <2>2, <2>3 DEF Settings
  <2>5. cmd' = [cmd EXCEPT ![c] = e]
    BY <1>10, <1>t DEF Load, CommandsTyped
  <2> HIDE DEF s
  <2>6. e \in Entries
    BY <1>c, <2>3, <2>4 DEF Entries
  <2>7. Equipped(e)
    BY <1>c, <2>1, <2>3 DEF Equipped, Entries
  <2> HIDE DEF e
  <2> QED  BY <1>t, <2>5, <2>6, <2>7, TakesTyped
<1>11. ASSUME NEW c \in Commands, LoadFolder(c)
       PROVE  CommandsTyped'
  <2> DEFINE ask == cmd[c].ask
             s   == [merge(cmd[c].config, load_from(ask.file)) EXCEPT ![ask.key] = ask.value]
             e   == [cmd[c] EXCEPT !.at = "truncate", !.base = conf[ask.file], !.config = s]
  <2>1. cmd[c].at = "load_folder" /\ ask.cmd = "set"
    BY <1>11, <1>c DEF LoadFolder, At, Equipped
  <2>2. ask.key \in Options /\ ask.value \in BOOLEAN /\ ask.file \in Files
    BY <1>c, <2>1, AsksAre
  <2>3. load_from(ask.file) \in Settings /\ conf[ask.file] \in Settings \cup {Missing}
    BY <1>t, <2>2, LoadedTyped DEF FilesTyped
  <2>4. merge(cmd[c].config, load_from(ask.file)) \in Settings
    BY <1>c, <2>3, MergedTyped
  <2>5. s \in Settings
    BY <2>2, <2>4 DEF Settings
  <2>6. cmd' = [cmd EXCEPT ![c] = e]
    BY <1>11, <1>t DEF LoadFolder, CommandsTyped
  <2> HIDE DEF s
  <2>7. e \in Entries
    BY <1>c, <2>3, <2>5 DEF Entries
  <2>8. Equipped(e)
    BY <1>c, <2>1, <2>3 DEF Equipped, Entries
  <2> HIDE DEF e
  <2> QED  BY <1>t, <2>6, <2>7, <2>8, TakesTyped
<1>12. ASSUME NEW c \in Commands, Truncate(c)
       PROVE  CommandsTyped'
  BY <1>12, <1>t, GoesTyped DEF Truncate, At
<1>13. ASSUME NEW c \in Commands, Write(c)
       PROVE  CommandsTyped'
  BY <1>13, <1>t, GoesTyped DEF Write, At
<1>14. ASSUME NEW c \in Commands, AfterInit(c), cmd[c].ask.cmd = "init"
       PROVE  CommandsTyped'
  <2> DEFINE e == [cmd[c] EXCEPT !.at = IF InitFile(c) = Global THEN "check_file" ELSE "done",
                                 !.base = Global]
  <2>1. cmd' = [cmd EXCEPT ![c] = e]
    BY <1>14, <1>t DEF AfterInit, CommandsTyped
  <2>2. e \in Entries
    BY <1>c DEF Entries, Files
  <2>3. Equipped(e)
    BY <1>c, <1>14 DEF Equipped, Entries
  <2> HIDE DEF e
  <2> QED  BY <1>t, <2>1, <2>2, <2>3, TakesTyped
<1>15. ASSUME NEW c \in Commands, CheckFile(c) \/ CreateFile(c)
       PROVE  CommandsTyped'
  <2>1. cmd[c].at \in {"check_file", "create_file"}
    BY <1>15 DEF CheckFile, CreateFile, At
  <2>2. cmd[c].ask.cmd = "init"
    BY <1>c, <2>1 DEF Equipped
  <2> QED
    BY <1>15, <1>t, <2>1, <2>2, <1>14, GoesTyped DEF CheckFile, CreateFile
<1>16. ASSUME NEW c \in Commands, Interrupt(c)
       PROVE  CommandsTyped'
  BY <1>16, <1>t, GoesTyped DEF Interrupt
<1>17. ASSUME NEW p \in Pids, \/ Validate(p) \/ LoadGlobal(p) \/ PlanServeLayout(p)
                              \/ Bind(p) \/ Die(p) \/ Reuse(p)
       PROVE  CommandsTyped'
  BY <1>17, <1>u DEF Validate, LoadGlobal, PlanServeLayout, Bind, Die, Reuse, Quiet
<1> QED
  BY <1>1, <1>2, <1>3, <1>4, <1>5, <1>6, <1>7, <1>8, <1>9, <1>10, <1>11, <1>12, <1>13,
     <1>15, <1>16, <1>17 DEF MachineNext
\* A server begins with arguments of its type, in the directory it was given.
LEMMA ServersBegin ==
  ASSUME NEW a \in Args, NEW d \in BOOLEAN
  PROVE  /\ Server(a, d) \in ServerRecords
         /\ Server(a, d).args.root = a.root /\ Server(a, d).daemon = d
         /\ Server(a, d).at = "validate" /\ Server(a, d).clean = TRUE
<1>1. a.bind \in {"loopback", "lan"}
  BY DEF Args
<1>2. normalize(a) \in Args /\ normalize(a).root = a.root
  <2>1. CASE a.public
    <3> DEFINE b == IF a.bind = "loopback" THEN "lan" ELSE a.bind
    <3>1. normalize(a) = [a EXCEPT !.token = TRUE, !.bind = b]
      BY <2>1 DEF normalize, Args
    <3>2. b \in {"loopback", "lan"}
      BY <1>1
    <3> HIDE DEF b
    <3> QED  BY <3>1, <3>2 DEF Args
  <2>2. CASE ~a.public
    BY <2>2 DEF normalize
  <2> QED  BY <2>1, <2>2
<1>3. default \in Settings
  BY DEF default, Settings
<1> HIDE DEF normalize
<1> QED
  BY <1>2, <1>3 DEF Server, ServerRecords

\* The arguments of a daemon.
LEMMA ChildrenAre ==
  ASSUME NEW s \in Shares
  PROVE  ChildOf(s) \in Args /\ ChildOf(s).root = s.root
BY DEF Shares, ChildOf, Args

\* A process is a server of its type, or it is not a server.
LEMMA ServerIs ==
  ASSUME ProcessesTyped, NEW p \in Pids, IsServer(p)
  PROVE  /\ proc[p] \in ServerRecords
         /\ proc[p].args \in Args /\ proc[p].args.root \in Roots
         /\ proc[p].config \in Settings /\ proc[p].read_only \in BOOLEAN
         /\ proc[p].at \in {"validate", "global", "folder", "bind", "serving"}
         /\ proc[p].dying \in BOOLEAN /\ proc[p].clean \in BOOLEAN
         /\ proc[p].daemon \in BOOLEAN /\ proc[p].args.read_only \in BOOLEAN
<1>1. proc[p] \in ServerRecords
  BY DEF ProcessesTyped, IsServer, Alive, Strangers
<1> QED
  BY <1>1 DEF ServerRecords, Args

\* Every step keeps the types of the processes.
LEMMA ProcessesStay ==
  ASSUME MachineTyped, MachineNext
  PROVE  ProcessesTyped'
<1>t. CommandsTyped /\ FilesTyped /\ ProcessesTyped
  BY DEF MachineTyped
<1>u. UNCHANGED proc => ProcessesTyped'
  BY <1>t DEF ProcessesTyped
<1>s. ASSUME NEW p \in Pids, NEW e \in ServerRecords \cup Strangers \cup {Absent}, PSet(p, e)
      PROVE  ProcessesTyped'
  BY <1>t, <1>s DEF ProcessesTyped, PSet
<1>b. ASSUME NEW f, proc' = Stirred(f)
      PROVE  ProcessesTyped'
  <2>1. ASSUME NEW p \in Pids
        PROVE  proc'[p] \in ServerRecords \cup Strangers \cup {Absent}
    <3>1. CASE IsServer(p) /\ f \in {Global, proc[p].args.root}
      <4>1. proc[p] \in ServerRecords
        BY <1>t, <3>1, ServerIs
      <4>2. [proc[p] EXCEPT !.clean = FALSE] \in ServerRecords
        BY <4>1 DEF ServerRecords
      <4> QED  BY <1>b, <3>1, <4>2 DEF Stirred
    <3>2. CASE ~(IsServer(p) /\ f \in {Global, proc[p].args.root})
      BY <1>b, <1>t, <3>2 DEF Stirred, ProcessesTyped
    <3> QED  BY <3>1, <3>2
  <2> QED
    BY <2>1, <1>b DEF Stirred, ProcessesTyped
<1>1. ASSUME NEW c \in Commands, \/ Run(c) \/ Look(c) \/ Check(c) \/ Wait(c) \/ RemovePid(c)
                                 \/ TruncatePid(c) \/ WritePid(c) \/ Load(c) \/ LoadFolder(c)
                                 \/ CheckFile(c) \/ Interrupt(c)
      PROVE  ProcessesTyped'
  BY <1>1, <1>u DEF Run, Look, Check, Wait, RemovePid, TruncatePid, WritePid, Load, LoadFolder,
     CheckFile, Interrupt
<1>2. ASSUME NEW c \in Commands, Kill(c)
      PROVE  ProcessesTyped'
  <2>1. CASE ~Alive(cmd[c].pid)
    BY <1>2, <1>u, <2>1 DEF Kill
  <2>2. CASE Alive(cmd[c].pid)
    <3> DEFINE p == cmd[c].pid
    <3>1. p \in Pids
      BY <1>2, <1>t DEF Kill, At, CommandsTyped, Equipped, PidSteps
    <3>2. proc' = [proc EXCEPT ![p] = [proc[p] EXCEPT !.dying = TRUE]]
      BY <1>2, <1>t, <2>2 DEF Kill, ProcessesTyped
    <3>3. proc[p] \in ServerRecords \/ proc[p] \in Strangers
      BY <1>t, <2>2, <3>1 DEF ProcessesTyped, Alive
    <3>4. [proc[p] EXCEPT !.dying = TRUE] \in ServerRecords \cup Strangers
      BY <3>3 DEF ServerRecords, Strangers
    <3> HIDE DEF p
    <3> QED  BY <1>t, <3>1, <3>2, <3>4 DEF ProcessesTyped
  <2> QED  BY <2>1, <2>2
<1>3. ASSUME NEW c \in Commands, Spawn(c)
      PROVE  ProcessesTyped'
  <2>1. PICK p \in Free : proc' = [proc EXCEPT ![p] = Server(ChildOf(Head(cmd[c].left)), TRUE)]
    BY <1>3 DEF Spawn
  <2>2. cmd[c].left \in Seq(Shares) /\ cmd[c].left # <<>>
    BY <1>3, <1>t, EntryIs DEF Spawn, At, CommandsTyped, Equipped, PidSteps
  <2>3. ChildOf(Head(cmd[c].left)) \in Args
    BY <2>2, SharesAre, ChildrenAre
  <2>4. Server(ChildOf(Head(cmd[c].left)), TRUE) \in ServerRecords
    BY <2>3, ServersBegin
  <2> QED  BY <1>t, <2>1, <2>4 DEF ProcessesTyped, Free
<1>4. ASSUME NEW c \in Commands, ServeHere(c)
      PROVE  ProcessesTyped'
  <2>1. PICK p \in Free : proc' = [proc EXCEPT ![p] = Server(cmd[c].ask.args, FALSE)]
    BY <1>4 DEF ServeHere
  <2>2. cmd[c].ask.args \in Args
    BY <1>4, <1>t, EntryIs, AsksAre DEF ServeHere, At, CommandsTyped, Equipped
  <2>3. Server(cmd[c].ask.args, FALSE) \in ServerRecords
    BY <2>2, ServersBegin
  <2> QED  BY <1>t, <2>1, <2>3 DEF ProcessesTyped, Free
<1>5. ASSUME NEW c \in Commands, Truncate(c) \/ Write(c) \/ CreateFile(c)
      PROVE  ProcessesTyped'
  BY <1>5, <1>b DEF Truncate, Write, CreateFile
<1>6. ASSUME NEW p \in Pids, Validate(p) \/ Bind(p)
      PROVE  ProcessesTyped'
  <2>1. proc[p] \in ServerRecords
    BY <1>6, <1>t, ServerIs DEF Validate, Bind, PAt
  <2>2. /\ [proc[p] EXCEPT !.at = "global"] \in ServerRecords
        /\ [proc[p] EXCEPT !.at = "serving"] \in ServerRecords
    BY <2>1 DEF ServerRecords
  <2> QED  BY <1>6, <1>s, <2>2 DEF Validate, Bind
<1>7. ASSUME NEW p \in Pids, LoadGlobal(p)
      PROVE  ProcessesTyped'
  <2>1. proc[p] \in ServerRecords
    BY <1>7, <1>t, ServerIs DEF LoadGlobal, PAt
  <2>2. load_from(Global) \in Settings
    BY <1>t, LoadedTyped DEF Files
  <2>3. [proc[p] EXCEPT !.at = "folder", !.config = load_from(Global)] \in ServerRecords
    BY <2>1, <2>2 DEF ServerRecords
  <2> QED  BY <1>7, <1>s, <2>3 DEF LoadGlobal
<1>8. ASSUME NEW p \in Pids, PlanServeLayout(p)
      PROVE  ProcessesTyped'
  <2> DEFINE root == proc[p].args.root
             s    == merge(proc[p].config, load_from(root))
             ro   == proc[p].args.read_only \/ s["read_only"] = TRUE \/ root \notin Writable
  <2>1. /\ proc[p] \in ServerRecords /\ proc[p].args.read_only \in BOOLEAN
        /\ root \in Files /\ proc[p].config \in Settings
    BY <1>8, <1>t, ServerIs DEF PlanServeLayout, PAt, Files
  <2>2. s \in Settings
    BY <1>t, <2>1, LoadedTyped, MergedTyped
  <2>3. ro \in BOOLEAN
    OBVIOUS
  <2>4. PSet(p, [proc[p] EXCEPT !.at = "bind", !.config = s, !.read_only = ro])
    BY <1>8 DEF PlanServeLayout
  <2> HIDE DEF s, ro
  <2>5. [proc[p] EXCEPT !.at = "bind", !.config = s, !.read_only = ro] \in ServerRecords
    BY <2>1, <2>2, <2>3 DEF ServerRecords
  <2> QED  BY <1>s, <2>4, <2>5
<1>9. ASSUME NEW p \in Pids, Die(p) \/ Reuse(p)
      PROVE  ProcessesTyped'
  <2>1. Stranger \in Strangers
    BY DEF Stranger, Strangers
  <2> QED  BY <1>9, <1>s, <2>1 DEF Die, Reuse
<1> QED
  BY <1>1, <1>2, <1>3, <1>4, <1>5, <1>6, <1>7, <1>8, <1>9 DEF MachineNext

\* Every step keeps the types of the files and of the records about them.
LEMMA FilesStay ==
  ASSUME MachineTyped, MachineNext
  PROVE  FilesTyped'
<1>t. CommandsTyped /\ FilesTyped /\ ProcessesTyped
  BY DEF MachineTyped
<1>c. ASSUME NEW c \in Commands
      PROVE  /\ cmd[c] \in Entries
             /\ cmd[c].at \in PidSteps => Root(c) \in Roots
             /\ cmd[c].at \in PidSteps \ {"look", "spawn"} => cmd[c].pid \in Pids
             /\ cmd[c].at \in SetSteps => cmd[c].ask.file \in Files /\ cmd[c].ask.value \in BOOLEAN
             /\ cmd[c].at \in {"check_file", "create_file"} => InitFile(c) \in Files
             /\ cmd[c].config \in Settings
  <2>1. cmd[c] \in Entries /\ Equipped(cmd[c])
    BY <1>t DEF CommandsTyped
  <2>2. cmd[c].left \in Seq(Shares) /\ (cmd[c].at \in PidSteps => cmd[c].left # <<>>)
    BY <2>1, EntryIs DEF Equipped
  <2>3. cmd[c].ask \in Asks /\ cmd[c].config \in Settings
    BY <2>1, EntryIs
  <2>4. cmd[c].at \in {"check_file", "create_file"} => cmd[c].ask.root \in Roots
    BY <2>1, <2>3, AsksAre DEF Equipped
  <2> QED
    BY <2>1, <2>2, <2>3, <2>4, SharesAre, AsksAre DEF Root, Equipped, InitFile, Files
<1>d. default \in Settings
  BY DEF default, Settings
<1>u. UNCHANGED <<pidfile, conf, want, tangled, lost, frozen>> => FilesTyped'
  BY <1>t DEF FilesTyped
<1> USE DEF PidSteps, SetSteps
<1>1. ASSUME NEW c \in Commands, \/ Run(c) \/ Look(c) \/ Check(c) \/ Kill(c) \/ Wait(c)
                                 \/ Spawn(c) \/ ServeHere(c) \/ Load(c) \/ LoadFolder(c) \/ CheckFile(c)
      PROVE  FilesTyped'
  BY <1>1, <1>u DEF Run, Look, Check, Kill, Wait, Spawn, ServeHere, Load, LoadFolder, CheckFile,
     Pidless, Settingless
<1>2. ASSUME NEW c \in Commands, RemovePid(c) \/ TruncatePid(c) \/ WritePid(c)
      PROVE  FilesTyped'
  <2>1. Root(c) \in Roots /\ cmd[c].pid \in Pids
    BY <1>2, <1>c DEF RemovePid, TruncatePid, WritePid, At
  <2>2. UNCHANGED <<conf, want, lost, frozen>>
    BY <1>2 DEF RemovePid, TruncatePid, WritePid, Pidless
  <2>3. pidfile' \in [Roots -> Pids \cup {Absent, Torn}] /\ tangled' \subseteq Roots
    BY <1>2, <2>1, <1>t DEF RemovePid, TruncatePid, WritePid, FilesTyped
  <2> QED  BY <2>2, <2>3, <1>t DEF FilesTyped
<1>3. ASSUME NEW c \in Commands, Truncate(c) \/ Write(c)
      PROVE  FilesTyped'
  <2> DEFINE f == cmd[c].ask.file
  <2>1. f \in Files /\ cmd[c].ask.value \in BOOLEAN /\ cmd[c].config \in Settings
    BY <1>3, <1>c DEF Truncate, Write, At
  <2>2. UNCHANGED <<pidfile, tangled>>
    BY <1>3 DEF Truncate, Write, Settingless
  <2>3. conf' \in [Files -> Settings \cup {Missing}] /\ lost' \subseteq Files
    BY <1>3, <2>1, <1>t, <1>d DEF Truncate, Write, FilesTyped
  <2>4. want' \in [Files -> BOOLEAN \cup {Unset}] /\ frozen' \subseteq Files
    BY <1>3, <2>1, <1>t DEF Truncate, Write, FilesTyped
  <2> QED  BY <2>2, <2>3, <2>4, <1>t DEF FilesTyped
<1>4. ASSUME NEW c \in Commands, CreateFile(c)
      PROVE  FilesTyped'
  <2>1. InitFile(c) \in Files
    BY <1>4, <1>c DEF CreateFile, At
  <2> QED  BY <1>4, <2>1, <1>t, <1>d DEF CreateFile, FilesTyped, Settingless
<1>5. ASSUME NEW c \in Commands, Interrupt(c)
      PROVE  FilesTyped'
  <2>1. /\ At(c, "write") => cmd[c].ask.file \in Files
        /\ cmd[c].at \in {"truncate_pid", "write_pid"} => Root(c) \in Roots
    BY <1>c DEF At
  <2> QED  BY <1>5, <2>1, <1>t DEF Interrupt, FilesTyped
<1>6. ASSUME NEW p \in Pids, \/ Validate(p) \/ LoadGlobal(p) \/ PlanServeLayout(p)
                             \/ Bind(p) \/ Die(p) \/ Reuse(p)
      PROVE  FilesTyped'
  BY <1>6, <1>u DEF Validate, LoadGlobal, PlanServeLayout, Bind, Die, Reuse, Quiet
<1> QED
  BY <1>1, <1>2, <1>3, <1>4, <1>5, <1>6 DEF MachineNext
\* Commands, files and processes keep their types, whatever is typed, by
\* however many commands.
THEOREM MachineTypeCorrect ==
  ASSUME DaemonsAssumption
  PROVE  MachineSpec => []MachineTyped
<1>1. MachineInit => MachineTyped
  <2> SUFFICES ASSUME MachineInit
               PROVE  MachineTyped
    OBVIOUS
  <2>1. PICK plan \in Plans : cmd = [c \in Commands |-> Idle(plan[c])]
    BY DEF MachineInit
  <2>2. ASSUME NEW c \in Commands
        PROVE  Idle(plan[c]) \in Entries /\ Equipped(Idle(plan[c]))
    <3>1. plan[c] \in Asks
      BY DEF DaemonsAssumption
    <3>2. default \in Settings /\ <<>> \in Seq(Shares)
      BY EmptySeq DEF default, Settings
    <3> QED
      BY <3>1, <3>2 DEF Idle, Entries, Equipped, Stages, PidSteps, SetSteps
  <2>3. CommandsTyped
    BY <2>1, <2>2 DEF CommandsTyped
  <2>4. FilesTyped /\ ProcessesTyped
    BY DEF MachineInit, FilesTyped, ProcessesTyped
  <2> QED  BY <2>3, <2>4 DEF MachineTyped
<1>2. MachineTyped /\ [MachineNext]_machineVars => MachineTyped'
  <2> SUFFICES ASSUME MachineTyped, [MachineNext]_machineVars
               PROVE  MachineTyped'
    OBVIOUS
  <2>1. CASE MachineNext
    BY <2>1, CommandsStay, FilesStay, ProcessesStay DEF MachineTyped
  <2>2. CASE UNCHANGED machineVars
    <3>1. CommandsTyped'
      BY <2>2 DEF machineVars, MachineTyped, CommandsTyped
    <3>2. FilesTyped'
      BY <2>2 DEF machineVars, MachineTyped, FilesTyped
    <3>3. ProcessesTyped'
      BY <2>2 DEF machineVars, MachineTyped, ProcessesTyped
    <3> QED  BY <3>1, <3>2, <3>3 DEF MachineTyped
  <2> QED  BY <2>1, <2>2
<1> QED
  BY <1>1, <1>2, PTL DEF MachineSpec

-----------------------------------------------------------------------------
(* Every daemon is found *)

\* A command that waits for a process, or is to remove its pid file, has no
\* living daemon by its id: it is dead, told to end, or another program.
Handed ==
    \A c \in Commands : cmd[c].at \in {"wait", "remove"} =>
        ~(IsServer(cmd[c].pid) /\ ~proc[cmd[c].pid].dying)

\* A command that is to write a pid has it of a daemon of its own directory.
Reared ==
    \A c \in Commands : cmd[c].at \in {"truncate_pid", "write_pid"} =>
        (IsServer(cmd[c].pid) /\ proc[cmd[c].pid].daemon =>
            proc[cmd[c].pid].args.root = Root(c))

\* A step that starts no server.
ServersKept ==
    \A p \in Pids : IsServer(p)' =>
        /\ IsServer(p)
        /\ proc'[p].args = proc[p].args /\ proc'[p].daemon = proc[p].daemon
        /\ proc[p].dying => proc'[p].dying

\* Only commands start servers.
LEMMA ServersKeep ==
  ASSUME MachineTyped, MachineNext
  PROVE  ServersKept \/ \E c \in Commands : Spawn(c) \/ ServeHere(c)
<1>t. ProcessesTyped
  BY DEF MachineTyped
<1>u. UNCHANGED proc => ServersKept
  BY DEF ServersKept, IsServer, Alive
<1>b. ASSUME NEW f, proc' = Stirred(f)
      PROVE  ServersKept
  <2>1. ASSUME NEW p \in Pids, IsServer(p)'
        PROVE  /\ IsServer(p)
               /\ proc'[p].args = proc[p].args /\ proc'[p].daemon = proc[p].daemon
               /\ proc[p].dying => proc'[p].dying
    <3>1. CASE IsServer(p) /\ f \in {Global, proc[p].args.root}
      <4>1. proc[p] \in ServerRecords
        BY <1>t, <3>1, ServerIs
      <4>2. proc'[p] = [proc[p] EXCEPT !.clean = FALSE]
        BY <1>b, <3>1 DEF Stirred
      <4> QED  BY <3>1, <4>1, <4>2 DEF ServerRecords
    <3>2. CASE ~(IsServer(p) /\ f \in {Global, proc[p].args.root})
      <4>1. proc'[p] = proc[p]
        BY <1>b, <3>2 DEF Stirred
      <4> QED  BY <2>1, <4>1 DEF IsServer, Alive
    <3> QED  BY <3>1, <3>2
  <2> QED  BY <2>1 DEF ServersKept
<1>s. ASSUME NEW p \in Pids, NEW e, PSet(p, e),
             \/ e = Absent \/ e = Stranger
             \/ IsServer(p) /\ e.args = proc[p].args /\ e.daemon = proc[p].daemon
                /\ e.dying = proc[p].dying
      PROVE  ServersKept
  BY <1>s, <1>t DEF ProcessesTyped, PSet, ServersKept, IsServer, Alive, Stranger
<1>1. ASSUME NEW c \in Commands, \/ Run(c) \/ Look(c) \/ Check(c) \/ Wait(c) \/ RemovePid(c)
                                 \/ TruncatePid(c) \/ WritePid(c) \/ Load(c) \/ LoadFolder(c)
                                 \/ CheckFile(c) \/ Interrupt(c)
      PROVE  ServersKept
  BY <1>1, <1>u DEF Run, Look, Check, Wait, RemovePid, TruncatePid, WritePid, Load, LoadFolder,
     CheckFile, Interrupt
<1>2. ASSUME NEW c \in Commands, Kill(c)
      PROVE  ServersKept
  <2>1. CASE ~Alive(cmd[c].pid)
    BY <1>2, <1>u, <2>1 DEF Kill
  <2>2. CASE Alive(cmd[c].pid)
    <3>1. proc' = [proc EXCEPT ![cmd[c].pid].dying = TRUE]
      BY <1>2, <2>2 DEF Kill
    <3>2. ASSUME NEW p \in Pids, p # cmd[c].pid
          PROVE  proc'[p] = proc[p]
      BY <1>t, <3>1, <3>2 DEF ProcessesTyped
    <3>3. ASSUME NEW p \in Pids, p = cmd[c].pid, IsServer(p)'
          PROVE  /\ IsServer(p)
                 /\ proc'[p].args = proc[p].args /\ proc'[p].daemon = proc[p].daemon
                 /\ proc[p].dying => proc'[p].dying
      <4>1. proc[p] \in ServerRecords \/ proc[p] \in Strangers
        BY <1>t, <2>2, <3>3 DEF ProcessesTyped, Alive
      <4>2. proc'[p] = [proc[p] EXCEPT !.dying = TRUE]
        BY <1>t, <3>1, <3>3 DEF ProcessesTyped
      <4>3. proc'[p].kind = "server"
        BY <3>3 DEF IsServer
      <4>4. proc[p] \in ServerRecords
        BY <4>1, <4>2, <4>3 DEF Strangers
      <4> QED  BY <2>2, <3>3, <4>2, <4>4 DEF ServerRecords, IsServer
    <3> QED  BY <3>2, <3>3 DEF ServersKept, IsServer, Alive
  <2> QED  BY <2>1, <2>2
<1>3. ASSUME NEW c \in Commands, Truncate(c) \/ Write(c) \/ CreateFile(c)
      PROVE  ServersKept
  BY <1>3, <1>b DEF Truncate, Write, CreateFile
<1>4. ASSUME NEW p \in Pids, Validate(p) \/ LoadGlobal(p) \/ PlanServeLayout(p) \/ Bind(p)
      PROVE  ServersKept
  <2>1. IsServer(p)
    BY <1>4 DEF Validate, LoadGlobal, PlanServeLayout, Bind, PAt
  <2>2. proc[p] \in ServerRecords
    BY <1>t, <2>1, ServerIs
  <2>3. CASE Validate(p)
    BY <1>s, <2>1, <2>2, <2>3 DEF Validate, ServerRecords
  <2>4. CASE LoadGlobal(p)
    BY <1>s, <2>1, <2>2, <2>4 DEF LoadGlobal, ServerRecords
  <2>5. CASE PlanServeLayout(p)
    <3>1. PICK s, ro : PSet(p, [proc[p] EXCEPT !.at = "bind", !.config = s, !.read_only = ro])
      BY <2>5 DEF PlanServeLayout
    <3> DEFINE e == [proc[p] EXCEPT !.at = "bind", !.config = s, !.read_only = ro]
    <3>2. e.args = proc[p].args /\ e.daemon = proc[p].daemon /\ e.dying = proc[p].dying
      BY <2>2 DEF ServerRecords
    <3>3. PSet(p, e)
      BY <3>1
    <3> HIDE DEF e
    <3> QED  BY <1>s, <2>1, <3>2, <3>3
  <2>6. CASE Bind(p)
    BY <1>s, <2>1, <2>2, <2>6 DEF Bind, ServerRecords
  <2> QED  BY <1>4, <2>3, <2>4, <2>5, <2>6
<1>5. ASSUME NEW p \in Pids, Die(p) \/ Reuse(p)
      PROVE  ServersKept
  BY <1>5, <1>s DEF Die, Reuse
<1> QED
  BY <1>1, <1>2, <1>3, <1>4, <1>5 DEF MachineNext

\* A server that is started takes a free id, and the others stay as they are.
LEMMA ServersStart ==
  ASSUME MachineTyped, NEW c \in Commands, Spawn(c) \/ ServeHere(c)
  PROVE  \E p \in Free :
           /\ \A q \in Pids \ {p} : proc'[q] = proc[q]
           /\ proc'[p].at = "validate" /\ proc'[p].clean = TRUE
           /\ ServeHere(c) => ~proc'[p].daemon /\ cmd' = [cmd EXCEPT ![c].at = "done"]
           /\ Spawn(c) => /\ proc'[p].args.root = Root(c)
                          /\ cmd' = [cmd EXCEPT ![c].pid = p, ![c].at = "truncate_pid"]
<1>t. CommandsTyped /\ ProcessesTyped
  BY DEF MachineTyped
<1>e. cmd[c] \in Entries /\ Equipped(cmd[c])
  BY <1>t DEF CommandsTyped
<1>x. ~(Spawn(c) /\ ServeHere(c))
  BY DEF Spawn, ServeHere, At
<1>1. CASE Spawn(c)
  <2>1. PICK p \in Free : /\ proc' = [proc EXCEPT ![p] = Server(ChildOf(Head(cmd[c].left)), TRUE)]
                          /\ cmd' = [cmd EXCEPT ![c].pid = p, ![c].at = "truncate_pid"]
    BY <1>1 DEF Spawn
  <2>2. cmd[c].left \in Seq(Shares) /\ cmd[c].left # <<>>
    BY <1>1, <1>e, EntryIs DEF Spawn, At, Equipped, PidSteps
  <2>3. /\ ChildOf(Head(cmd[c].left)) \in Args
        /\ ChildOf(Head(cmd[c].left)).root = Root(c)
    BY <2>2, SharesAre, ChildrenAre DEF Root
  <2>4. /\ Server(ChildOf(Head(cmd[c].left)), TRUE).at = "validate"
        /\ Server(ChildOf(Head(cmd[c].left)), TRUE).clean = TRUE
        /\ Server(ChildOf(Head(cmd[c].left)), TRUE).args.root = Root(c)
    BY <2>3, ServersBegin
  <2>5. p \in Pids
    BY DEF Free
  <2> QED  BY <1>t, <1>x, <1>1, <2>1, <2>4, <2>5 DEF ProcessesTyped
<1>2. CASE ServeHere(c)
  <2>1. PICK p \in Free : proc' = [proc EXCEPT ![p] = Server(cmd[c].ask.args, FALSE)]
    BY <1>2 DEF ServeHere
  <2>2. cmd[c].ask.args \in Args
    BY <1>2, <1>e, EntryIs, AsksAre DEF ServeHere, At, Equipped
  <2>3. /\ Server(cmd[c].ask.args, FALSE).at = "validate"
        /\ Server(cmd[c].ask.args, FALSE).clean = TRUE
        /\ Server(cmd[c].ask.args, FALSE).daemon = FALSE
    BY <2>2, ServersBegin
  <2>4. p \in Pids /\ cmd' = [cmd EXCEPT ![c].at = "done"]
    BY <1>2 DEF Free, ServeHere, Goes
  <2> QED  BY <1>t, <1>x, <1>2, <2>1, <2>3, <2>4 DEF ProcessesTyped
<1> QED  BY <1>1, <1>2
\* The steps of a command, and those of a process.
CommandStep(c) ==
    \/ Run(c) \/ Look(c) \/ Check(c) \/ Kill(c) \/ Wait(c) \/ RemovePid(c) \/ Spawn(c)
    \/ TruncatePid(c) \/ WritePid(c) \/ ServeHere(c)
    \/ Load(c) \/ LoadFolder(c) \/ Truncate(c) \/ Write(c)
    \/ CheckFile(c) \/ CreateFile(c) \/ Interrupt(c)

ProcessStep(p) ==
    Validate(p) \/ LoadGlobal(p) \/ PlanServeLayout(p) \/ Bind(p) \/ Die(p) \/ Reuse(p)

\* A command changes its own entry only, and comes to a pid file by the steps
\* named here.
LEMMA CommandMoves ==
  ASSUME MachineTyped, NEW c \in Commands, CommandStep(c)
  PROVE  /\ \A d \in Commands \ {c} : cmd'[d] = cmd[d]
         /\ cmd'[c].at \in {"wait", "remove"} =>
               /\ cmd'[c].pid = cmd[c].pid
               /\ (Check(c) /\ ~Alive(cmd[c].pid)) \/ Kill(c) \/ Wait(c)
         /\ cmd'[c].at \in {"truncate_pid", "write_pid"} =>
               \/ Spawn(c)
               \/ (TruncatePid(c) /\ cmd'[c].pid = cmd[c].pid /\ cmd'[c].left = cmd[c].left)
         /\ cmd[c].at \in {"truncate_pid", "write_pid"} =>
               TruncatePid(c) \/ WritePid(c) \/ Interrupt(c)
<1>t. cmd \in [Commands -> Entries]
  BY DEF MachineTyped, CommandsTyped
<1>e. cmd[c] \in Entries
  BY <1>t
<1>g. ASSUME NEW at, Goes(c, at)
      PROVE  /\ \A d \in Commands \ {c} : cmd'[d] = cmd[d]
             /\ cmd'[c].at = at /\ cmd'[c].pid = cmd[c].pid /\ cmd'[c].left = cmd[c].left
  BY <1>g, <1>t, <1>e DEF Goes, Entries
<1>n. ASSUME NextShare(c)
      PROVE  /\ \A d \in Commands \ {c} : cmd'[d] = cmd[d]
             /\ cmd'[c].at \in {"done", "look"}
  BY <1>n, <1>t, <1>e DEF NextShare, Entries
<1>1. CASE Run(c)
  <2>1. cmd[c].ask.cmd \in {"start", "stop", "serve", "set", "init"}
    BY <1>e, EntryIs, AsksAre
  <2>2. FirstStep(cmd[c].ask) \in {"look", "serve", "load", "check_file"}
    BY <2>1 DEF FirstStep
  <2> QED  BY <1>1, <1>t, <1>e, <2>2 DEF Run, At, Entries
<1>2. CASE Look(c)
  <2>1. CASE Goes(c, "failed") \/ Goes(c, "spawn") \/ NextShare(c)
    BY <1>2, <2>1, <1>g, <1>n DEF Look, At
  <2>2. CASE cmd' = [cmd EXCEPT ![c].pid = pidfile[Root(c)], ![c].at = "check"]
    BY <1>2, <2>2, <1>t, <1>e DEF Look, At, Entries
  <2> QED  BY <1>2, <2>1, <2>2 DEF Look
<1>3. CASE Check(c)
  BY <1>3, <1>g DEF Check, At
<1>4. CASE Kill(c) \/ Wait(c)
  BY <1>4, <1>g DEF Kill, Wait, At
<1>5. CASE RemovePid(c)
  BY <1>5, <1>g, <1>n DEF RemovePid, At
<1>6. CASE Spawn(c)
  BY <1>6, <1>t, <1>e DEF Spawn, At, Entries
<1>7. CASE TruncatePid(c)
  BY <1>7, <1>g DEF TruncatePid, At
<1>8. CASE WritePid(c)
  BY <1>8, <1>n DEF WritePid, At
<1>9. CASE ServeHere(c)
  BY <1>9, <1>g DEF ServeHere, At
<1>10. CASE Load(c)
  BY <1>10, <1>t, <1>e DEF Load, At, Entries
<1>11. CASE LoadFolder(c)
  BY <1>11, <1>t, <1>e DEF LoadFolder, At, Entries
<1>12. CASE Truncate(c) \/ Write(c)
  BY <1>12, <1>g DEF Truncate, Write, At
<1>13. CASE CheckFile(c) \/ CreateFile(c)
  <2>1. CASE Goes(c, "create_file")
    BY <1>13, <2>1, <1>g DEF CheckFile, CreateFile, At
  <2>2. CASE AfterInit(c)
    BY <1>13, <2>2, <1>t, <1>e DEF AfterInit, CheckFile, CreateFile, At, Entries
  <2> QED  BY <1>13, <2>1, <2>2 DEF CheckFile, CreateFile
<1>14. CASE Interrupt(c)
  BY <1>14, <1>g DEF Interrupt
<1> QED
  BY <1>1, <1>2, <1>3, <1>4, <1>5, <1>6, <1>7, <1>8, <1>9, <1>10, <1>11, <1>12, <1>13, <1>14
  DEF CommandStep

\* An id that a command has in hand is given to no new process.
LEMMA InHand ==
  ASSUME NEW c \in Commands, NEW p \in Free
  PROVE  p \in Pids /\ cmd[c].pid # p /\ ~IsServer(p)
BY DEF Free, IsServer

LEMMA HandedStays ==
  ASSUME MachineTyped, Handed, MachineNext
  PROVE  Handed'
<1>t. CommandsTyped /\ ProcessesTyped
  BY DEF MachineTyped
<1>h. ASSUME NEW d \in Commands, cmd[d].at \in {"wait", "remove"}, cmd'[d] = cmd[d]
      PROVE  ~(IsServer(cmd[d].pid)' /\ ~proc'[cmd'[d].pid].dying)
  <2>1. cmd[d].pid \in Pids /\ ~(IsServer(cmd[d].pid) /\ ~proc[cmd[d].pid].dying)
    BY <1>h, <1>t DEF Handed, CommandsTyped, Equipped, PidSteps
  <2>2. CASE ServersKept
    BY <1>h, <2>1, <2>2 DEF ServersKept, IsServer, Alive
  <2>3. CASE \E c \in Commands : Spawn(c) \/ ServeHere(c)
    <3>1. PICK p \in Free : \A q \in Pids \ {p} : proc'[q] = proc[q]
      BY <2>3, ServersStart
    <3>2. cmd[d].pid # p
      BY InHand
    <3> QED  BY <1>h, <2>1, <3>1, <3>2 DEF IsServer, Alive
  <2> QED  BY <2>2, <2>3, ServersKeep
<1>1. ASSUME NEW c \in Commands, CommandStep(c)
      PROVE  Handed'
  <2>1. ASSUME NEW d \in Commands, d # c, cmd'[d].at \in {"wait", "remove"}
        PROVE  ~(IsServer(cmd[d].pid)' /\ ~proc'[cmd'[d].pid].dying)
    BY <1>1, <1>h, <2>1, CommandMoves
  <2>2. ASSUME cmd'[c].at \in {"wait", "remove"}
        PROVE  ~(IsServer(cmd[c].pid)' /\ ~proc'[cmd'[c].pid].dying)
    <3>1. /\ cmd'[c].pid = cmd[c].pid
          /\ (Check(c) /\ ~Alive(cmd[c].pid)) \/ Kill(c) \/ Wait(c)
      BY <1>1, <2>2, CommandMoves
    <3>2. CASE Check(c) /\ ~Alive(cmd[c].pid)
      BY <3>1, <3>2 DEF Check, IsServer, Alive
    <3>3. CASE Kill(c)
      <4>1. cmd[c].pid \in Pids
        BY <3>3, <1>t DEF Kill, At, CommandsTyped, Equipped, PidSteps
      <4>2. CASE Alive(cmd[c].pid)
        <5>1. proc[cmd[c].pid] \in ServerRecords \/ proc[cmd[c].pid] \in Strangers
          BY <1>t, <4>1, <4>2 DEF ProcessesTyped, Alive
        <5>2. proc'[cmd[c].pid] = [proc[cmd[c].pid] EXCEPT !.dying = TRUE]
          BY <1>t, <3>3, <4>1, <4>2 DEF Kill, ProcessesTyped
        <5>3. proc'[cmd[c].pid].dying
          BY <5>1, <5>2 DEF ServerRecords, Strangers
        <5> QED  BY <3>1, <5>3
      <4>3. CASE ~Alive(cmd[c].pid)
        BY <3>1, <3>3, <4>3 DEF Kill, IsServer, Alive
      <4> QED  BY <4>2, <4>3
    <3>4. CASE Wait(c)
      <4>1. ~(IsServer(cmd[c].pid) /\ ~proc[cmd[c].pid].dying) /\ UNCHANGED proc
        BY <3>4 DEF Wait, Handed, At
      <4> QED  BY <3>1, <4>1 DEF IsServer, Alive
    <3> QED  BY <3>1, <3>2, <3>3, <3>4
  <2> QED  BY <2>1, <2>2 DEF Handed
<1>2. ASSUME NEW p \in Pids, ProcessStep(p)
      PROVE  Handed'
  <2>1. UNCHANGED cmd
    BY <1>2 DEF ProcessStep, Validate, LoadGlobal, PlanServeLayout, Bind, Die, Reuse, Quiet
  <2> QED  BY <1>h, <2>1 DEF Handed
<1> QED
  BY <1>1, <1>2 DEF MachineNext, CommandStep, ProcessStep
LEMMA RearedStays ==
  ASSUME MachineTyped, Reared, MachineNext
  PROVE  Reared'
<1>t. CommandsTyped /\ ProcessesTyped
  BY DEF MachineTyped
<1> DEFINE Fits(d) == IsServer(cmd[d].pid) /\ proc[cmd[d].pid].daemon =>
                          proc[cmd[d].pid].args.root = Root(d)
<1>h. ASSUME NEW d \in Commands, cmd[d].at \in {"truncate_pid", "write_pid"},
             cmd'[d].pid = cmd[d].pid, cmd'[d].left = cmd[d].left
      PROVE  Fits(d)'
  <2>1. cmd[d].pid \in Pids /\ Fits(d)
    BY <1>h, <1>t DEF Reared, CommandsTyped, Equipped, PidSteps
  <2>r. Root(d)' = Root(d)
    BY <1>h DEF Root
  <2>2. CASE ServersKept
    <3>1. IsServer(cmd[d].pid)' <=> proc'[cmd[d].pid] # Absent /\ proc'[cmd[d].pid].kind = "server"
      BY <1>h DEF IsServer, Alive
    <3>2. IsServer(cmd[d].pid)' =>
            /\ IsServer(cmd[d].pid)
            /\ proc'[cmd[d].pid].args = proc[cmd[d].pid].args
            /\ proc'[cmd[d].pid].daemon = proc[cmd[d].pid].daemon
      BY <2>1, <2>2, <3>1 DEF ServersKept, IsServer, Alive
    <3> QED  BY <1>h, <2>1, <2>r, <3>2
  <2>3. CASE \E c \in Commands : Spawn(c) \/ ServeHere(c)
    <3>1. PICK p \in Free : \A q \in Pids \ {p} : proc'[q] = proc[q]
      BY <2>3, ServersStart
    <3>2. cmd[d].pid # p
      BY InHand
    <3>3. proc'[cmd[d].pid] = proc[cmd[d].pid]
      BY <2>1, <3>1, <3>2
    <3> QED  BY <1>h, <2>1, <2>r, <3>3 DEF IsServer, Alive
  <2> QED  BY <2>2, <2>3, ServersKeep
<1>1. ASSUME NEW c \in Commands, CommandStep(c)
      PROVE  Reared'
  <2>1. ASSUME NEW d \in Commands, d # c, cmd'[d].at \in {"truncate_pid", "write_pid"}
        PROVE  Fits(d)'
    <3>1. cmd'[d] = cmd[d]
      BY <1>1, <2>1, CommandMoves
    <3> QED  BY <1>h, <2>1, <3>1
  <2>2. ASSUME cmd'[c].at \in {"truncate_pid", "write_pid"}
        PROVE  Fits(c)'
    <3>1. CASE Spawn(c)
      <4>1. PICK p \in Free : /\ proc'[p].args.root = Root(c)
                              /\ cmd' = [cmd EXCEPT ![c].pid = p, ![c].at = "truncate_pid"]
        BY <3>1, <1>t, ServersStart
      <4>2. cmd'[c].pid = p /\ cmd'[c].left = cmd[c].left
        BY <4>1, <1>t DEF CommandsTyped, Entries
      <4>3. Root(c)' = Root(c)
        BY <4>2 DEF Root
      <4> QED  BY <4>1, <4>2, <4>3
    <3>2. CASE TruncatePid(c) /\ cmd'[c].pid = cmd[c].pid /\ cmd'[c].left = cmd[c].left
      BY <3>2, <1>h DEF TruncatePid, At
    <3> QED  BY <1>1, <2>2, <3>1, <3>2, CommandMoves
  <2> QED  BY <2>1, <2>2 DEF Reared
<1>2. ASSUME NEW p \in Pids, ProcessStep(p)
      PROVE  Reared'
  <2>1. UNCHANGED cmd
    BY <1>2 DEF ProcessStep, Validate, LoadGlobal, PlanServeLayout, Bind, Die, Reuse, Quiet
  <2>2. ASSUME NEW d \in Commands, cmd'[d].at \in {"truncate_pid", "write_pid"}
        PROVE  Fits(d)'
    BY <1>h, <2>1, <2>2
  <2> QED  BY <2>2 DEF Reared
<1> QED
  BY <1>1, <1>2 DEF MachineNext, CommandStep, ProcessStep

\* What a step does to a pid file that names a living daemon: unless it ends or
\* disturbs it, the file goes on to name it.
LEMMA FilesHold ==
  ASSUME DaemonsAssumption, MachineTyped, Handed, NEW r \in Roots, NEW p \in Pids,
         pidfile[r] = p, IsServer(p), ~proc[p].dying, MachineNext
  PROVE  pidfile'[r] = p \/ r \in tangled'
<1>t. CommandsTyped /\ FilesTyped
  BY DEF MachineTyped
<1>p. p # Absent /\ p # Torn
  BY DEF DaemonsAssumption
<1>u. UNCHANGED pidfile => pidfile'[r] = p
  OBVIOUS
<1>1. ASSUME NEW c \in Commands, RemovePid(c)
      PROVE  pidfile'[r] = p \/ r \in tangled'
  <2>1. CASE Root(c) = r
    <3>1. cmd[c].pid # p
      BY <1>1 DEF RemovePid, At, Handed
    <3> QED  BY <1>1, <1>p, <2>1, <3>1 DEF RemovePid
  <2>2. CASE Root(c) # r
    BY <1>1, <1>t, <2>2 DEF RemovePid, FilesTyped
  <2> QED  BY <2>1, <2>2
<1>2. ASSUME NEW c \in Commands, TruncatePid(c) \/ WritePid(c)
      PROVE  pidfile'[r] = p \/ r \in tangled'
  <2>1. CASE Root(c) = r
    BY <1>2, <1>p, <2>1 DEF TruncatePid, WritePid
  <2>2. CASE Root(c) # r
    BY <1>2, <1>t, <2>2 DEF TruncatePid, WritePid, FilesTyped
  <2> QED  BY <2>1, <2>2
<1>3. ASSUME NEW c \in Commands, CommandStep(c), ~RemovePid(c), ~TruncatePid(c), ~WritePid(c)
      PROVE  pidfile'[r] = p \/ r \in tangled'
  BY <1>3, <1>u DEF CommandStep, Run, Look, Check, Kill, Wait, Spawn, ServeHere, Load, LoadFolder,
     Truncate, Write, CheckFile, CreateFile, Interrupt, Settingless
<1>4. ASSUME NEW q \in Pids, ProcessStep(q)
      PROVE  pidfile'[r] = p \/ r \in tangled'
  BY <1>4, <1>u DEF ProcessStep, Validate, LoadGlobal, PlanServeLayout, Bind, Die, Reuse, Quiet
<1> QED
  BY <1>1, <1>2, <1>3, <1>4 DEF MachineNext, CommandStep, ProcessStep

\* A root that was disturbed stays on record.
LEMMA TangledGrows ==
  ASSUME MachineNext
  PROVE  tangled \subseteq tangled'
BY DEF MachineNext, Run, Look, Check, Kill, Wait, RemovePid, Spawn, TruncatePid, WritePid, ServeHere, Load,
   LoadFolder, Truncate, Write, CheckFile, CreateFile, Interrupt, Validate, LoadGlobal,
   PlanServeLayout, Bind, Die, Reuse, Settingless, Quiet

\* A daemon whose command is done with it is named, or was disturbed.
LEMMA Leaves ==
  ASSUME MachineTyped, Reared, NEW c \in Commands, NEW p \in Pids, MachineNext, CommandStep(c),
         cmd[c].at \in {"truncate_pid", "write_pid"}, cmd[c].pid = p, ~Starting(p)',
         IsServer(p), proc[p].daemon
  PROVE  pidfile'[proc[p].args.root] = p \/ proc[p].args.root \in tangled'
<1>t. CommandsTyped /\ FilesTyped
  BY DEF MachineTyped
<1>r. proc[p].args.root = Root(c)
  BY DEF Reared
<1>s. Root(c) \in Roots
  <2>1. cmd[c].left \in Seq(Shares) /\ cmd[c].left # <<>>
    BY <1>t, EntryIs DEF CommandsTyped, Equipped, PidSteps
  <2> QED  BY <2>1, SharesAre DEF Root
<1>1. CASE TruncatePid(c)
  <2>1. cmd'[c].at = "write_pid" /\ cmd'[c].pid = p
    BY <1>1, <1>t DEF TruncatePid, Goes, CommandsTyped, Entries
  <2> QED  BY <2>1 DEF Starting
<1>2. CASE WritePid(c)
  BY <1>2, <1>r, <1>s, <1>t DEF WritePid, FilesTyped
<1>3. CASE Interrupt(c)
  BY <1>3, <1>r DEF Interrupt
<1> QED
  BY <1>1, <1>2, <1>3, CommandMoves

LEMMA FoundStays ==
  ASSUME DaemonsAssumption, MachineTyped, Handed, Reared, DaemonsAreFound, MachineNext
  PROVE  DaemonsAreFound'
<1>t. CommandsTyped /\ FilesTyped /\ ProcessesTyped
  BY DEF MachineTyped
<1> SUFFICES ASSUME NEW p \in Pids, IsServer(p)', proc'[p].daemon, ~proc'[p].dying,
                    ~Starting(p)'
             PROVE  \/ pidfile'[proc'[p].args.root] = p
                    \/ proc'[p].args.root \in tangled'
  BY DEF DaemonsAreFound
<1>1. /\ IsServer(p) /\ proc[p].daemon
      /\ proc'[p].args = proc[p].args
      /\ ~proc[p].dying
  <2>1. CASE ServersKept
    BY <2>1 DEF ServersKept
  <2>2. ASSUME NEW c \in Commands, Spawn(c) \/ ServeHere(c)
        PROVE  /\ IsServer(p) /\ proc[p].daemon
               /\ proc'[p].args = proc[p].args
               /\ ~proc[p].dying
    <3>1. PICK q \in Free :
            /\ \A o \in Pids \ {q} : proc'[o] = proc[o]
            /\ ServeHere(c) => ~proc'[q].daemon
            /\ Spawn(c) => cmd' = [cmd EXCEPT ![c].pid = q, ![c].at = "truncate_pid"]
      BY <2>2, ServersStart
    <3>2. p # q
      <4>1. CASE ServeHere(c)
        BY <3>1, <4>1
      <4>2. CASE Spawn(c)
        <5>1. cmd'[c].at = "truncate_pid" /\ cmd'[c].pid = q
          BY <1>t, <3>1, <4>2 DEF CommandsTyped, Entries
        <5> QED  BY <5>1 DEF Starting
      <4> QED  BY <2>2, <4>1, <4>2
    <3> QED  BY <3>1, <3>2 DEF IsServer, Alive
  <2> QED  BY <2>1, <2>2, ServersKeep
<1>2. proc[p].args.root \in Roots
  BY <1>t, <1>1, ServerIs
<1>3. CASE ~Starting(p)
  <2>1. pidfile[proc[p].args.root] = p \/ proc[p].args.root \in tangled
    BY <1>1, <1>3 DEF DaemonsAreFound
  <2> QED  BY <1>1, <1>2, <2>1, FilesHold, TangledGrows
<1>4. CASE Starting(p)
  <2>1. PICK c \in Commands : cmd[c].at \in {"truncate_pid", "write_pid"} /\ cmd[c].pid = p
    BY <1>4 DEF Starting
  <2>2. cmd'[c] # cmd[c]
    BY <2>1 DEF Starting
  <2>3. CommandStep(c)
    <3>1. ASSUME NEW d \in Commands, CommandStep(d)
          PROVE  d = c
      BY <2>2, <3>1, CommandMoves
    <3>2. ASSUME NEW q \in Pids, ProcessStep(q)
          PROVE  FALSE
      BY <2>2, <3>2 DEF ProcessStep, Validate, LoadGlobal, PlanServeLayout, Bind, Die, Reuse,
         Quiet
    <3> QED  BY <3>1, <3>2 DEF MachineNext, CommandStep, ProcessStep
  <2> QED  BY <1>1, <2>1, <2>3, Leaves
<1> QED
  BY <1>3, <1>4

\* "daemon stop" can stop every daemon: however starts, stops, crashes, reused
\* ids and interruptions interleave, the pid file of its root names a running
\* daemon once its start is over, unless it was told to end or two commands
\* changed the file at once.
THEOREM DaemonsFound ==
  ASSUME DaemonsAssumption
  PROVE  MachineSpec => []DaemonsAreFound
<1> DEFINE Inv == Handed /\ Reared /\ DaemonsAreFound
<1>1. MachineInit => Inv
  <2> SUFFICES ASSUME MachineInit
               PROVE  Inv
    OBVIOUS
  <2>1. \A c \in Commands : cmd[c].at = "idle"
    BY DEF MachineInit, Idle
  <2>2. \A p \in Pids : proc[p] = Absent
    BY DEF MachineInit
  <2> QED  BY <2>1, <2>2 DEF Handed, Reared, DaemonsAreFound, IsServer, Alive
<1>2. Inv /\ MachineTyped /\ [MachineNext]_machineVars => Inv'
  <2> SUFFICES ASSUME Inv, MachineTyped, [MachineNext]_machineVars
               PROVE  Inv'
    OBVIOUS
  <2>1. CASE MachineNext
    BY <2>1, HandedStays, RearedStays, FoundStays
  <2>2. CASE UNCHANGED machineVars
    <3>1. UNCHANGED <<proc, pidfile, cmd, tangled>>
      BY <2>2 DEF machineVars
    <3> QED  BY <3>1 DEF Handed, Reared, DaemonsAreFound, Starting, IsServer, Alive, Root
  <2> QED  BY <2>1, <2>2
<1>3. Inv => DaemonsAreFound
  OBVIOUS
<1> QED
  BY <1>1, <1>2, <1>3, MachineTypeCorrect, PTL DEF MachineSpec
-----------------------------------------------------------------------------
(* read_only is honoured *)

WritesTo(c, f) == At(c, "write") /\ cmd[c].ask.file = f

\* The settings a command found in its file.
Own(c) == IF cmd[c].base = Missing THEN default ELSE cmd[c].base

\* A command is to write what it was asked to; the global file it only changes
\* there.
Filled ==
    \A c \in Commands : cmd[c].at \in {"truncate", "write"} =>
        /\ cmd[c].config[cmd[c].ask.key] = cmd[c].ask.value
        /\ cmd[c].ask.file = Global /\ cmd[c].ask.key # "read_only" =>
               cmd[c].config["read_only"] = Own(c)["read_only"]

\* A file that is being written is there.
Begun(f) == \A c \in Commands : WritesTo(c, f) => conf[f] # Missing

\* A file that nobody is writing says what read_only was last set to, unless a
\* setting was lost or taken over from the global file.
Recorded(f) ==
    \/ \E c \in Commands : WritesTo(c, f)
    \/ f \in lost \/ f \in frozen
    \/ load_from(f)["read_only"] = want[f]

\* The only one that is writing an emptied file has read what was last set.
\* Of several one finds the file written by another, which is on record.
LastWriter(f) ==
    \A c \in Commands :
        /\ WritesTo(c, f) /\ conf[f] = default /\ f \notin lost
        /\ \A d \in Commands : WritesTo(d, f) => d = c
        => \/ Own(c)["read_only"] = want[f]
           \/ f \in frozen
           \/ cmd[c].ask.key = "read_only"

FileInv(f) == Begun(f) /\ Recorded(f) /\ LastWriter(f)

\* What a server read is what its files say, unless they changed since.
ServersFit ==
    \A p \in Pids : IsServer(p) /\ proc[p].clean =>
        /\ proc[p].at = "folder" => proc[p].config = load_from(Global)
        /\ proc[p].at \in {"bind", "serving"} =>
              (proc[p].read_only <=>
                  \/ proc[p].args.read_only
                  \/ merge(load_from(Global), load_from(proc[p].args.root))["read_only"] = TRUE
                  \/ proc[p].args.root \notin Writable)

\* A step by which a command is to write settings has them from its files.
LEMMA SettingsMove ==
  ASSUME MachineTyped, NEW c \in Commands, CommandStep(c)
  PROVE  /\ cmd'[c].ask = cmd[c].ask
         /\ cmd'[c].at \in {"truncate", "write"} =>
               \/ Load(c) /\ cmd[c].ask.file = Global
               \/ LoadFolder(c)
               \/ Truncate(c) /\ cmd'[c].at = "write" /\ cmd'[c].base = cmd[c].base
                              /\ cmd'[c].config = cmd[c].config
         /\ cmd[c].at = "write" => Write(c) \/ Interrupt(c)
         /\ Write(c) \/ Interrupt(c) => cmd'[c].at # "write"
<1>t. cmd \in [Commands -> Entries]
  BY DEF MachineTyped, CommandsTyped
<1>e. cmd[c] \in Entries
  BY <1>t
<1>g. ASSUME NEW at, Goes(c, at)
      PROVE  /\ cmd'[c].at = at /\ cmd'[c].ask = cmd[c].ask /\ cmd'[c].base = cmd[c].base
             /\ cmd'[c].config = cmd[c].config
  BY <1>g, <1>t, <1>e DEF Goes, Entries
<1>n. ASSUME NextShare(c)
      PROVE  cmd'[c].at \in {"done", "look"} /\ cmd'[c].ask = cmd[c].ask
  BY <1>n, <1>t, <1>e DEF NextShare, Entries
<1>1. CASE Run(c)
  <2>1. cmd[c].ask.cmd \in {"start", "stop", "serve", "set", "init"}
    BY <1>e, EntryIs, AsksAre
  <2>2. FirstStep(cmd[c].ask) \in {"look", "serve", "load", "check_file"}
    BY <2>1 DEF FirstStep
  <2> QED  BY <1>1, <1>t, <1>e, <2>2 DEF Run, At, Entries
<1>2. CASE Look(c)
  <2>1. CASE Goes(c, "failed") \/ Goes(c, "spawn") \/ NextShare(c)
    BY <1>2, <2>1, <1>g, <1>n DEF Look, At
  <2>2. CASE cmd' = [cmd EXCEPT ![c].pid = pidfile[Root(c)], ![c].at = "check"]
    BY <1>2, <2>2, <1>t, <1>e DEF Look, At, Entries
  <2> QED  BY <1>2, <2>1, <2>2 DEF Look
<1>3. CASE Check(c)
  BY <1>3, <1>g DEF Check, At
<1>4. CASE Kill(c) \/ Wait(c)
  BY <1>4, <1>g DEF Kill, Wait, At
<1>5. CASE RemovePid(c)
  BY <1>5, <1>g, <1>n DEF RemovePid, At
<1>6. CASE Spawn(c)
  BY <1>6, <1>t, <1>e DEF Spawn, At, Entries
<1>7. CASE TruncatePid(c)
  BY <1>7, <1>g DEF TruncatePid, At
<1>8. CASE WritePid(c)
  BY <1>8, <1>n DEF WritePid, At
<1>9. CASE ServeHere(c)
  BY <1>9, <1>g DEF ServeHere, At
<1>10. CASE Load(c)
  BY <1>10, <1>t, <1>e DEF Load, At, Entries
<1>11. CASE LoadFolder(c)
  BY <1>11, <1>t, <1>e DEF LoadFolder, At, Entries
<1>12. CASE Truncate(c) \/ Write(c)
  <2>1. CASE Truncate(c)
    <3>1. /\ cmd[c].at = "truncate" /\ cmd'[c].at = "write" /\ cmd'[c].ask = cmd[c].ask
          /\ cmd'[c].base = cmd[c].base /\ cmd'[c].config = cmd[c].config
      BY <2>1, <1>g DEF Truncate, At
    <3>2. ~Write(c)
      BY <3>1 DEF Write, At
    <3>3. ~Interrupt(c)
      BY <3>1, <1>g DEF Interrupt
    <3> QED  BY <2>1, <3>1, <3>2, <3>3
  <2>2. CASE Write(c)
    <3>1. cmd[c].at = "write" /\ cmd'[c].at = "done" /\ cmd'[c].ask = cmd[c].ask
      BY <2>2, <1>g DEF Write, At
    <3> QED  BY <2>2, <3>1
  <2> QED  BY <1>12, <2>1, <2>2
<1>13. CASE CheckFile(c) \/ CreateFile(c)
  <2>1. CASE Goes(c, "create_file")
    BY <1>13, <2>1, <1>g DEF CheckFile, CreateFile, At
  <2>2. CASE AfterInit(c)
    BY <1>13, <2>2, <1>t, <1>e DEF AfterInit, CheckFile, CreateFile, At, Entries
  <2> QED  BY <1>13, <2>1, <2>2 DEF CheckFile, CreateFile
<1>14. CASE Interrupt(c)
  BY <1>14, <1>g DEF Interrupt
<1> QED
  BY <1>1, <1>2, <1>3, <1>4, <1>5, <1>6, <1>7, <1>8, <1>9, <1>10, <1>11, <1>12, <1>13, <1>14
  DEF CommandStep
LEMMA FilledStays ==
  ASSUME DaemonsAssumption, MachineTyped, Filled, MachineNext
  PROVE  Filled'
<1>t. CommandsTyped /\ FilesTyped
  BY DEF MachineTyped
<1> DEFINE Full(e) == LET own == IF e.base = Missing THEN default ELSE e.base
                      IN  /\ e.config[e.ask.key] = e.ask.value
                          /\ e.ask.file = Global /\ e.ask.key # "read_only" =>
                                 e.config["read_only"] = own["read_only"]
<1>f. Filled <=> \A c \in Commands : cmd[c].at \in {"truncate", "write"} => Full(cmd[c])
  BY DEF Filled, Own
<1>n. Filled' <=> \A c \in Commands : cmd'[c].at \in {"truncate", "write"} => Full(cmd'[c])
  BY DEF Filled, Own
<1>1. ASSUME NEW c \in Commands, CommandStep(c), cmd'[c].at \in {"truncate", "write"}
      PROVE  Full(cmd'[c])
  <2>e. cmd[c] \in Entries /\ Equipped(cmd[c]) /\ cmd[c].ask \in Asks /\ cmd[c].config \in Settings
    BY <1>t, EntryIs DEF CommandsTyped
  <2>1. CASE Load(c) /\ cmd[c].ask.file = Global
    <3>1. cmd[c].ask.key \in Options
      BY <2>1, <2>e, AsksAre DEF Load, At, Equipped, SetSteps
    <3>2. load_from(Global) \in Settings
      BY <1>t, LoadedTyped DEF Files
    <3>3. /\ cmd'[c].base = conf[Global] /\ cmd'[c].ask = cmd[c].ask
          /\ cmd'[c].config = [load_from(Global) EXCEPT ![cmd[c].ask.key] = cmd[c].ask.value]
      BY <1>t, <2>1, <2>e DEF Load, CommandsTyped, Entries
    <3>4. load_from(Global) = IF cmd'[c].base = Missing THEN default ELSE cmd'[c].base
      BY <3>3 DEF load_from
    <3>5. /\ cmd'[c].config[cmd[c].ask.key] = cmd[c].ask.value
          /\ cmd[c].ask.key # "read_only" =>
                 cmd'[c].config["read_only"] = load_from(Global)["read_only"]
      BY <3>1, <3>2, <3>3 DEF Settings, Options
    <3> QED  BY <3>3, <3>4, <3>5
  <2>2. CASE LoadFolder(c)
    <3>1. cmd[c].ask.key \in Options /\ cmd[c].ask.file \in Files /\ cmd[c].ask.file # Global
      BY <2>2, <2>e, AsksAre DEF LoadFolder, At, Equipped, SetSteps
    <3> DEFINE s == merge(cmd[c].config, load_from(cmd[c].ask.file))
    <3>2. s \in Settings
      BY <1>t, <2>e, <3>1, LoadedTyped, MergedTyped
    <3>3. cmd'[c].config = [s EXCEPT ![cmd[c].ask.key] = cmd[c].ask.value]
      BY <1>t, <2>2, <2>e DEF LoadFolder, CommandsTyped, Entries
    <3>4. cmd'[c].ask = cmd[c].ask
      BY <1>1, <1>t, SettingsMove, MachineTyped
    <3> HIDE DEF s
    <3> QED  BY <3>1, <3>2, <3>3, <3>4 DEF Settings
  <2>3. CASE /\ Truncate(c) /\ cmd'[c].base = cmd[c].base /\ cmd'[c].ask = cmd[c].ask
             /\ cmd'[c].config = cmd[c].config
    <3>1. Full(cmd[c])
      BY <2>3, <1>f DEF Truncate, At
    <3> QED  BY <2>3, <3>1
  <2> QED  BY <1>1, <2>1, <2>2, <2>3, SettingsMove
<1>2. CASE \E c \in Commands : CommandStep(c)
  <2>1. PICK c \in Commands : CommandStep(c)
    BY <1>2
  <2>2. \A d \in Commands \ {c} : cmd'[d] = cmd[d]
    BY <2>1, CommandMoves
  <2>3. ASSUME NEW d \in Commands, cmd'[d].at \in {"truncate", "write"}
        PROVE  Full(cmd'[d])
    <3>1. CASE d = c
      BY <1>1, <2>1, <2>3, <3>1
    <3>2. CASE d # c
      <4>1. cmd'[d] = cmd[d] /\ Full(cmd[d])
        BY <1>f, <2>2, <2>3, <3>2
      <4> QED  BY <4>1
    <3> QED  BY <3>1, <3>2
  <2> QED  BY <1>n, <2>3
<1>3. CASE \E p \in Pids : ProcessStep(p)
  <2>1. UNCHANGED cmd
    BY <1>3 DEF ProcessStep, Validate, LoadGlobal, PlanServeLayout, Bind, Die, Reuse, Quiet
  <2>2. ASSUME NEW d \in Commands, cmd'[d].at \in {"truncate", "write"}
        PROVE  Full(cmd'[d])
    BY <1>f, <2>1, <2>2
  <2> QED  BY <1>n, <2>2
<1> QED
  BY <1>2, <1>3 DEF MachineNext, CommandStep, ProcessStep

\* A file that a step does not touch.
LEMMA FileRests ==
  ASSUME NEW f \in Files, FileInv(f), conf'[f] = conf[f], want'[f] = want[f],
         f \in frozen' <=> f \in frozen, lost \subseteq lost',
         \A d \in Commands : (cmd[d].at = "write" <=> cmd'[d].at = "write") \/
                             (cmd[d].ask.file # f /\ cmd'[d].ask.file # f),
         \A d \in Commands : cmd[d].at = "write" => cmd'[d].ask = cmd[d].ask /\ cmd'[d].base = cmd[d].base
  PROVE  FileInv(f)'
<1>1. \A d \in Commands : WritesTo(d, f)' <=> cmd'[d].at = "write" /\ cmd'[d].ask.file = f
  BY DEF WritesTo, At
<1>2. \A d \in Commands : WritesTo(d, f) <=> cmd[d].at = "write" /\ cmd[d].ask.file = f
  BY DEF WritesTo, At
<1>3. \A d \in Commands : WritesTo(d, f)' <=> WritesTo(d, f)
  BY <1>1, <1>2
<1>4. Begun(f)'
  BY <1>3 DEF FileInv, Begun
<1>5. Recorded(f)'
  BY <1>3 DEF FileInv, Recorded, load_from
<1>6. LastWriter(f)'
  <2> SUFFICES ASSUME NEW c \in Commands,
                      WritesTo(c, f)', conf'[f] = default, f \notin lost',
                      \A d \in Commands : WritesTo(d, f)' => d = c
               PROVE  \/ Own(c)'["read_only"] = want'[f]
                      \/ f \in frozen'
                      \/ cmd'[c].ask.key = "read_only"
    BY DEF LastWriter, default
  <2>1. \/ Own(c)["read_only"] = want[f]
        \/ f \in frozen
        \/ cmd[c].ask.key = "read_only"
    BY <1>3 DEF FileInv, LastWriter
  <2>2. cmd'[c].ask = cmd[c].ask /\ cmd'[c].base = cmd[c].base
    BY <1>2, <1>3
  <2>3. Own(c)' = Own(c)
    BY <2>2 DEF Own, default
  <2> QED  BY <2>1, <2>2, <2>3
<1> QED
  BY <1>4, <1>5, <1>6 DEF FileInv

\* A file that lost a setting has only to be there.
LEMMA FileLost ==
  ASSUME NEW f \in Files, f \in lost', Begun(f)'
  PROVE  FileInv(f)'
BY DEF FileInv, Recorded, LastWriter
\* Losses stay on record.
LEMMA LostGrows ==
  ASSUME MachineNext
  PROVE  lost \subseteq lost'
BY DEF MachineNext, Run, Look, Check, Kill, Wait, RemovePid, Spawn, TruncatePid, WritePid, ServeHere, Load,
   LoadFolder, Truncate, Write, CheckFile, CreateFile, Interrupt, Validate, LoadGlobal,
   PlanServeLayout, Bind, Die, Reuse, Pidless, Quiet

\* Settings that were read and set are not those of an empty file.
LEMMA SetIsNotDefault ==
  ASSUME DaemonsAssumption, NEW s \in Settings, NEW k \in Options, s[k] \in BOOLEAN
  PROVE  s # default /\ s # Missing
BY DEF DaemonsAssumption, default

LEMMA WriteKeeps ==
  ASSUME DaemonsAssumption, MachineTyped, Filled, NEW c \in Commands, Write(c), MachineNext,
         \A g \in Files : FileInv(g), Global \notin frozen,
         NEW f \in Files, f = cmd[c].ask.file
  PROVE  (\A g \in Files : FileInv(g)') /\ Global \notin frozen'
<1>t. CommandsTyped /\ FilesTyped
  BY DEF MachineTyped
<1> DEFINE k == cmd[c].ask.key
           s == cmd[c].config
<1>1. cmd[c] \in Entries /\ Equipped(cmd[c]) /\ cmd[c].ask \in Asks /\ s \in Settings
  BY <1>t, EntryIs DEF CommandsTyped
<1>2. cmd[c].at = "write" /\ f \in Files /\ k \in Options /\ cmd[c].ask.value \in BOOLEAN
  BY <1>1, AsksAre DEF Write, At, Equipped, SetSteps
<1>3. /\ s[k] = cmd[c].ask.value
      /\ f = Global /\ k # "read_only" => s["read_only"] = Own(c)["read_only"]
  BY <1>2 DEF Filled
<1>4. s # default /\ s # Missing
  BY <1>1, <1>2, <1>3, SetIsNotDefault
<1>5. /\ \A d \in Commands \ {c} : cmd'[d] = cmd[d]
      /\ cmd'[c].at = "failed" \/ cmd'[c].at = "done"
      /\ cmd'[c].ask = cmd[c].ask
  BY <1>t, <1>1 DEF Write, Goes, CommandsTyped, Entries
<1>6. /\ conf' = [conf EXCEPT ![f] = s]
      /\ lost' = IF conf[f] = default THEN lost ELSE lost \cup {f}
      /\ want' = IF k = "read_only" THEN [want EXCEPT ![f] = cmd[c].ask.value] ELSE want
      /\ frozen' = IF k # "read_only" /\ s["read_only"] # Own(c)["read_only"]
                   THEN frozen \cup {f}
                   ELSE IF k = "read_only" THEN frozen \ {f} ELSE frozen
  BY DEF Write, Own
<1>7. conf'[f] = s
  BY <1>2, <1>6, <1>t DEF FilesTyped
<1>8. ASSUME NEW g \in Files, g # f
      PROVE  FileInv(g)'
  <2>1. /\ conf'[g] = conf[g] /\ want'[g] = want[g]
        /\ g \in frozen' <=> g \in frozen
    BY <1>2, <1>6, <1>8, <1>t DEF FilesTyped
  <2>2. lost \subseteq lost'
    BY LostGrows
  <2>3. ASSUME NEW d \in Commands
        PROVE  /\ (cmd[d].at = "write" <=> cmd'[d].at = "write") \/
                  (cmd[d].ask.file # g /\ cmd'[d].ask.file # g)
               /\ cmd[d].at = "write" => cmd'[d].ask = cmd[d].ask /\ cmd'[d].base = cmd[d].base
    <3>1. CASE d = c
      <4>1. cmd'[c].base = cmd[c].base
        BY <1>t, <1>1 DEF Write, Goes, CommandsTyped, Entries
      <4> QED  BY <1>5, <1>8, <3>1, <4>1
    <3>2. CASE d # c
      BY <1>5, <3>2
    <3> QED  BY <3>1, <3>2
  <2>4. FileInv(g)
    OBVIOUS
  <2> HIDE DEF k, s
  <2> QED  BY <2>1, <2>2, <2>3, <2>4, FileRests
<1>9. FileInv(f)'
  <2>1. Begun(f)'
    BY <1>4, <1>7 DEF Begun
  <2>2. LastWriter(f)'
    BY <1>4, <1>7 DEF LastWriter, default
  <2>3. Recorded(f)'
    <3>1. CASE f \in lost'
      BY <3>1 DEF Recorded
    <3>2. CASE \E d \in Commands : d # c /\ WritesTo(d, f)
      <4>1. PICK d \in Commands : d # c /\ WritesTo(d, f)
        BY <3>2
      <4>2. cmd'[d] = cmd[d]
        BY <1>5, <4>1
      <4>3. cmd'[d].at = "write" /\ cmd'[d].ask.file = f
        BY <4>1, <4>2 DEF WritesTo, At
      <4>4. WritesTo(d, f)'
        BY <1>5, <4>3 DEF WritesTo, At
      <4> QED  BY <4>4 DEF Recorded
    <3>3. CASE f \notin lost' /\ \A d \in Commands : WritesTo(d, f) => d = c
      <4>1. conf[f] = default /\ f \notin lost
        BY <1>6, <3>3
      <4>2. WritesTo(c, f)
        BY <1>2 DEF WritesTo, At
      <4>3. LastWriter(f)
        BY <1>2 DEF FileInv
      <4>4. \/ Own(c)["read_only"] = want[f]
            \/ f \in frozen
            \/ k = "read_only"
        BY <3>3, <4>1, <4>2, <4>3 DEF LastWriter
      <4>5. load_from(f)' = s
        BY <1>4, <1>5, <1>7 DEF load_from
      <4>6. s["read_only"] = want'[f] \/ f \in frozen'
        <5>1. CASE k = "read_only"
          BY <1>2, <1>3, <1>6, <1>t, <5>1 DEF FilesTyped
        <5>2. CASE k # "read_only" /\ s["read_only"] # Own(c)["read_only"]
          BY <1>6, <5>2
        <5>3. CASE k # "read_only" /\ s["read_only"] = Own(c)["read_only"]
          BY <1>6, <4>4, <5>3
        <5> QED  BY <5>1, <5>2, <5>3
      <4> QED  BY <1>5, <4>5, <4>6 DEF Recorded
    <3> QED  BY <3>1, <3>2, <3>3
  <2> QED  BY <2>1, <2>2, <2>3 DEF FileInv
<1>10. Global \notin frozen'
  BY <1>3, <1>6
<1> QED
  BY <1>8, <1>9, <1>10
LEMMA TruncateKeeps ==
  ASSUME DaemonsAssumption, MachineTyped, NEW c \in Commands, Truncate(c), MachineNext,
         \A g \in Files : FileInv(g),
         NEW f \in Files, f = cmd[c].ask.file
  PROVE  \A g \in Files : FileInv(g)'
<1>t. CommandsTyped /\ FilesTyped
  BY DEF MachineTyped
<1>1. cmd[c] \in Entries /\ cmd[c].at = "truncate"
  BY <1>t DEF CommandsTyped, Truncate, At
<1>2. /\ \A d \in Commands \ {c} : cmd'[d] = cmd[d]
      /\ cmd'[c].at = "write" /\ cmd'[c].ask = cmd[c].ask /\ cmd'[c].base = cmd[c].base
  BY <1>t, <1>1 DEF Truncate, Goes, CommandsTyped, Entries
<1>3. /\ conf' = [conf EXCEPT ![f] = default]
      /\ lost' = IF conf[f] = cmd[c].base THEN lost ELSE lost \cup {f}
      /\ UNCHANGED <<want, frozen>>
  BY DEF Truncate
<1>4. conf'[f] = default
  BY <1>3, <1>t DEF FilesTyped
<1>5. default # Missing
  BY DEF default, Settings, DaemonsAssumption
<1>6. ASSUME NEW g \in Files, g # f
      PROVE  FileInv(g)'
  <2>1. conf'[g] = conf[g] /\ want'[g] = want[g] /\ (g \in frozen' <=> g \in frozen)
    BY <1>3, <1>6, <1>t DEF FilesTyped
  <2>2. lost \subseteq lost'
    BY LostGrows
  <2>3. ASSUME NEW d \in Commands
        PROVE  /\ (cmd[d].at = "write" <=> cmd'[d].at = "write") \/
                  (cmd[d].ask.file # g /\ cmd'[d].ask.file # g)
               /\ cmd[d].at = "write" => cmd'[d].ask = cmd[d].ask /\ cmd'[d].base = cmd[d].base
    BY <1>2, <1>6
  <2>4. FileInv(g)
    OBVIOUS
  <2> QED  BY <2>1, <2>2, <2>3, <2>4, FileRests
<1>7. Begun(f)'
  BY <1>4, <1>5 DEF Begun
<1>8. WritesTo(c, f)'
  BY <1>2 DEF WritesTo, At
<1>9. LastWriter(f)'
  <2> SUFFICES ASSUME NEW e \in Commands,
                      WritesTo(e, f)', conf'[f] = default, f \notin lost',
                      \A d \in Commands : WritesTo(d, f)' => d = e
               PROVE  \/ Own(e)'["read_only"] = want'[f]
                      \/ f \in frozen'
                      \/ cmd'[e].ask.key = "read_only"
    BY DEF LastWriter, default
  <2>1. e = c
    BY <1>8
  <2>2. ASSUME NEW d \in Commands, WritesTo(d, f)
        PROVE  FALSE
    <3>1. d # c
      BY <1>1, <2>2 DEF WritesTo, At
    <3>2. cmd'[d] = cmd[d]
      BY <1>2, <3>1
    <3>3. cmd'[d].at = "write" /\ cmd'[d].ask.file = f
      BY <2>2, <3>2 DEF WritesTo, At
    <3>4. WritesTo(d, f)'
      BY <3>3 DEF WritesTo, At
    <3> QED  BY <2>1, <3>1, <3>4
  <2>3. f \in frozen \/ load_from(f)["read_only"] = want[f]
    <3>1. f \notin lost
      BY <1>3
    <3>2. Recorded(f)
      BY DEF FileInv
    <3> QED  BY <2>2, <3>1, <3>2 DEF Recorded
  <2>4. load_from(f) = Own(c)
    BY <1>3 DEF load_from, Own
  <2>5. Own(c)' = Own(c)
    BY <1>2 DEF Own, default
  <2> QED  BY <1>3, <2>1, <2>3, <2>4, <2>5
<1>10. Recorded(f)'
  BY <1>8 DEF Recorded
<1> QED
  BY <1>6, <1>7, <1>9, <1>10 DEF FileInv

LEMMA CreateKeeps ==
  ASSUME DaemonsAssumption, MachineTyped, NEW c \in Commands, CreateFile(c), MachineNext,
         \A g \in Files : FileInv(g),
         NEW f \in Files, f = InitFile(c)
  PROVE  \A g \in Files : FileInv(g)'
<1>t. CommandsTyped /\ FilesTyped
  BY DEF MachineTyped
<1>1. cmd[c] \in Entries /\ cmd[c].at = "create_file" /\ CommandStep(c)
  BY <1>t DEF CommandsTyped, CreateFile, At, CommandStep
<1>2. /\ \A d \in Commands \ {c} : cmd'[d] = cmd[d]
      /\ cmd'[c].at # "write"
  BY <1>1, <1>t DEF CreateFile, AfterInit, CommandsTyped, Entries
<1>3. /\ conf' = [conf EXCEPT ![f] = default]
      /\ lost' = IF conf[f] = Missing THEN lost ELSE lost \cup {f}
      /\ UNCHANGED <<want, frozen>>
  BY DEF CreateFile
<1>4. conf'[f] = default
  BY <1>3, <1>t DEF FilesTyped
<1>5. default # Missing
  BY DEF default, Settings, DaemonsAssumption
<1>6. ASSUME NEW g \in Files, conf'[g] = conf[g]
      PROVE  FileInv(g)'
  <2>2. lost \subseteq lost'
    BY LostGrows
  <2>3. ASSUME NEW d \in Commands
        PROVE  /\ (cmd[d].at = "write" <=> cmd'[d].at = "write") \/
                  (cmd[d].ask.file # g /\ cmd'[d].ask.file # g)
               /\ cmd[d].at = "write" => cmd'[d].ask = cmd[d].ask /\ cmd'[d].base = cmd[d].base
    BY <1>1, <1>2
  <2>4. FileInv(g)
    OBVIOUS
  <2> QED  BY <1>3, <1>6, <2>2, <2>3, <2>4, FileRests
<1>7. Begun(f)'
  BY <1>4, <1>5 DEF Begun
<1>8. FileInv(f)'
  <2>1. CASE f \in lost'
    BY <1>7, <2>1, FileLost
  <2>2. CASE f \notin lost'
    <3>1. conf[f] = Missing /\ f \notin lost
      BY <1>3, <2>2
    <3>2. \A d \in Commands : ~WritesTo(d, f)
      BY <3>1 DEF FileInv, Begun
    <3>3. ASSUME NEW d \in Commands, WritesTo(d, f)'
          PROVE  FALSE
      <4>1. cmd'[d].at = "write" /\ cmd'[d].ask.file = f
        BY <3>3 DEF WritesTo, At
      <4>2. cmd'[d] = cmd[d]
        BY <1>2, <4>1
      <4> QED  BY <3>2, <4>1, <4>2 DEF WritesTo, At
    <3>4. f \in frozen \/ load_from(f)["read_only"] = want[f]
      BY <3>1, <3>2 DEF FileInv, Recorded
    <3>5. load_from(f) = default /\ load_from(f)' = default
      BY <1>4, <3>1 DEF load_from, default
    <3>6. Recorded(f)'
      BY <1>3, <3>4, <3>5 DEF Recorded
    <3>7. LastWriter(f)'
      BY <3>3 DEF LastWriter
    <3> QED  BY <1>7, <3>6, <3>7 DEF FileInv
  <2> QED  BY <2>1, <2>2
<1>9. \A g \in Files : g # f => conf'[g] = conf[g]
  BY <1>3, <1>t DEF FilesTyped
<1> QED
  BY <1>6, <1>8, <1>9

LEMMA InterruptKeeps ==
  ASSUME MachineTyped, NEW c \in Commands, Interrupt(c), MachineNext, \A g \in Files : FileInv(g)
  PROVE  \A g \in Files : FileInv(g)'
<1>t. CommandsTyped /\ FilesTyped
  BY DEF MachineTyped
<1>1. cmd[c] \in Entries
  BY <1>t DEF CommandsTyped
<1>2. /\ \A d \in Commands \ {c} : cmd'[d] = cmd[d]
      /\ cmd'[c].at = "failed" /\ cmd'[c].ask = cmd[c].ask /\ cmd'[c].base = cmd[c].base
  BY <1>t, <1>1 DEF Interrupt, Goes, CommandsTyped, Entries
<1>3. /\ UNCHANGED <<conf, want, frozen>>
      /\ lost' = IF At(c, "write") THEN lost \cup {cmd[c].ask.file} ELSE lost
  BY DEF Interrupt
<1> SUFFICES ASSUME NEW g \in Files
             PROVE  FileInv(g)'
  OBVIOUS
<1>4. CASE WritesTo(c, g)
  <2>1. g \in lost'
    BY <1>3, <1>4 DEF WritesTo
  <2>2. Begun(g)'
    BY <1>2, <1>3 DEF FileInv, Begun, WritesTo, At
  <2> QED  BY <2>1, <2>2, FileLost
<1>5. CASE ~WritesTo(c, g)
  <2>1. ASSUME NEW d \in Commands
        PROVE  /\ (cmd[d].at = "write" <=> cmd'[d].at = "write") \/
                  (cmd[d].ask.file # g /\ cmd'[d].ask.file # g)
               /\ cmd[d].at = "write" => cmd'[d].ask = cmd[d].ask /\ cmd'[d].base = cmd[d].base
    <3>1. CASE d = c
      BY <1>2, <1>5, <3>1 DEF WritesTo, At
    <3>2. CASE d # c
      BY <1>2, <3>2
    <3> QED  BY <3>1, <3>2
  <2>2. FileInv(g) /\ lost \subseteq lost'
    BY LostGrows
  <2> QED  BY <1>3, <2>1, <2>2, FileRests
<1> QED
  BY <1>4, <1>5

\* The other steps write no settings.
LEMMA OthersKeep ==
  ASSUME MachineTyped, MachineNext, \A g \in Files : FileInv(g),
         \A c \in Commands : ~Write(c) /\ ~Truncate(c) /\ ~CreateFile(c) /\ ~Interrupt(c)
  PROVE  (\A g \in Files : FileInv(g)') /\ frozen' = frozen
<1>1. UNCHANGED <<conf, want, frozen>>
  BY DEF MachineNext, Run, Look, Check, Kill, Wait, RemovePid, Spawn, TruncatePid, WritePid, ServeHere, Load,
     LoadFolder, CheckFile, Validate, LoadGlobal, PlanServeLayout, Bind, Die, Reuse, Pidless, Quiet
<1>2. ASSUME NEW d \in Commands
      PROVE  /\ cmd[d].at = "write" <=> cmd'[d].at = "write"
             /\ cmd[d].at = "write" => cmd'[d] = cmd[d]
  <2>1. CASE \E c \in Commands : CommandStep(c)
    <3>1. PICK c \in Commands : CommandStep(c)
      BY <2>1
    <3>2. CASE d # c
      BY <3>1, <3>2, CommandMoves
    <3>3. CASE d = c
      <4>1. cmd[c].at # "write"
        BY <3>1, SettingsMove
      <4>2. cmd'[c].at # "write"
        <5>1. CASE Load(c) /\ cmd[c].ask.file = Global
          BY <5>1 DEF Load, MachineTyped, CommandsTyped, Entries
        <5>2. CASE LoadFolder(c)
          BY <5>2 DEF LoadFolder, MachineTyped, CommandsTyped, Entries
        <5> QED  BY <3>1, <5>1, <5>2, SettingsMove
      <4> QED  BY <3>3, <4>1, <4>2
    <3> QED  BY <3>2, <3>3
  <2>2. CASE \E p \in Pids : ProcessStep(p)
    BY <2>2 DEF ProcessStep, Validate, LoadGlobal, PlanServeLayout, Bind, Die, Reuse, Quiet
  <2> QED  BY <2>1, <2>2 DEF MachineNext, CommandStep, ProcessStep
<1>3. ASSUME NEW g \in Files
      PROVE  FileInv(g)'
  <2>1. FileInv(g) /\ lost \subseteq lost'
    BY LostGrows
  <2> QED  BY <1>1, <1>2, <2>1, FileRests
<1> QED
  BY <1>1, <1>3

LEMMA FilesKeep ==
  ASSUME DaemonsAssumption, MachineTyped, Filled, MachineNext,
         \A f \in Files : FileInv(f), Global \notin frozen
  PROVE  (\A f \in Files : FileInv(f)') /\ Global \notin frozen'
<1>t. CommandsTyped
  BY DEF MachineTyped
<1>c. ASSUME NEW c \in Commands
      PROVE  cmd[c].ask \in Asks /\ Equipped(cmd[c])
  BY <1>t, EntryIs DEF CommandsTyped
<1>1. ASSUME NEW c \in Commands, Write(c)
      PROVE  (\A f \in Files : FileInv(f)') /\ Global \notin frozen'
  <2>1. cmd[c].ask.file \in Files
    BY <1>1, <1>c, AsksAre DEF Write, At, Equipped, SetSteps
  <2> QED  BY <1>1, <2>1, WriteKeeps
<1>2. ASSUME NEW c \in Commands, Truncate(c)
      PROVE  (\A f \in Files : FileInv(f)') /\ Global \notin frozen'
  <2>1. cmd[c].ask.file \in Files
    BY <1>2, <1>c, AsksAre DEF Truncate, At, Equipped, SetSteps
  <2>2. frozen' = frozen
    BY <1>2 DEF Truncate
  <2> QED  BY <1>2, <2>1, <2>2, TruncateKeeps
<1>3. ASSUME NEW c \in Commands, CreateFile(c)
      PROVE  (\A f \in Files : FileInv(f)') /\ Global \notin frozen'
  <2>1. InitFile(c) \in Files
    BY <1>3, <1>c, AsksAre DEF CreateFile, At, Equipped, InitFile, Files
  <2>2. frozen' = frozen
    BY <1>3 DEF CreateFile
  <2> QED  BY <1>3, <2>1, <2>2, CreateKeeps
<1>4. ASSUME NEW c \in Commands, Interrupt(c)
      PROVE  (\A f \in Files : FileInv(f)') /\ Global \notin frozen'
  <2>1. frozen' = frozen
    BY <1>4 DEF Interrupt
  <2> QED  BY <1>4, <2>1, InterruptKeeps
<1> QED
  BY <1>1, <1>2, <1>3, <1>4, OthersKeep
\* A server that is there already, and whose files a step leaves alone.
LEMMA FitsOn ==
  ASSUME MachineTyped, ServersFit, NEW p \in Pids, IsServer(p)', proc'[p].clean,
         IsServer(p), proc'[p].at = proc[p].at, proc'[p].args = proc[p].args,
         proc'[p].config = proc[p].config, proc'[p].read_only = proc[p].read_only,
         proc'[p].clean = proc[p].clean,
         conf'[Global] = conf[Global], conf'[proc[p].args.root] = conf[proc[p].args.root]
  PROVE  /\ proc'[p].at = "folder" => proc'[p].config = load_from(Global)'
         /\ proc'[p].at \in {"bind", "serving"} =>
               (proc'[p].read_only <=>
                   \/ proc'[p].args.read_only
                   \/ merge(load_from(Global), load_from(proc[p].args.root))'["read_only"] = TRUE
                   \/ proc'[p].args.root \notin Writable)
<1>1. load_from(Global)' = load_from(Global)
  BY DEF load_from, default
<1>2. load_from(proc[p].args.root)' = load_from(proc[p].args.root)
  BY DEF load_from, default
<1>3. merge(load_from(Global), load_from(proc[p].args.root))' =
      merge(load_from(Global), load_from(proc[p].args.root))
  BY <1>1, <1>2 DEF merge
<1>4. /\ proc[p].at = "folder" => proc[p].config = load_from(Global)
      /\ proc[p].at \in {"bind", "serving"} =>
            (proc[p].read_only <=>
                \/ proc[p].args.read_only
                \/ merge(load_from(Global), load_from(proc[p].args.root))["read_only"] = TRUE
                \/ proc[p].args.root \notin Writable)
  BY DEF ServersFit
<1> QED
  BY <1>1, <1>3, <1>4

LEMMA FitStays ==
  ASSUME DaemonsAssumption, MachineTyped, ServersFit, MachineNext
  PROVE  ServersFit'
<1>t. CommandsTyped /\ FilesTyped /\ ProcessesTyped /\ ProcessesTyped'
  BY ProcessesStay DEF MachineTyped
<1> DEFINE Fit(p) ==
             /\ proc[p].at = "folder" => proc[p].config = load_from(Global)
             /\ proc[p].at \in {"bind", "serving"} =>
                   (proc[p].read_only <=>
                       \/ proc[p].args.read_only
                       \/ merge(load_from(Global), load_from(proc[p].args.root))["read_only"] = TRUE
                       \/ proc[p].args.root \notin Writable)
<1>f. ServersFit' <=> \A p \in Pids : IsServer(p)' /\ proc'[p].clean => Fit(p)'
  BY DEF ServersFit
<1>s. ASSUME NEW p \in Pids, proc'[p] = proc[p], UNCHANGED conf, IsServer(p)', proc'[p].clean
      PROVE  Fit(p)'
  <2>1. IsServer(p)
    BY <1>s DEF IsServer, Alive
  <2> QED  BY <1>s, <2>1, FitsOn
<1> HIDE DEF Fit
<1>1. ASSUME NEW c \in Commands, \/ Run(c) \/ Look(c) \/ Check(c) \/ Wait(c) \/ RemovePid(c)
                                 \/ TruncatePid(c) \/ WritePid(c) \/ Load(c) \/ LoadFolder(c)
                                 \/ CheckFile(c) \/ Interrupt(c)
      PROVE  ServersFit'
  <2>1. UNCHANGED <<proc, conf>>
    BY <1>1 DEF Run, Look, Check, Wait, RemovePid, TruncatePid, WritePid, Load, LoadFolder,
       CheckFile, Interrupt, Pidless
  <2> QED  BY <1>f, <1>s, <2>1
<1>2. ASSUME NEW c \in Commands, Spawn(c) \/ ServeHere(c)
      PROVE  ServersFit'
  <2>1. PICK q \in Free : /\ \A o \in Pids \ {q} : proc'[o] = proc[o]
                          /\ proc'[q].at = "validate"
    BY <1>2, <1>t, ServersStart
  <2>2. UNCHANGED conf
    BY <1>2 DEF Spawn, ServeHere, Pidless
  <2>3. ASSUME NEW p \in Pids, IsServer(p)', proc'[p].clean
        PROVE  Fit(p)'
    <3>1. CASE p = q
      BY <2>1, <3>1 DEF Fit
    <3>2. CASE p # q
      BY <1>s, <2>1, <2>2, <2>3, <3>2
    <3> QED  BY <3>1, <3>2
  <2> QED  BY <1>f, <2>3
<1>3. ASSUME NEW c \in Commands, Kill(c)
      PROVE  ServersFit'
  <2>1. UNCHANGED conf
    BY <1>3 DEF Kill, Pidless
  <2>2. ASSUME NEW p \in Pids, IsServer(p)', proc'[p].clean
        PROVE  Fit(p)'
    <3>1. CASE p # cmd[c].pid \/ ~Alive(cmd[c].pid)
      <4>1. proc'[p] = proc[p]
        BY <1>3, <1>t, <3>1 DEF Kill, ProcessesTyped
      <4> QED  BY <1>s, <2>1, <2>2, <4>1
    <3>2. CASE p = cmd[c].pid /\ Alive(cmd[c].pid)
      <4>1. IsServer(p)
        <5>1. CASE ServersKept
          BY <2>2, <5>1 DEF ServersKept
        <5>2. CASE \E d \in Commands : Spawn(d) \/ ServeHere(d)
          <6>1. PICK q \in Free : \A o \in Pids \ {q} : proc'[o] = proc[o]
            BY <5>2, ServersStart
          <6>2. p # q
            BY <3>2, InHand
          <6> QED  BY <2>2, <6>1, <6>2 DEF IsServer, Alive
        <5> QED  BY <5>1, <5>2, ServersKeep
      <4>2. proc[p] \in ServerRecords
        BY <1>t, <4>1, ServerIs
      <4>3. proc'[p] = [proc[p] EXCEPT !.dying = TRUE]
        BY <1>3, <1>t, <3>2 DEF Kill, ProcessesTyped
      <4>4. /\ proc'[p].at = proc[p].at /\ proc'[p].args = proc[p].args
            /\ proc'[p].config = proc[p].config /\ proc'[p].read_only = proc[p].read_only
            /\ proc'[p].clean = proc[p].clean
        BY <4>2, <4>3 DEF ServerRecords
      <4> QED  BY <2>1, <2>2, <4>1, <4>4, FitsOn DEF Fit
    <3> QED  BY <3>1, <3>2
  <2> QED  BY <1>f, <2>2
<1>b. ASSUME NEW f \in Files, proc' = Stirred(f), \A g \in Files \ {f} : conf'[g] = conf[g]
      PROVE  ServersFit'
  <2>1. ASSUME NEW p \in Pids, IsServer(p)', proc'[p].clean
        PROVE  Fit(p)'
    <3>1. CASE IsServer(p) /\ f \in {Global, proc[p].args.root}
      <4>1. proc[p] \in ServerRecords
        BY <1>t, <3>1, ServerIs
      <4>2. proc'[p] = [proc[p] EXCEPT !.clean = FALSE]
        BY <1>b, <3>1 DEF Stirred
      <4> QED  BY <2>1, <4>1, <4>2 DEF ServerRecords
    <3>2. CASE ~(IsServer(p) /\ f \in {Global, proc[p].args.root})
      <4>1. proc'[p] = proc[p]
        BY <1>b, <3>2 DEF Stirred
      <4>2. IsServer(p)
        BY <2>1, <4>1 DEF IsServer, Alive
      <4>3. Global \in Files /\ proc[p].args.root \in Files
        BY <1>t, <4>2, ServerIs DEF Files
      <4>4. conf'[Global] = conf[Global] /\ conf'[proc[p].args.root] = conf[proc[p].args.root]
        BY <1>b, <3>2, <4>2, <4>3
      <4> QED  BY <2>1, <4>1, <4>2, <4>4, FitsOn DEF Fit
    <3> QED  BY <3>1, <3>2
  <2> QED  BY <1>f, <2>1
<1>4. ASSUME NEW c \in Commands, Truncate(c) \/ Write(c)
      PROVE  ServersFit'
  <2>1. cmd[c].ask.file \in Files
    BY <1>4, <1>t, EntryIs, AsksAre DEF Truncate, Write, At, CommandsTyped, Equipped, SetSteps
  <2>2. proc' = Stirred(cmd[c].ask.file) /\ \A g \in Files \ {cmd[c].ask.file} : conf'[g] = conf[g]
    BY <1>4, <1>t DEF Truncate, Write, FilesTyped
  <2> QED  BY <1>b, <2>1, <2>2
<1>5. ASSUME NEW c \in Commands, CreateFile(c)
      PROVE  ServersFit'
  <2>1. InitFile(c) \in Files
    BY <1>5, <1>t, EntryIs, AsksAre
    DEF CreateFile, At, CommandsTyped, Equipped, InitFile, Files
  <2>2. proc' = Stirred(InitFile(c)) /\ \A g \in Files \ {InitFile(c)} : conf'[g] = conf[g]
    BY <1>5, <1>t DEF CreateFile, FilesTyped
  <2> QED  BY <1>b, <2>1, <2>2
<1>6. ASSUME NEW q \in Pids, ProcessStep(q)
      PROVE  ServersFit'
  <2>1. UNCHANGED conf
    BY <1>6 DEF ProcessStep, Validate, LoadGlobal, PlanServeLayout, Bind, Die, Reuse, Quiet
  <2>2. ASSUME NEW p \in Pids, p # q
        PROVE  proc'[p] = proc[p]
    BY <1>6, <1>t, <2>2 DEF ProcessStep, Validate, LoadGlobal, PlanServeLayout, Bind, Die, Reuse,
       PSet, ProcessesTyped
  <2>e. ASSUME NEW e, PSet(q, e)
        PROVE  proc'[q] = e
    BY <2>e, <1>t DEF PSet, ProcessesTyped
  <2>l. load_from(Global)' = load_from(Global)
    BY <2>1 DEF load_from, default
  <2>3. ASSUME IsServer(q)', proc'[q].clean
        PROVE  Fit(q)'
    <3>1. CASE Validate(q)
      <4>1. proc[q] \in ServerRecords
        BY <3>1, <1>t, ServerIs DEF Validate, PAt
      <4>2. proc'[q] = Absent \/ proc'[q] = [proc[q] EXCEPT !.at = "global"]
        BY <2>e, <3>1 DEF Validate
      <4>3. proc'[q].at = "global"
        BY <2>3, <4>1, <4>2 DEF IsServer, Alive, ServerRecords
      <4> QED  BY <4>3 DEF Fit
    <3>2. CASE LoadGlobal(q)
      <4>1. proc[q] \in ServerRecords
        BY <3>2, <1>t, ServerIs DEF LoadGlobal, PAt
      <4>2. proc'[q] = [proc[q] EXCEPT !.at = "folder", !.config = load_from(Global)]
        BY <2>e, <3>2 DEF LoadGlobal
      <4>3. proc'[q].at = "folder" /\ proc'[q].config = load_from(Global)
        BY <4>1, <4>2 DEF ServerRecords
      <4> QED  BY <2>l, <4>3 DEF Fit
    <3>3. CASE PlanServeLayout(q)
      <4> DEFINE s  == merge(proc[q].config, load_from(proc[q].args.root))
                 ro == \/ proc[q].args.read_only \/ s["read_only"] = TRUE
                       \/ proc[q].args.root \notin Writable
      <4>1. proc[q] \in ServerRecords /\ IsServer(q) /\ proc[q].at = "folder"
        BY <3>3, <1>t, ServerIs DEF PlanServeLayout, PAt
      <4>2. proc'[q] = [proc[q] EXCEPT !.at = "bind", !.config = s, !.read_only = ro]
        BY <2>e, <3>3 DEF PlanServeLayout
      <4>3. /\ proc'[q].at = "bind" /\ proc'[q].args = proc[q].args /\ proc'[q].read_only = ro
            /\ proc'[q].clean = proc[q].clean
        <5> HIDE DEF s, ro
        <5> QED  BY <4>1, <4>2 DEF ServerRecords
      <4>4. proc[q].config = load_from(Global)
        BY <2>3, <4>1, <4>3 DEF ServersFit
      <4>5. load_from(proc[q].args.root)' = load_from(proc'[q].args.root)
        BY <2>1, <4>3 DEF load_from, default
      <4>6. merge(load_from(Global), load_from(proc[q].args.root))' = s
        <5>1. load_from(proc[q].args.root)' = load_from(proc[q].args.root)
          BY <4>3, <4>5, <2>1 DEF load_from, default
        <5>2. load_from(Global)' = proc[q].config
          BY <2>l, <4>4
        <5> QED  BY <5>1, <5>2 DEF merge
      <4>7. proc'[q].read_only <=>
              \/ proc'[q].args.read_only
              \/ merge(load_from(Global), load_from(proc[q].args.root))'["read_only"] = TRUE
              \/ proc'[q].args.root \notin Writable
        BY <4>3, <4>6
      <4> HIDE DEF s, ro
      <4> QED  BY <4>3, <4>7 DEF Fit
    <3>4. CASE Bind(q)
      <4>1. proc[q] \in ServerRecords /\ IsServer(q) /\ proc[q].at = "bind"
        BY <3>4, <1>t, ServerIs DEF Bind, PAt
      <4>2. proc'[q] = Absent \/ proc'[q] = [proc[q] EXCEPT !.at = "serving"]
        BY <2>e, <3>4 DEF Bind
      <4>3. /\ proc'[q].at = "serving" /\ proc'[q].args = proc[q].args
            /\ proc'[q].config = proc[q].config /\ proc'[q].read_only = proc[q].read_only
            /\ proc'[q].clean = proc[q].clean
        BY <2>3, <4>1, <4>2 DEF IsServer, Alive, ServerRecords
      <4>4. merge(load_from(Global), load_from(proc[q].args.root))' =
            merge(load_from(Global), load_from(proc[q].args.root))
        BY <2>1, <4>3 DEF merge, load_from, default
      <4>5. proc[q].read_only <=>
              \/ proc[q].args.read_only
              \/ merge(load_from(Global), load_from(proc[q].args.root))["read_only"] = TRUE
              \/ proc[q].args.root \notin Writable
        BY <2>3, <4>1, <4>3 DEF ServersFit
      <4> QED  BY <4>3, <4>4, <4>5 DEF Fit
    <3>5. CASE Die(q) \/ Reuse(q)
      <4>1. proc'[q] = Absent \/ proc'[q] = Stranger
        BY <2>e, <3>5 DEF Die, Reuse
      <4> QED  BY <2>3, <4>1 DEF IsServer, Alive, Stranger
    <3> QED  BY <1>6, <3>1, <3>2, <3>3, <3>4, <3>5 DEF ProcessStep
  <2>4. ASSUME NEW p \in Pids, p # q, IsServer(p)', proc'[p].clean
        PROVE  Fit(p)'
    BY <1>s, <2>1, <2>2, <2>4
  <2> QED  BY <1>f, <2>3, <2>4
<1> QED
  BY <1>1, <1>2, <1>3, <1>4, <1>5, <1>6 DEF MachineNext, ProcessStep

\* A server is read-only exactly when it was told to be, its settings say so or
\* its directory takes no files, whatever commands wrote the settings before and
\* in whatever order they read, emptied and filled the two files.
THEOREM ReadOnlyHonoured ==
  ASSUME DaemonsAssumption
  PROVE  MachineSpec => []ReadOnlyIsHonoured
<1> DEFINE Inv == Filled /\ ServersFit /\ Global \notin frozen /\ \A f \in Files : FileInv(f)
<1>1. MachineInit => Inv
  <2> SUFFICES ASSUME MachineInit
               PROVE  Inv
    OBVIOUS
  <2>1. \A c \in Commands : cmd[c].at = "idle"
    BY DEF MachineInit, Idle
  <2>2. \A p \in Pids : proc[p] = Absent
    BY DEF MachineInit
  <2>3. \A f \in Files : load_from(f)["read_only"] = want[f]
    BY DEF MachineInit, load_from, default, Options
  <2>4. Filled /\ ServersFit /\ Global \notin frozen
    BY <2>1, <2>2 DEF MachineInit, Filled, ServersFit, IsServer, Alive
  <2>5. \A f \in Files : FileInv(f)
    BY <2>1, <2>3 DEF FileInv, Begun, Recorded, LastWriter, WritesTo, At
  <2> QED  BY <2>4, <2>5
<1>2. Inv /\ MachineTyped /\ [MachineNext]_machineVars => Inv'
  <2> SUFFICES ASSUME Inv, MachineTyped, [MachineNext]_machineVars
               PROVE  Inv'
    OBVIOUS
  <2>1. CASE MachineNext
    BY <2>1, FilledStays, FitStays, FilesKeep
  <2>2. CASE UNCHANGED machineVars
    <3>1. UNCHANGED <<proc, conf, cmd, want, lost, frozen>>
      BY <2>2 DEF machineVars
    <3>2. Filled'
      BY <3>1 DEF Filled, Own, default
    <3>3. ServersFit'
      <4>1. ASSUME NEW f
            PROVE  load_from(f)' = load_from(f)
        BY <3>1 DEF load_from, default
      <4>2. ASSUME NEW f
            PROVE  merge(load_from(Global), load_from(f))' = merge(load_from(Global), load_from(f))
        BY <4>1 DEF merge
      <4>3. ASSUME NEW p \in Pids
            PROVE  IsServer(p)' <=> IsServer(p)
        BY <3>1 DEF IsServer, Alive
      <4> QED  BY <3>1, <4>1, <4>2, <4>3 DEF ServersFit
    <3>4. \A f \in Files : FileInv(f)'
      BY <3>1, FileRests
    <3> QED  BY <3>1, <3>2, <3>3, <3>4
  <2> QED  BY <2>1, <2>2
<1>3. Inv /\ MachineTyped => ReadOnlyIsHonoured
  <2> SUFFICES ASSUME Inv, MachineTyped, NEW p \in Pids, PAt(p, "serving"), proc[p].clean,
                      NEW root, root = proc[p].args.root,
                      ~ \E c \in Commands : At(c, "write") /\ cmd[c].ask.file \in {Global, root},
                      lost \cap {Global, root} = {}, root \notin frozen
               PROVE  proc[p].read_only <=>
                        proc[p].args.read_only \/ root \notin Writable \/ Wanted(root)
    BY DEF ReadOnlyIsHonoured
  <2>1. IsServer(p) /\ root \in Roots
    BY ServerIs DEF MachineTyped, PAt
  <2>2. /\ load_from(Global)["read_only"] = want[Global]
        /\ load_from(root)["read_only"] = want[root]
    <3>1. Global \in Files /\ root \in Files /\ Recorded(Global) /\ Recorded(root)
      BY <2>1 DEF Files, FileInv
    <3>2. /\ \A c \in Commands : ~WritesTo(c, Global)
          /\ \A c \in Commands : ~WritesTo(c, root)
      BY DEF WritesTo
    <3> QED  BY <3>1, <3>2 DEF Recorded
  <2>3. load_from(Global) \in Settings /\ load_from(root) \in Settings
    BY <2>1, LoadedTyped DEF MachineTyped, Files
  <2>4. merge(load_from(Global), load_from(root))["read_only"] =
           IF want[root] # Unset THEN want[root] ELSE want[Global]
    BY <2>2, <2>3 DEF merge, Settings, Options
  <2>5. proc[p].read_only <=>
          \/ proc[p].args.read_only
          \/ merge(load_from(Global), load_from(root))["read_only"] = TRUE
          \/ root \notin Writable
    BY <2>1 DEF ServersFit, PAt
  <2> QED  BY <2>4, <2>5 DEF Wanted
<1> QED
  BY <1>1, <1>2, <1>3, MachineTypeCorrect, PTL DEF MachineSpec
-----------------------------------------------------------------------------
(* Ranges *)

\* The last byte that a header without an end stands for.
LEMMA LastByte ==
  ASSUME U64 \in Nat, NEW size \in 1..U64
  PROVE  WrappedLast(size) = size - 1
<1>1. size + U64 = (size - 1) + (U64 + 1)
  OBVIOUS
<1>2. ((size - 1) + (U64 + 1)) % (U64 + 1) = size - 1
  OBVIOUS
<1> QED
  BY <1>1, <1>2 DEF WrappedLast

\* For every size and header the answer is the bytes the header asks for.
LEMMA Exact ==
  ASSUME AccessAssumption, NEW h \in Headers, NEW size \in 0..U64
  PROVE  LET wanted == IF h.start = Nil /\ h.end = Nil THEN {} ELSE Wants(h, size)
             r == parse_range_header(h, size)
         IN IF r = Error THEN wanted = {}
            ELSE r.from \in Int /\ r.to \in Int /\ wanted = r.from..r.to
<1>n. Nil \notin Int /\ U64 \in Nat
  BY DEF AccessAssumption
<1>h. h.start \in 0..U64 \cup {Nil} /\ h.end \in 0..U64 \cup {Nil}
  BY DEF Headers
<1>z. CASE size = 0
  BY <1>n, <1>h, <1>z DEF parse_range_header, normalize_range, Wants, Error
<1>p. CASE size \in 1..U64
  <2>l. WrappedLast(size) = size - 1
    BY <1>n, <1>p, LastByte
  <2> DEFINE r == parse_range_header(h, size)
             norm(s, e) == IF s >= size \/ (IF e <= size - 1 THEN e ELSE size - 1) < s
                           THEN Error
                           ELSE [from |-> s, to |-> IF e <= size - 1 THEN e ELSE size - 1]
  <2>d. ASSUME NEW s \in Nat, NEW e \in Nat
        PROVE  normalize_range(s, e, size) = norm(s, e)
    BY <1>p DEF normalize_range
  <2>i. ASSUME NEW s \in Nat, NEW e \in Nat, norm(s, e) # Error
        PROVE  /\ norm(s, e).from = s /\ norm(s, e).to \in Int
               /\ \A p \in Int : p \in s..norm(s, e).to <=> s <= p /\ p <= e /\ p <= size - 1
    <3> DEFINE last == IF e <= size - 1 THEN e ELSE size - 1
    <3>1. norm(s, e) = [from |-> s, to |-> last]
      BY <2>i
    <3>2. norm(s, e).from = s /\ norm(s, e).to = last
      BY <3>1
    <3>3. last \in Int /\ \A p \in Int : p <= last <=> p <= e /\ p <= size - 1
      BY <1>p
    <3> HIDE DEF norm, last
    <3> QED  BY <3>2, <3>3
  <2>j. ASSUME NEW s \in Nat, NEW e \in Nat, norm(s, e) = Error
        PROVE  s >= size \/ e < s
    <3>1. CASE s >= size \/ (IF e <= size - 1 THEN e ELSE size - 1) < s
      BY <1>p, <3>1
    <3>2. CASE ~(s >= size \/ (IF e <= size - 1 THEN e ELSE size - 1) < s)
      <4>1. norm(s, e).from = s
        BY <3>2
      <4>2. norm(s, e).from = Nil
        BY <2>j DEF Error
      <4> QED  BY <1>n, <4>1, <4>2
    <3> QED  BY <3>1, <3>2
  <2> HIDE DEF norm
  <2>x. ASSUME NEW s \in Nat, NEW e \in Nat, r = norm(s, e), NEW W \in SUBSET Int,
               \A p \in Int : p \in W <=> p >= 0 /\ p <= size - 1 /\ s <= p /\ p <= e
        PROVE  IF r = Error THEN W = {}
               ELSE r.from \in Int /\ r.to \in Int /\ W = r.from..r.to
    <3> HIDE DEF r
    <3>1. CASE r = Error
      <4>1. s >= size \/ e < s
        BY <2>x, <2>j, <3>1
      <4>2. ASSUME NEW p \in W
            PROVE  FALSE
        BY <1>p, <2>x, <4>1
      <4> QED  BY <3>1, <4>2
    <3>2. CASE r # Error
      <4>1. /\ r.from = s /\ r.to \in Int
            /\ \A p \in Int : p \in s..r.to <=> s <= p /\ p <= e /\ p <= size - 1
        BY <2>x, <2>i, <3>2
      <4>2. \A p \in Int : p \in W <=> p \in r.from..r.to
        BY <2>x, <4>1
      <4>3. r.from \in Int /\ \A p \in r.from..r.to : p \in Int
        BY <2>x, <4>1
      <4>4. W \subseteq r.from..r.to /\ r.from..r.to \subseteq W
        BY <2>x, <4>2, <4>3
      <4>5. W = r.from..r.to
        BY <4>4, Zenon
      <4> QED  BY <3>2, <4>1, <4>3, <4>5
    <3> QED  BY <3>1, <3>2
  <2>1. CASE h.start = Nil /\ h.end \in {Nil, 0}
    BY <1>n, <1>p, <2>1 DEF parse_range_header, Wants, Error
  <2>2. CASE h.start = Nil /\ h.end \in 1..U64
    <3> DEFINE s == IF h.end >= size THEN 0 ELSE size - h.end
    <3>1. s \in Nat /\ size - 1 \in Nat
      BY <1>n, <1>p, <2>2
    <3>2. r = norm(s, size - 1)
      BY <1>n, <2>2, <2>d, <2>l, <3>1 DEF parse_range_header
    <3>3. \A p \in Int : p \in Wants(h, size) <=>
                          p >= 0 /\ p <= size - 1 /\ s <= p /\ p <= size - 1
      BY <1>n, <1>p, <2>2 DEF Wants
    <3>4. Wants(h, size) \in SUBSET Int /\ h.end # Nil
      BY <1>n, <1>p, <2>2 DEF Wants
    <3> HIDE DEF r, s
    <3>5. IF r = Error THEN Wants(h, size) = {}
          ELSE r.from \in Int /\ r.to \in Int /\ Wants(h, size) = r.from..r.to
      BY <2>x, <3>1, <3>2, <3>3, <3>4
    <3> QED  BY <3>4, <3>5 DEF r
  <2>3. CASE h.start \in 0..U64
    <3> DEFINE s == h.start
               e == IF h.end # Nil THEN h.end ELSE size - 1
    <3>1. s \in Nat /\ e \in Nat /\ s # Nil
      BY <1>n, <1>h, <1>p, <2>3
    <3>2. r = norm(s, e)
      BY <1>n, <1>p, <2>3, <2>d, <3>1 DEF parse_range_header
    <3>3. \A p \in Int : p \in Wants(h, size) <=>
                          p >= 0 /\ p <= size - 1 /\ s <= p /\ p <= e
      BY <1>n, <1>h, <1>p, <2>3 DEF Wants
    <3>4. Wants(h, size) \in SUBSET Int
      BY <1>n, <1>p DEF Wants
    <3> HIDE DEF r, e
    <3>5. IF r = Error THEN Wants(h, size) = {}
          ELSE r.from \in Int /\ r.to \in Int /\ Wants(h, size) = r.from..r.to
      BY <2>x, <3>1, <3>2, <3>3, <3>4
    <3> QED  BY <3>1, <3>5 DEF r
  <2> QED  BY <1>h, <1>n, <1>p, <2>1, <2>2, <2>3
<1> QED
  BY <1>n, <1>z, <1>p
\* The bytes answered are those the header asks for, for every size a u64 holds
\* and every combination of bounds, and an error means there were none.
THEOREM RangesExact ==
  ASSUME AccessAssumption
  PROVE  DoorSpec => []RangesAreExact
<1>1. DoorInit => RangesAreExact
  BY DEF DoorInit, RangesAreExact
<1>2. RangesAreExact /\ [DoorNext]_doorVars => RangesAreExact'
  <2> SUFFICES ASSUME RangesAreExact, [DoorNext]_doorVars
               PROVE  RangesAreExact'
    OBVIOUS
  <2>1. ASSUME UNCHANGED <<asked, got>>
        PROVE  RangesAreExact'
    BY <2>1 DEF RangesAreExact, Wants
  <2>2. ASSUME NEW h \in Headers \cup {Nil}, NEW size \in 0..U64,
               download_file(h, size)
        PROVE  RangesAreExact'
    <3>1. asked' = [header |-> h, size |-> size]
      BY <2>2 DEF download_file
    <3>2. CASE h = Nil
      BY <3>1, <3>2 DEF RangesAreExact
    <3>3. CASE h # Nil
      <4> DEFINE r == parse_range_header(h, size)
                 wanted == IF h.start = Nil /\ h.end = Nil THEN {} ELSE Wants(h, size)
      <4>1. IF r = Error THEN wanted = {}
            ELSE r.from \in Int /\ r.to \in Int /\ wanted = r.from..r.to
        BY <3>3, Exact
      <4>2. got' = IF r = Error THEN [status |-> 500, from |-> 0, length |-> 0]
                   ELSE [status |-> 206, from |-> r.from, length |-> r.to - r.from + 1]
        BY <2>2, <3>3 DEF download_file
      <4> HIDE DEF r, wanted
      <4>3. IF got'.status = 206 THEN wanted = got'.from..(got'.from + got'.length - 1)
            ELSE wanted = {}
        <5>1. CASE r = Error
          BY <4>1, <4>2, <5>1
        <5>2. CASE r # Error
          <6>1. got'.status = 206 /\ got'.from = r.from /\ got'.length = r.to - r.from + 1
            BY <4>2, <5>2
          <6>2. got'.from + got'.length - 1 = r.to
            BY <4>1, <5>2, <6>1
          <6> QED  BY <4>1, <5>2, <6>1, <6>2
        <5> QED  BY <5>1, <5>2
      <4> QED  BY <3>1, <4>3 DEF RangesAreExact, Wants, wanted
    <3> QED  BY <3>2, <3>3
  <2>3. CASE UNCHANGED doorVars
    BY <2>1, <2>3 DEF doorVars
  <2>4. ASSUME DoorNext,
               ~ \E h \in Headers \cup {Nil}, size \in 0..U64 : download_file(h, size)
        PROVE  UNCHANGED <<asked, got>>
    BY <2>4 DEF DoorNext, OpenLink, OtherProgram, Fetch, Asset, SendRequest,
       StartAgain, Respond, Receive, Tick
  <2> QED  BY <2>1, <2>2, <2>3, <2>4
<1> QED
  BY <1>1, <1>2, PTL DEF DoorSpec

-----------------------------------------------------------------------------
(* Access lasts *)

Tokens == Servers \X Nat
Answers == [status : Nat, cookie : {"keep", "clear", "set"}, age : Int \cup {Nil}]
Messages ==
    [server : Servers, query : Tokens \cup {Nil}, header : Tokens \cup {Nil},
     cookie : Tokens \cup {Nil}, writes : BOOLEAN, public : BOOLEAN, answer : Answers]

DoorTyped ==
    /\ now \in Nat /\ sent \in Nat
    /\ starts \in [Servers -> Nat]
    /\ expires \in [Servers -> Nat \cup {Nil}]
    /\ jar \in [value : Tokens \cup {Nil}, until : Int \cup {Nil}]
    /\ wire \subseteq Messages
    /\ admitted \subseteq Servers /\ unsettled \subseteq Servers

\* A token that was given out is of this start of its server or an earlier one.
Known(t) == t # Nil => t[2] <= starts[t[1]]

\* What the browser identifies itself with in a request.
Shown(q) == IF q.query # Nil THEN q.query ELSE q.cookie

\* A request: a link is only opened by a browser, to be read.
Sent(q) ==
    /\ Known(q.query) /\ Known(q.cookie)
    /\ q.query # Nil => q.header = Nil /\ ~q.public /\ ~q.writes

\* An answer sets the cookie of an opened link for as long as the token lives, and
\* clears it for the right token only when that has expired.
Fair(q) ==
    /\ q.answer.cookie = "set" =>
          /\ q.query # Nil /\ q.header = Nil /\ q.answer.status = 200 /\ q.server \notin Tokenless
          /\ q.query = Token(q.server) =>
                IF expires[q.server] = Nil THEN q.answer.age = Nil
                ELSE q.answer.age \in Int /\ now + q.answer.age >= expires[q.server]
    /\ (q.answer.cookie = "clear" /\ q.header = Nil /\ Shown(q) = Token(q.server)) =>
          Expired(q.server)
    /\ (q.answer.status = 200 /\ q.query # Nil /\ q.server \notin Tokenless) => q.answer.cookie = "set"

\* The cookie of an opened link stays as long as its token.
Stored ==
    \A s \in admitted \ unsettled : ~Expired(s) =>
        /\ jar.value = Token(s)
        /\ jar.until = Nil \/ (expires[s] # Nil /\ jar.until >= expires[s])

DoorInv == DoorTyped /\ Stored /\ Known(jar.value) /\ \A q \in wire : Sent(q) /\ Fair(q)

\* What the middlewares answer.
LEMMA AnswersFair ==
  ASSUME AccessAssumption, DoorTyped, NEW q \in Messages, Sent(q),
         NEW r, r = [q EXCEPT !.answer = middleware(q)]
  PROVE  r \in Messages /\ Sent(r) /\ Fair(r)
<1> DEFINE s == q.server
           a == middleware(q)
           provided == IF q.header # Nil THEN q.header ELSE Shown(q)
           reading  == read_only_middleware(q)
<1>n. Nil \notin Int /\ Nil \notin Tokens
  BY DEF AccessAssumption, Tokens
<1>q. /\ s \in Servers /\ q.query \in Tokens \cup {Nil} /\ q.cookie \in Tokens \cup {Nil}
      /\ q.writes \in BOOLEAN /\ q.public \in BOOLEAN
      /\ expires[s] \in Nat \cup {Nil} /\ now \in Nat
  BY DEF Messages, DoorTyped
<1>r. /\ reading = [status |-> IF s \in Writeless /\ q.writes THEN 403 ELSE 200,
                    cookie |-> "keep", age |-> Nil]
      /\ reading \in Answers
  BY DEF read_only_middleware, NoAnswer, Answers
<1>1. a = IF s \in Tokenless \/ q.public THEN reading
          ELSE IF provided = Nil THEN [status |-> 401, cookie |-> "keep", age |-> Nil]
          ELSE IF provided # Token(s) \/ Expired(s)
               THEN [status |-> 401, cookie |-> IF q.cookie # Nil THEN "clear" ELSE "keep",
                     age |-> Nil]
          ELSE IF q.query # Nil
               THEN [reading EXCEPT !.cookie = "set", !.age = cookie_max_age_secs(s)]
               ELSE reading
  BY DEF middleware, unauthorized_response, Shown
<1>2. cookie_max_age_secs(s) = IF expires[s] = Nil THEN Nil ELSE expires[s] - now
  BY DEF cookie_max_age_secs
<1> HIDE DEF a, provided, reading
<1>3. a \in Answers
  <2>1. cookie_max_age_secs(s) \in Int \cup {Nil}
    BY <1>2, <1>q
  <2>2. [reading EXCEPT !.cookie = "set", !.age = cookie_max_age_secs(s)] \in Answers
    <3>1. reading \in Answers
      BY <1>r
    <3> QED
      BY <2>1, <3>1 DEF Answers
  <2>3. /\ [status |-> 401, cookie |-> "keep", age |-> Nil] \in Answers
        /\ [status |-> 401, cookie |-> IF q.cookie # Nil THEN "clear" ELSE "keep",
            age |-> Nil] \in Answers
    BY DEF Answers
  <2> QED  BY <1>1, <1>r, <2>2, <2>3
<1>4. /\ r \in Messages /\ r.answer = a
      /\ r.server = q.server /\ r.query = q.query /\ r.cookie = q.cookie /\ r.header = q.header
      /\ r.public = q.public /\ r.writes = q.writes
  BY <1>3 DEF Messages, a
<1>5. Sent(r)
  BY <1>4 DEF Sent, Known
<1>6. ASSUME a.cookie = "set"
      PROVE  /\ q.query # Nil /\ q.header = Nil /\ a.status = 200 /\ s \notin Tokenless
             /\ IF expires[s] = Nil THEN a.age = Nil
                ELSE a.age \in Int /\ now + a.age >= expires[s]
  <2>1. /\ s \notin Tokenless /\ q.query # Nil
        /\ a = [reading EXCEPT !.cookie = "set", !.age = cookie_max_age_secs(s)]
    BY <1>1, <1>6, <1>r
  <2>2. q.header = Nil /\ ~q.writes
    BY <2>1 DEF Sent
  <2>3. a.status = 200 /\ a.age = cookie_max_age_secs(s)
    BY <1>r, <2>1, <2>2
  <2> QED  BY <1>2, <1>n, <1>q, <2>1, <2>2, <2>3
<1>7. ASSUME a.cookie = "clear", q.header = Nil, Shown(q) = Token(s)
      PROVE  Expired(s)
  <2>1. provided = Token(s)
    BY <1>7 DEF provided
  <2> QED  BY <1>1, <1>7, <1>r, <2>1
<1>8. ASSUME a.status = 200, q.query # Nil, s \notin Tokenless
      PROVE  a.cookie = "set"
  <2>1. ~q.public
    BY <1>8 DEF Sent
  <2> QED  BY <1>1, <1>8, <1>r, <2>1
<1>9. Shown(r) = Shown(q)
  BY <1>4 DEF Shown
<1> QED
  BY <1>4, <1>5, <1>6, <1>7, <1>8, <1>9 DEF Fair
\* Requests and answers under way as long as no server is started again.
LEMMA TimePasses ==
  ASSUME DoorTyped, now' \in Nat, now' >= now, UNCHANGED <<starts, expires>>,
         NEW q \in Messages, Sent(q), Fair(q), AccessAssumption
  PROVE  Sent(q)' /\ Fair(q)'
<1>n. Nil \notin Int
  BY DEF AccessAssumption
<1>1. Token(q.server)' = Token(q.server)
  BY DEF Token
<1>2. /\ expires[q.server] \in Nat \cup {Nil} /\ now \in Nat
      /\ q.answer.age \in Int \cup {Nil}
  BY DEF DoorTyped, Messages, Answers
<1>3. Expired(q.server) => Expired(q.server)'
  BY <1>2 DEF Expired
<1>4. Sent(q)'
  BY DEF Sent, Known
<1>5. Fair(q)'
  BY <1>1, <1>2, <1>3 DEF Fair, Shown
<1> QED  BY <1>4, <1>5

\* The cookie while only time passes.
LEMMA CookieStays ==
  ASSUME DoorTyped, Stored, now' \in Nat, now' >= now,
         UNCHANGED <<starts, expires, jar, admitted, unsettled>>
  PROVE  Stored'
<1> SUFFICES ASSUME NEW s \in admitted \ unsettled, ~Expired(s)'
             PROVE  /\ jar.value = Token(s)'
                    /\ jar.until = Nil \/ (expires[s] # Nil /\ jar.until >= expires[s])
  BY DEF Stored
<1>1. expires[s] \in Nat \cup {Nil} /\ now \in Nat
  BY DEF DoorTyped
<1>2. ~Expired(s)
  BY <1>1 DEF Expired
<1>3. Token(s)' = Token(s)
  BY DEF Token
<1> QED  BY <1>2, <1>3 DEF Stored

LEMMA RequestSent ==
  ASSUME AccessAssumption, DoorInv,
         NEW s \in Servers, NEW query \in Tokens \cup {Nil}, NEW header \in Tokens \cup {Nil},
         NEW cookie \in Tokens \cup {Nil}, NEW writes \in BOOLEAN, NEW public \in BOOLEAN,
         Known(query), Known(cookie), query # Nil => header = Nil /\ ~public /\ ~writes,
         SendRequest(s, query, header, cookie, writes, public)
  PROVE  DoorInv'
<1> DEFINE q == [server |-> s, query |-> query, header |-> header, cookie |-> cookie,
                 writes |-> writes, public |-> public, answer |-> NoAnswer]
<1>1. /\ wire' = wire \cup {q} /\ sent' = sent + 1
      /\ UNCHANGED <<now, starts, expires, jar, admitted, unsettled>>
  BY DEF SendRequest
<1>2. NoAnswer \in Answers
  BY DEF NoAnswer, Answers
<1>3. q \in Messages
  BY <1>2 DEF Messages
<1>4. Sent(q) /\ Fair(q)
  BY DEF Sent, Fair, NoAnswer
<1> HIDE DEF q
<1>5. DoorTyped'
  BY <1>1, <1>3 DEF DoorInv, DoorTyped
<1>t. DoorTyped /\ now \in Nat
  BY DEF DoorInv, DoorTyped
<1>6. ASSUME NEW m \in wire'
      PROVE  Sent(m)' /\ Fair(m)'
  <2>1. m \in Messages /\ Sent(m) /\ Fair(m)
    BY <1>1, <1>3, <1>4, <1>6 DEF DoorInv, DoorTyped
  <2> QED  BY <1>1, <1>t, <2>1, TimePasses
<1>7. Stored'
  BY <1>1, <1>t, CookieStays DEF DoorInv
<1>8. Known(jar.value)'
  BY <1>1 DEF DoorInv, Known
<1> QED  BY <1>5, <1>6, <1>7, <1>8 DEF DoorInv

LEMMA TokensAre ==
  ASSUME DoorTyped, AccessAssumption, NEW s \in Servers, NEW n \in 1..starts[s]
  PROVE  <<s, n>> \in Tokens /\ <<s, n>> # Nil /\ Known(<<s, n>>)
<1>1. starts[s] \in Nat
  BY DEF DoorTyped
<1>2. <<s, n>> \in Tokens
  BY <1>1 DEF Tokens
<1> QED  BY <1>1, <1>2 DEF Known, Tokens, AccessAssumption

\* The browser sends what it has, unless it is over.
LEMMA CookieIs ==
  ASSUME DoorInv
  PROVE  Cookie \in Tokens \cup {Nil} /\ Known(Cookie)
BY DEF DoorInv, DoorTyped, Cookie, Known

LEMMA AnswerKeeps ==
  ASSUME AccessAssumption, DoorInv, NEW q \in wire, Respond(q)
  PROVE  DoorInv'
<1>1. PICK r : r = [q EXCEPT !.answer = middleware(q)]
  OBVIOUS
<1>2. /\ wire' = (wire \ {q}) \cup {r}
      /\ UNCHANGED <<now, starts, expires, jar, sent, admitted, unsettled>>
  BY <1>1 DEF Respond
<1>t. DoorTyped /\ now \in Nat /\ q \in Messages /\ Sent(q)
  BY DEF DoorInv, DoorTyped
<1>3. r \in Messages /\ Sent(r) /\ Fair(r)
  BY <1>1, <1>t, AnswersFair
<1>5. DoorTyped'
  BY <1>2, <1>3 DEF DoorInv, DoorTyped
<1>6. ASSUME NEW m \in wire'
      PROVE  Sent(m)' /\ Fair(m)'
  <2>1. m \in Messages /\ Sent(m) /\ Fair(m)
    BY <1>2, <1>3, <1>6 DEF DoorInv, DoorTyped
  <2> QED  BY <1>2, <1>t, <2>1, TimePasses
<1>7. Stored'
  BY <1>2, <1>t, CookieStays DEF DoorInv
<1>8. Known(jar.value)'
  BY <1>2 DEF DoorInv, Known
<1> QED  BY <1>5, <1>6, <1>7, <1>8 DEF DoorInv

LEMMA ReceiveKeeps ==
  ASSUME AccessAssumption, DoorInv, NEW q \in wire, Receive(q)
  PROVE  DoorInv'
<1> DEFINE a == q.answer
           link == q.query = Token(q.server) /\ a.status = 200 /\ q.server \notin Tokenless
<1>n. Nil \notin Int /\ Nil \notin Tokens
  BY DEF AccessAssumption, Tokens
<1>t. /\ DoorTyped /\ now \in Nat /\ q \in Messages /\ Sent(q) /\ Fair(q)
      /\ a \in Answers /\ q.server \in Servers /\ q.query \in Tokens \cup {Nil}
      /\ starts[q.server] \in Nat
  BY DEF DoorInv, DoorTyped, Messages
<1>1. /\ wire' = wire \ {q}
      /\ jar' = IF q.header # Nil \/ a.cookie = "keep" THEN jar
                ELSE IF a.cookie = "clear" THEN [value |-> Nil, until |-> Nil]
                ELSE [value |-> q.query, until |-> IF a.age = Nil THEN Nil ELSE now + a.age]
      /\ admitted' = IF link THEN admitted \cup {q.server} ELSE admitted
      /\ unsettled' =
            (IF jar' = jar THEN unsettled
             ELSE unsettled \cup {s \in admitted :
                      \/ s # q.server \/ q.query \notin {Nil, Token(s)}
                      \/ a.cookie = "clear" /\ q.cookie # Token(s)})
            \ (IF link THEN {q.server} ELSE {})
      /\ UNCHANGED <<now, starts, expires, sent>>
  BY DEF Receive, NoCookie
<1>2. a.age \in Int \cup {Nil} /\ a.cookie \in {"keep", "clear", "set"}
  BY <1>t DEF Answers
<1> HIDE DEF a
<1>3. jar' \in [value : Tokens \cup {Nil}, until : Int \cup {Nil}]
  <2>1. CASE jar' = jar
    BY <2>1 DEF DoorInv, DoorTyped
  <2>2. CASE jar' = [value |-> Nil, until |-> Nil]
    BY <2>2
  <2>3. CASE jar' = [value |-> q.query, until |-> IF a.age = Nil THEN Nil ELSE now + a.age]
    <3>1. (IF a.age = Nil THEN Nil ELSE now + a.age) \in Int \cup {Nil}
      BY <1>2, <1>t
    <3> QED  BY <1>t, <2>3, <3>1
  <2> QED  BY <1>1, <2>1, <2>2, <2>3
<1>4. admitted' \subseteq Servers /\ unsettled' \subseteq Servers
  BY <1>1, <1>t DEF DoorTyped
<1>5. DoorTyped'
  BY <1>1, <1>3, <1>4, <1>t DEF DoorTyped
<1>6. ASSUME NEW m \in wire'
      PROVE  Sent(m)' /\ Fair(m)'
  <2>1. m \in Messages /\ Sent(m) /\ Fair(m)
    BY <1>1, <1>6 DEF DoorInv, DoorTyped
  <2> QED  BY <1>1, <1>t, <2>1, TimePasses
<1>7. Known(jar.value)'
  <2>1. Known(jar.value) /\ Known(q.query)
    BY <1>t DEF DoorInv, Sent
  <2>2. jar'.value \in {jar.value, Nil, q.query}
    BY <1>1
  <2> QED  BY <1>1, <2>1, <2>2 DEF Known
<1>8. Stored'
  <2> SUFFICES ASSUME NEW s \in admitted' \ unsettled', ~Expired(s)'
               PROVE  /\ jar'.value = Token(s)'
                      /\ jar'.until = Nil \/ (expires'[s] # Nil /\ jar'.until >= expires'[s])
    BY DEF Stored
  <2>1. /\ Token(s)' = Token(s) /\ ~Expired(s) /\ expires' = expires
        /\ s \in Servers
    BY <1>1, <1>4 DEF Token, Expired
  <2>2. CASE link /\ s = q.server
    <3>1. Token(s) \in Tokens
      BY <1>t, <2>2 DEF Token, Tokens
    <3>2. a.cookie = "set" /\ q.header = Nil
      BY <1>n, <1>t, <2>2, <3>1 DEF Fair, a
    <3>3. IF expires[s] = Nil THEN a.age = Nil
          ELSE a.age \in Int /\ now + a.age >= expires[s]
      BY <1>t, <2>2, <3>2 DEF Fair, a
    <3>4. jar' = [value |-> q.query, until |-> IF a.age = Nil THEN Nil ELSE now + a.age]
      BY <1>1, <3>2
    <3>5. jar'.value = q.query /\ jar'.until = IF a.age = Nil THEN Nil ELSE now + a.age
      BY <3>4
    <3> QED  BY <1>n, <2>1, <2>2, <3>3, <3>5
  <2>3. CASE ~(link /\ s = q.server) /\ jar' = jar
    <3>1. s \in admitted \ unsettled
      BY <1>1, <2>3
    <3> QED  BY <2>1, <2>3, <3>1 DEF DoorInv, Stored
  <2>4. CASE ~(link /\ s = q.server) /\ jar' # jar
    <3>1. /\ s \in admitted /\ s = q.server /\ q.query \in {Nil, Token(s)}
          /\ a.cookie = "clear" => q.cookie = Token(s)
      BY <1>1, <2>4
    <3>2. q.header = Nil /\ a.cookie \in {"clear", "set"}
      BY <1>1, <1>2, <2>4
    <3>3. CASE a.cookie = "set"
      <4>1. q.query # Nil /\ a.status = 200 /\ q.server \notin Tokenless
        BY <1>t, <3>3 DEF Fair, a
      <4> QED  BY <2>4, <3>1, <4>1
    <3>4. CASE a.cookie = "clear"
      <4>1. Shown(q) = Token(s)
        BY <3>1, <3>4 DEF Shown
      <4>2. Expired(s)
        BY <1>t, <3>1, <3>2, <3>4, <4>1 DEF Fair, a
      <4> QED  BY <2>1, <4>2
    <3> QED  BY <3>2, <3>3, <3>4
  <2> QED  BY <2>2, <2>3, <2>4
<1> QED  BY <1>5, <1>6, <1>7, <1>8 DEF DoorInv

LEMMA RestartKeeps ==
  ASSUME AccessAssumption, DoorInv, NEW s \in Servers, StartAgain(s)
  PROVE  DoorInv'
<1>n. Nil \notin Int /\ Nil \notin Tokens
  BY DEF AccessAssumption, Tokens
<1>1. /\ starts' = [starts EXCEPT ![s] = starts[s] + 1]
      /\ expires' = [expires EXCEPT ![s] = IF Lifetime[s] = Nil THEN Nil ELSE now + Lifetime[s]]
      /\ admitted' = admitted \ {s} /\ unsettled' = unsettled \ {s}
      /\ UNCHANGED <<now, jar, wire, sent>>
  BY DEF StartAgain
<1>t. DoorTyped /\ now \in Nat /\ starts \in [Servers -> Nat] /\ expires \in [Servers -> Nat \cup {Nil}]
  BY DEF DoorInv, DoorTyped
<1>2. DoorTyped'
  <2>1. starts' \in [Servers -> Nat]
    BY <1>1, <1>t
  <2>2. (IF Lifetime[s] = Nil THEN Nil ELSE now + Lifetime[s]) \in Nat \cup {Nil}
    BY <1>t DEF AccessAssumption
  <2>3. expires' \in [Servers -> Nat \cup {Nil}]
    BY <1>1, <1>t, <2>2
  <2> QED  BY <1>1, <1>t, <2>1, <2>3 DEF DoorTyped
<1>3. ASSUME NEW t \in Tokens \cup {Nil}, Known(t)
      PROVE  Known(t)' /\ (t # Nil => t # Token(s)')
  <2>1. CASE t = Nil
    BY <2>1 DEF Known
  <2>2. CASE t \in Tokens
    <3>1. t[1] \in Servers /\ t[2] \in Nat /\ t[2] <= starts[t[1]]
      BY <1>n, <1>3, <2>2 DEF Tokens, Known
    <3>2. starts[t[1]] <= starts'[t[1]] /\ starts'[s] = starts[s] + 1
      BY <1>1, <1>t, <3>1
    <3>3. starts[t[1]] \in Nat /\ starts'[t[1]] \in Nat /\ starts[s] \in Nat
      BY <1>t, <1>2, <3>1 DEF DoorTyped
    <3>4. t[2] <= starts'[t[1]]
      BY <3>1, <3>2, <3>3
    <3>5. ASSUME t = <<s, starts'[s]>>
          PROVE  FALSE
      <4>1. t[1] = s /\ t[2] = starts'[s]
        BY <3>5
      <4> QED  BY <3>1, <3>2, <3>3, <4>1
    <3> QED  BY <3>4, <3>5 DEF Known, Token
  <2> QED  BY <1>3, <2>1, <2>2
<1>4. ASSUME NEW m \in wire'
      PROVE  Sent(m)' /\ Fair(m)'
  <2>1. /\ m \in Messages /\ Sent(m) /\ Fair(m)
        /\ m.query \in Tokens \cup {Nil} /\ m.cookie \in Tokens \cup {Nil} /\ m.server \in Servers
    BY <1>1, <1>4 DEF DoorInv, DoorTyped, Messages
  <2>2. Sent(m)'
    BY <1>3, <2>1 DEF Sent
  <2>3. CASE m.server = s
    <3>1. Shown(m) # Token(s)' /\ (m.query # Nil => m.query # Token(s)')
      <4>1. Token(s)' \in Tokens
        BY <1>2 DEF Token, Tokens, DoorTyped
      <4> QED  BY <1>3, <1>n, <2>1, <4>1 DEF Shown, Sent
    <3>2. /\ m.answer.cookie = "set" => m.query # Nil /\ m.header = Nil /\ m.answer.status = 200
                                         /\ m.server \notin Tokenless
          /\ (m.answer.status = 200 /\ m.query # Nil /\ m.server \notin Tokenless) =>
                m.answer.cookie = "set"
      BY <2>1 DEF Fair
    <3> QED  BY <2>2, <2>3, <3>1, <3>2 DEF Fair, Shown
  <2>4. CASE m.server # s
    <3>1. /\ expires'[m.server] = expires[m.server]
          /\ Token(m.server)' = Token(m.server)
      BY <1>1, <1>t, <2>1, <2>4 DEF Token
    <3>2. Expired(m.server)' = Expired(m.server)
      BY <1>1, <3>1 DEF Expired
    <3>3. Fair(m)'
      BY <1>1, <2>1, <3>1, <3>2 DEF Fair, Shown
    <3> QED  BY <2>2, <3>3
  <2> QED  BY <2>3, <2>4
<1>5. Known(jar.value)'
  <2>1. jar.value \in Tokens \cup {Nil} /\ Known(jar.value) /\ jar' = jar
    BY <1>1, <1>t DEF DoorInv, DoorTyped
  <2> QED  BY <1>3, <2>1
<1>6. Stored'
  <2> SUFFICES ASSUME NEW t \in admitted' \ unsettled', ~Expired(t)'
               PROVE  /\ jar'.value = Token(t)'
                      /\ jar'.until = Nil \/ (expires'[t] # Nil /\ jar'.until >= expires'[t])
    BY DEF Stored
  <2>1. t # s /\ t \in admitted \ unsettled /\ t \in Servers
    BY <1>1, <1>t DEF DoorTyped
  <2>2. expires'[t] = expires[t] /\ Token(t)' = Token(t)
    BY <1>1, <1>t, <2>1 DEF Token
  <2>3. ~Expired(t)
    BY <1>1, <2>2 DEF Expired
  <2> QED  BY <1>1, <2>1, <2>2, <2>3 DEF DoorInv, Stored
<1> QED  BY <1>2, <1>4, <1>5, <1>6 DEF DoorInv
\* A browser that opened a server's link keeps its access until the token
\* expires or the server is started again, whatever older cookie it had and
\* however requests, answers and the clock interleave, for any number of
\* servers, requests and starts; the property names the answers that end it.
THEOREM AccessKept ==
  ASSUME AccessAssumption
  PROVE  DoorSpec => []AccessLasts
<1>n. Nil \notin Int /\ Nil \notin Tokens
  BY DEF AccessAssumption, Tokens
<1>1. DoorInit => DoorInv
  <2> SUFFICES ASSUME DoorInit
               PROVE  DoorInv
    OBVIOUS
  <2>1. jar = [value |-> Nil, until |-> Nil] /\ wire = {} /\ admitted = {}
    BY DEF DoorInit, NoCookie
  <2>2. DoorTyped
    BY <2>1 DEF DoorInit, DoorTyped, AccessAssumption
  <2> QED  BY <2>1, <2>2 DEF DoorInv, Stored, Known
<1>2. DoorInv /\ [DoorNext]_doorVars => DoorInv'
  <2> SUFFICES ASSUME DoorInv, [DoorNext]_doorVars
               PROVE  DoorInv'
    OBVIOUS
  <2>t. DoorTyped /\ now \in Nat
    BY DEF DoorInv, DoorTyped
  <2>0. ASSUME now' \in Nat, now' >= now, DoorTyped',
               UNCHANGED <<starts, expires, jar, wire, sent, admitted, unsettled>>
        PROVE  DoorInv'
    <3>1. ASSUME NEW m \in wire'
          PROVE  Sent(m)' /\ Fair(m)'
      <4>1. m \in Messages /\ Sent(m) /\ Fair(m)
        BY <2>0, <3>1 DEF DoorInv, DoorTyped
      <4> QED  BY <2>0, <2>t, <4>1, TimePasses
    <3>2. Stored'
      BY <2>0, <2>t, CookieStays DEF DoorInv
    <3>3. Known(jar.value)'
      BY <2>0 DEF DoorInv, Known
    <3> QED  BY <2>0, <3>1, <3>2, <3>3 DEF DoorInv
  <2>s. UNCHANGED <<now, starts, expires, jar, wire, sent, admitted, unsettled>> => DoorInv'
    <3> SUFFICES ASSUME UNCHANGED <<now, starts, expires, jar, wire, sent, admitted, unsettled>>
                 PROVE  DoorInv'
      OBVIOUS
    <3>1. DoorTyped'
      BY <2>t DEF DoorTyped
    <3>2. now' \in Nat /\ now' >= now
      BY <2>t
    <3> QED  BY <2>0, <3>1, <3>2
  <2>1. ASSUME NEW s \in Servers, NEW n \in 1..starts[s], OpenLink(s, n)
        PROVE  DoorInv'
    <3>1. <<s, n>> \in Tokens /\ <<s, n>> # Nil /\ Known(<<s, n>>)
      BY <2>t, TokensAre
    <3>2. Cookie \in Tokens \cup {Nil} /\ Known(Cookie)
      BY CookieIs
    <3>3. SendRequest(s, <<s, n>>, Nil, Cookie, FALSE, FALSE)
      BY <2>1 DEF OpenLink
    <3> QED  BY <3>1, <3>2, <3>3, RequestSent
  <2>2. ASSUME NEW s \in Servers, NEW n \in 1..starts[s], OtherProgram(s, n)
        PROVE  DoorInv'
    <3>1. <<s, n>> \in Tokens
      BY <2>t, TokensAre
    <3>2. SendRequest(s, Nil, <<s, n>>, Nil, TRUE, FALSE)
      BY <2>2 DEF OtherProgram
    <3>3. Known(Nil)
      BY DEF Known
    <3> QED  BY <3>1, <3>2, <3>3, RequestSent
  <2>3. ASSUME NEW s \in Servers, Fetch(s) \/ Asset(s)
        PROVE  DoorInv'
    <3>1. Cookie \in Tokens \cup {Nil} /\ Known(Cookie) /\ Known(Nil)
      BY CookieIs DEF Known
    <3>2. \/ SendRequest(s, Nil, Nil, Cookie, TRUE, FALSE)
          \/ SendRequest(s, Nil, Nil, Cookie, FALSE, TRUE)
      BY <2>3 DEF Fetch, Asset
    <3> QED  BY <3>1, <3>2, RequestSent
  <2>4. ASSUME Tick
        PROVE  DoorInv'
    <3>1. now' \in Nat /\ now' >= now
      BY <2>4, <2>t DEF Tick
    <3>2. DoorTyped'
      BY <2>4, <2>t, <3>1 DEF Tick, DoorTyped
    <3> QED  BY <2>0, <2>4, <3>1, <3>2 DEF Tick
  <2>5. ASSUME NEW h, NEW size, download_file(h, size)
        PROVE  DoorInv'
    BY <2>5, <2>s DEF download_file
  <2>6. CASE UNCHANGED doorVars
    BY <2>6, <2>s DEF doorVars
  <2> QED
    BY <2>1, <2>2, <2>3, <2>4, <2>5, <2>6, AnswerKeeps, ReceiveKeeps, RestartKeeps DEF DoorNext
<1>3. DoorInv => AccessLasts
  <2> SUFFICES ASSUME DoorInv, NEW s \in admitted \ unsettled, ~Expired(s)
               PROVE  Cookie = Token(s)
    BY DEF AccessLasts
  <2>1. /\ jar.value = Token(s)
        /\ jar.until = Nil \/ (expires[s] # Nil /\ jar.until >= expires[s])
    BY DEF DoorInv, Stored
  <2>2. expires[s] \in Nat \cup {Nil} /\ now \in Nat /\ jar.until \in Int \cup {Nil}
    BY DEF DoorInv, DoorTyped
  <2> QED  BY <1>n, <2>1, <2>2 DEF Cookie, Expired
<1> QED
  BY <1>1, <1>2, <1>3, PTL DEF DoorSpec
=============================================================================
