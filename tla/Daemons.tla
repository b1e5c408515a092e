------------------------------ MODULE Daemons ------------------------------
(***************************************************************************)
(* The processes of zfiles on one machine: servers started in the          *)
(* foreground or by "zfiles daemon" (daemon.rs, daemon_config.rs), and the *)
(* two files of settings the commands "config set" and "init" write and a  *)
(* server reads when it starts (config.rs, cli.rs, dotfolder.rs).          *)
(*                                                                         *)
(* Nothing locks a pid file or a settings file: every read, removal,       *)
(* truncation and write is a step of its own, and a command may be         *)
(* interrupted between any two.  A file that was truncated and not yet     *)
(* written reads as one without settings, or as a pid that does not parse. *)
(* Of two commands that write one file at once the later one's text stays. *)
(* Commands that only print (status, config get) are left out.             *)
(***************************************************************************)
EXTENDS Naturals, Sequences

CONSTANTS
    Roots, Writable,  \* served directories, and those that accept new files
    Pids,             \* process ids
    Commands, Plans,  \* the commands of a behaviour, and what is typed as each
    Global, Missing,  \* the file of the global settings; no file
    Absent, Torn, Unset,
    MaxFaults         \* bound: interruptions, crashes and reused pids

VARIABLES
    proc,     \* the processes
    pidfile,  \* daemon.pid of each root: a pid, Absent or Torn
    conf,     \* config.toml, global and of each root
    cmd,      \* the commands and how far each one is
    want,     \* history: what read_only was last set to
    tangled,  \* history: roots whose pid file two commands changed at once
    lost,     \* history: files that lost a setting to another command or an interruption
    frozen,   \* history: roots whose file took over a global read_only
    faults    \* bound

machineVars == <<proc, pidfile, conf, cmd, want, tangled, lost, frozen, faults>>

Files    == Roots \cup {Global}
Options  == {"read_only", "open_browser"}
Settings == [Options -> BOOLEAN \cup {Unset}]

\* What is typed: shares are of the arguments or of a daemon.toml that lists some.
Shares == [root : Roots, bind : {"loopback", "lan"}, port : Nat]
Args   == [root : Roots, bind : {"loopback", "lan"}, port : Nat,
           token : BOOLEAN, public : BOOLEAN, read_only : BOOLEAN]
Asks   == [cmd : {"start", "stop"}, shares : Seq(Shares) \ {<<>>}]
          \cup [cmd : {"serve"}, shares : {<<>>}, args : Args]
          \cup [cmd : {"set"}, shares : {<<>>}, file : Files, key : Options, value : BOOLEAN]
          \cup [cmd : {"init"}, shares : {<<>>}, root : Roots]

DaemonsAssumption ==
    /\ Global \notin Roots
    /\ Absent \notin Pids /\ Torn \notin Pids /\ Absent # Torn
    /\ Missing \notin Settings
    /\ Unset \notin BOOLEAN
    /\ Plans \subseteq [Commands -> Asks]

default == [k \in Options |-> Unset]
load_from(f) == IF conf[f] = Missing THEN default ELSE conf[f]

\* Mutated: a folder cannot take back what is set for all folders.
mergeTrue(global, overlay) ==
    [k \in DOMAIN global |-> IF overlay[k] = TRUE THEN TRUE ELSE global[k]]

merge(global, overlay) ==
    [k \in DOMAIN global |-> IF overlay[k] # Unset THEN overlay[k] ELSE global[k]]

Alive(p) == proc[p] # Absent
IsServer(p) == Alive(p) /\ proc[p].kind = "server"

\* Ids are handed out in turn: not one a command still has in its hands.
Free == {p \in Pids : ~Alive(p)} \ {cmd[c].pid : c \in Commands}

\* The arguments daemon::start gives its child: never --token.
ChildOf(share) ==
    [root |-> share.root, bind |-> share.bind, port |-> share.port,
     token |-> FALSE, public |-> FALSE, read_only |-> FALSE]

\* ServeArgs.normalize.
normalize(a) ==
    IF a.public
    THEN [a EXCEPT !.token = TRUE, !.bind = IF @ = "loopback" THEN "lan" ELSE @]
    ELSE a

Server(args, daemon) ==
    [kind |-> "server", args |-> normalize(args), daemon |-> daemon, at |-> "validate",
     config |-> default, read_only |-> FALSE, dying |-> FALSE, clean |-> TRUE]

Stranger == [kind |-> "other", dying |-> FALSE]

-----------------------------------------------------------------------------
(* Commands *)

Idle(a) == [at |-> "idle", ask |-> a, left |-> <<>>, pid |-> Absent, base |-> Missing,
            config |-> default]

At(c, at) == cmd[c].at = at
Goes(c, at) == cmd' = [cmd EXCEPT ![c].at = at]
Root(c) == Head(cmd[c].left).root

Pidless == UNCHANGED <<conf, want, lost, frozen>>
Settingless == UNCHANGED <<pidfile, tangled>>

FirstStep(a) ==
    CASE a.cmd \in {"start", "stop"} -> "look"
      [] a.cmd = "serve" -> "serve"
      [] a.cmd = "set"   -> "load"
      [] a.cmd = "init"  -> "check_file"

Run(c) ==
    /\ At(c, "idle")
    /\ cmd' = [cmd EXCEPT ![c].left = cmd[c].ask.shares, ![c].at = FirstStep(cmd[c].ask)]
    /\ UNCHANGED <<proc, pidfile, conf, want, tangled, lost, frozen, faults>>

\* The next share of a daemon.toml, or the end.
NextShare(c) ==
    cmd' = [cmd EXCEPT ![c].left = Tail(@), ![c].pid = Absent,
                       ![c].at = IF Len(cmd[c].left) = 1 THEN "done" ELSE "look"]

\* read_pid: a pid that does not parse ends the command.
Look(c) ==
    /\ At(c, "look")
    /\ LET pid == pidfile[Root(c)]
       IN IF pid = Torn THEN Goes(c, "failed")
          ELSE IF pid = Absent
          THEN IF cmd[c].ask.cmd = "start" THEN Goes(c, "spawn") ELSE NextShare(c)
          ELSE cmd' = [cmd EXCEPT ![c].pid = pid, ![c].at = "check"]
    /\ UNCHANGED <<proc, pidfile, tangled, faults>> /\ Pidless

\* Mutated: whether the process named is alive is not asked.
CheckNothing(c) ==
    /\ At(c, "check") /\ Goes(c, "remove")
    /\ UNCHANGED <<proc, pidfile, tangled, faults>> /\ Pidless

\* process_alive, "kill -0": any process of that id counts.
Check(c) ==
    /\ At(c, "check")
    /\ IF ~Alive(cmd[c].pid) THEN Goes(c, "remove")
       ELSE Goes(c, IF cmd[c].ask.cmd = "start" THEN "failed" ELSE "kill")
    /\ UNCHANGED <<proc, pidfile, tangled, faults>> /\ Pidless

\* signal_process, whoever has the id by now.
Kill(c) ==
    /\ At(c, "kill") /\ Goes(c, "wait")
    /\ proc' = IF Alive(cmd[c].pid) THEN [proc EXCEPT ![cmd[c].pid].dying = TRUE] ELSE proc
    /\ UNCHANGED <<pidfile, tangled, faults>> /\ Pidless

\* Two seconds at most, whether the process ended or not.
Wait(c) ==
    /\ At(c, "wait") /\ Goes(c, "remove")
    /\ UNCHANGED <<proc, pidfile, tangled, faults>> /\ Pidless

\* The file is removed whatever it names by now.
RemovePid(c) ==
    /\ At(c, "remove")
    /\ pidfile' = [pidfile EXCEPT ![Root(c)] = Absent]
    /\ tangled' = IF pidfile[Root(c)] \in {Absent, cmd[c].pid} THEN tangled ELSE tangled \cup {Root(c)}
    /\ IF cmd[c].ask.cmd = "start" THEN Goes(c, "spawn") ELSE NextShare(c)
    /\ UNCHANGED <<proc, faults>> /\ Pidless

Spawn(c) ==
    /\ At(c, "spawn")
    /\ \E p \in Free :
        /\ proc' = [proc EXCEPT ![p] = Server(ChildOf(Head(cmd[c].left)), TRUE)]
        /\ cmd' = [cmd EXCEPT ![c].pid = p, ![c].at = "truncate_pid"]
    /\ UNCHANGED <<pidfile, tangled, faults>> /\ Pidless

\* fs::write: the file is emptied, and then filled.
TruncatePid(c) ==
    /\ At(c, "truncate_pid") /\ Goes(c, "write_pid")
    /\ pidfile' = [pidfile EXCEPT ![Root(c)] = Torn]
    /\ tangled' = IF pidfile[Root(c)] = Absent THEN tangled ELSE tangled \cup {Root(c)}
    /\ UNCHANGED <<proc, faults>> /\ Pidless

WritePid(c) ==
    /\ At(c, "write_pid") /\ NextShare(c)
    /\ pidfile' = [pidfile EXCEPT ![Root(c)] = cmd[c].pid]
    /\ tangled' = IF pidfile[Root(c)] = Torn THEN tangled ELSE tangled \cup {Root(c)}
    /\ UNCHANGED <<proc, faults>> /\ Pidless

\* A server in the foreground is a command that becomes the process.
ServeHere(c) ==
    /\ At(c, "serve") /\ Goes(c, "done")
    /\ \E p \in Free : proc' = [proc EXCEPT ![p] = Server(cmd[c].ask.args, FALSE)]
    /\ UNCHANGED <<pidfile, tangled, faults>> /\ Pidless

-----------------------------------------------------------------------------
(* Settings *)

\* Servers that have read, or are to read, a file that changes.
Stirred(f) ==
    [p \in Pids |-> IF IsServer(p) /\ f \in {Global, proc[p].args.root}
                    THEN [proc[p] EXCEPT !.clean = FALSE] ELSE proc[p]]

\* "config set": the global file, and for a folder its own over it.
Load(c) ==
    LET ask == cmd[c].ask
    IN /\ At(c, "load")
       /\ cmd' = [cmd EXCEPT ![c].at = IF ask.file = Global THEN "truncate" ELSE "load_folder",
                             ![c].base = conf[Global],
                             ![c].config = IF ask.file = Global
                                           THEN [load_from(Global) EXCEPT ![ask.key] = ask.value]
                                           ELSE load_from(Global)]
       /\ UNCHANGED <<proc, conf, want, lost, frozen, faults>> /\ Settingless

LoadFolder(c) ==
    LET ask == cmd[c].ask
    IN /\ At(c, "load_folder")
       /\ cmd' = [cmd EXCEPT ![c].at = "truncate", ![c].base = conf[ask.file],
                             ![c].config = [merge(@, load_from(ask.file)) EXCEPT ![ask.key] = ask.value]]
       /\ UNCHANGED <<proc, conf, want, lost, frozen, faults>> /\ Settingless

\* save_to empties the file ...
Truncate(c) ==
    LET f == cmd[c].ask.file
    IN /\ At(c, "truncate") /\ Goes(c, "write")
       /\ conf' = [conf EXCEPT ![f] = default]
       /\ lost' = IF conf[f] = cmd[c].base THEN lost ELSE lost \cup {f}
       /\ proc' = Stirred(f)
       /\ UNCHANGED <<want, frozen, faults>> /\ Settingless

\* ... and writes all settings, also those that were only set globally.
Write(c) ==
    LET ask == cmd[c].ask
        own == IF cmd[c].base = Missing THEN default ELSE cmd[c].base
    IN /\ At(c, "write") /\ Goes(c, "done")
       /\ conf' = [conf EXCEPT ![ask.file] = cmd[c].config]
       /\ lost' = IF conf[ask.file] = default THEN lost ELSE lost \cup {ask.file}
       /\ want' = IF ask.key = "read_only" THEN [want EXCEPT ![ask.file] = ask.value] ELSE want
       /\ frozen' = IF ask.key # "read_only" /\ cmd[c].config["read_only"] # own["read_only"]
                    THEN frozen \cup {ask.file}
                    ELSE IF ask.key = "read_only" THEN frozen \ {ask.file} ELSE frozen
       /\ proc' = Stirred(ask.file)
       /\ UNCHANGED faults /\ Settingless

\* "init": the global file and then the folder's, where there is none.
InitFile(c) == IF cmd[c].base = Global THEN cmd[c].ask.root ELSE Global

AfterInit(c) ==
    cmd' = [cmd EXCEPT ![c].at = IF InitFile(c) = Global THEN "check_file" ELSE "done",
                       ![c].base = Global]

CheckFile(c) ==
    /\ At(c, "check_file")
    /\ IF conf[InitFile(c)] = Missing THEN Goes(c, "create_file") ELSE AfterInit(c)
    /\ UNCHANGED <<proc, conf, want, lost, frozen, faults>> /\ Settingless

CreateFile(c) ==
    LET f == InitFile(c)
    IN /\ At(c, "create_file") /\ AfterInit(c)
       /\ conf' = [conf EXCEPT ![f] = default]
       /\ lost' = IF conf[f] = Missing THEN lost ELSE lost \cup {f}
       /\ proc' = Stirred(f)
       /\ UNCHANGED <<want, frozen, faults>> /\ Settingless

Over == {"idle", "done", "failed"}

\* Ctrl-C, or the machine stops the command.
Interrupt(c) ==
    /\ cmd[c].at \notin Over \cup {"serve"}
    /\ faults < MaxFaults /\ faults' = faults + 1
    /\ Goes(c, "failed")
    /\ lost' = IF At(c, "write") THEN lost \cup {cmd[c].ask.file} ELSE lost
    /\ tangled' = IF cmd[c].at \in {"truncate_pid", "write_pid"} THEN tangled \cup {Root(c)} ELSE tangled
    /\ UNCHANGED <<proc, pidfile, conf, want, frozen>>

-----------------------------------------------------------------------------
(* Servers *)

PAt(p, at) == IsServer(p) /\ proc[p].at = at
Quiet == UNCHANGED <<pidfile, conf, cmd, want, tangled, lost, frozen>>
PSet(p, e) == proc' = [proc EXCEPT ![p] = e]

\* ServeArgs.validate: an address others can reach needs a token.
Validate(p) ==
    /\ PAt(p, "validate")
    /\ IF proc[p].args.bind = "lan" /\ ~proc[p].args.token
       THEN PSet(p, Absent) ELSE PSet(p, [proc[p] EXCEPT !.at = "global"])
    /\ UNCHANGED faults /\ Quiet

\* Config::load.
LoadGlobal(p) ==
    /\ PAt(p, "global")
    /\ PSet(p, [proc[p] EXCEPT !.at = "folder", !.config = load_from(Global)])
    /\ UNCHANGED faults /\ Quiet

\* plan_serve_layout.
PlanServeLayout(p) ==
    LET root   == proc[p].args.root
        config == merge(proc[p].config, load_from(root))
    IN /\ PAt(p, "folder")
       /\ PSet(p, [proc[p] EXCEPT !.at = "bind", !.config = config,
             !.read_only = proc[p].args.read_only \/ config["read_only"] = TRUE
                           \/ root \notin Writable])
       /\ UNCHANGED faults /\ Quiet

\* Port 0 is any free port.
Taken(port) == port # 0 /\ \E q \in Pids : PAt(q, "serving") /\ proc[q].args.port = port

Bind(p) ==
    /\ PAt(p, "bind")
    /\ IF Taken(proc[p].args.port) THEN PSet(p, Absent) ELSE PSet(p, [proc[p] EXCEPT !.at = "serving"])
    /\ UNCHANGED faults /\ Quiet

\* A signalled process ends; others may, and their ids go to other programs.
Die(p) ==
    /\ Alive(p) /\ PSet(p, Absent)
    /\ IF proc[p].dying THEN UNCHANGED faults ELSE faults < MaxFaults /\ faults' = faults + 1
    /\ Quiet

Reuse(p) ==
    /\ ~Alive(p) /\ PSet(p, Stranger)
    /\ faults < MaxFaults /\ faults' = faults + 1
    /\ Quiet

MachineInit ==
    /\ proc = [p \in Pids |-> Absent]
    /\ pidfile = [r \in Roots |-> Absent]
    /\ conf = [f \in Files |-> Missing]
    /\ \E plan \in Plans : cmd = [c \in Commands |-> Idle(plan[c])]
    /\ want = [f \in Files |-> Unset]
    /\ tangled = {} /\ lost = {} /\ frozen = {} /\ faults = 0

MachineNext ==
    \/ \E c \in Commands :
        \/ Run(c) \/ Look(c) \/ Check(c) \/ Kill(c) \/ Wait(c) \/ RemovePid(c) \/ Spawn(c)
        \/ TruncatePid(c) \/ WritePid(c) \/ ServeHere(c)
        \/ Load(c) \/ LoadFolder(c) \/ Truncate(c) \/ Write(c)
        \/ CheckFile(c) \/ CreateFile(c) \/ Interrupt(c)
    \/ \E p \in Pids :
        \/ Validate(p) \/ LoadGlobal(p) \/ PlanServeLayout(p) \/ Bind(p) \/ Die(p) \/ Reuse(p)

MachineSpec == MachineInit /\ [][MachineNext]_machineVars

-----------------------------------------------------------------------------
(* Properties *)

Starting(p) == \E c \in Commands : cmd[c].at \in {"truncate_pid", "write_pid"} /\ cmd[c].pid = p

\* "daemon stop" can stop every daemon: its root's pid file names it, once the
\* command that started it is over and it was not told to stop.  Not so when a
\* command changed the pid file under another's hands, or was interrupted before
\* it had written it.
DaemonsAreFound ==
    \A p \in Pids :
        IsServer(p) /\ proc[p].daemon /\ ~proc[p].dying /\ ~Starting(p) =>
            \/ pidfile[proc[p].args.root] = p
            \/ proc[p].args.root \in tangled

\* What read_only was set to for the folder, or else for all folders.
Wanted(r) == IF want[r] # Unset THEN want[r] = TRUE ELSE want[Global] = TRUE

\* A server is read-only exactly when it was told to be, its settings say so or
\* its directory takes no files, whatever commands wrote the settings before;
\* unless its settings changed while it ran, a setting was lost to another
\* command or an interruption, or its folder took over a global one.
ReadOnlyIsHonoured ==
    \A p \in Pids :
        PAt(p, "serving") /\ proc[p].clean =>
            LET root == proc[p].args.root
            IN \/ \E c \in Commands : At(c, "write") /\ cmd[c].ask.file \in {Global, root}
               \/ proc[p].read_only <=>
                      proc[p].args.read_only \/ root \notin Writable \/ Wanted(root)
               \/ lost \cap {Global, root} # {} \/ root \in frozen
=============================================================================
