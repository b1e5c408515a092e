------------------------------ MODULE MCServer ------------------------------
(***************************************************************************)
(* Small instances of the server side: the upload store (TusStore), the    *)
(* processes with their pid and settings files (Daemons), and access to a  *)
(* server (Access).  One of them runs in each behaviour, named by "part".  *)
(***************************************************************************)
EXTENDS MCTusStore, Daemons, Access

CONSTANTS ra, rb, sa, sb, p1, p2, p3

VARIABLE part

-----------------------------------------------------------------------------
(* Two directories, of which rb takes no new files; three commands *)

Share(r, bind, port) == [root |-> r, bind |-> bind, port |-> port]
Typed(name, shares) == [cmd |-> name, shares |-> shares]

StartOne  == Typed("start", <<Share(ra, "loopback", 1)>>)
StartBoth == Typed("start", <<Share(ra, "loopback", 1), Share(rb, "loopback", 1)>>)
StartLan  == Typed("start", <<Share(ra, "lan", 0)>>)
Stop      == Typed("stop", <<Share(ra, "loopback", 1)>>)
InitBoth  == [cmd |-> "init", shares |-> <<>>, root |-> ra]
Public(r) ==
    [cmd |-> "serve", shares |-> <<>>,
     args |-> [root |-> r, bind |-> "loopback", port |-> 0, token |-> FALSE,
               public |-> TRUE, read_only |-> FALSE]]
Set(file, key, value) ==
    [cmd |-> "set", shares |-> <<>>, file |-> file, key |-> key, value |-> value]
ReadOnlys == {Set(Global, "read_only", TRUE)} \cup {Set(ra, "read_only", v) : v \in BOOLEAN}
Later == {Set(f, "read_only", FALSE) : f \in {Global, ra}}
         \cup {Set(ra, "open_browser", FALSE), InitBoth, StartOne}

MCPlans ==
    {<<StartOne, StartOne, Stop>>, <<StartOne, Stop, StartLan>>, <<StartOne, Stop, Stop>>,
     <<Public(rb), Set(Global, "read_only", FALSE), StartBoth>>}
    \cup {<<Public(ra), s, t>> : s \in ReadOnlys, t \in Later}

MCRoots    == {ra, rb}
MCWritable == {ra}
MCCommands == 1..3

-----------------------------------------------------------------------------
(* Two servers of one host: sa expires and is started twice, sb is read-only *)

MCLifetime  == sa :> 2 @@ sb :> Nil
MCMaxStarts == sa :> 2 @@ sb :> 1

-----------------------------------------------------------------------------
\* The parts that do not run rest in an initial state.
MCInit ==
    /\ part \in {"one session", "two sessions", "machine", "door"}
    /\ Init /\ MachineInit /\ DoorInit
    /\ part # "machine" => cmd[1].ask = StartOne /\ cmd[2].ask = StartOne

\* Both handlers on one session, or each on its own with bodies of a byte.
Bounded ==
    IF part = "one session" THEN Cardinality(opened') <= 1
    ELSE \A h \in Handlers : req'[h] # None =>
             /\ Len(req'[h].body) <= 1
             /\ \A g \in Handlers \ {h} : req'[g] # None => req'[g].id # req'[h].id

StoreSteps ==
    /\ part \in {"one session", "two sessions"}
    /\ Next /\ Bounded
    /\ UNCHANGED <<part, machineVars, doorVars>>

MachineSteps == part = "machine" /\ MachineNext /\ UNCHANGED <<part, vars, doorVars>>
DoorSteps    == part = "door" /\ DoorNext /\ UNCHANGED <<part, vars, machineVars>>

MCNext == StoreSteps \/ MachineSteps \/ DoorSteps

MCSpec == MCInit /\ [][MCNext]_<<part, vars, machineVars, doorVars>>
=============================================================================
