--------------------------------- MODULE Rpc ---------------------------------
(***************************************************************************)
(* Request routing: the koi CLI (cli.cpp client, cli_command.hpp) sends    *)
(* one request to a node; nexus::handle there answers it, runs it, or      *)
(* redirects the CLI to another node, using the peer table of             *)
(* ClusterState and the endpoint map of network.cpp.  The cluster keeps    *)
(* ticking, crashing and restarting while the request travels.             *)
(*                                                                         *)
(* Two commands stand for the request kinds:                               *)
(*  - "elector": a command of _elector_rpc (demote, elect, promote x, ...) *)
(*    run by the node that runs the elector (rpc_elector);                 *)
(*  - "start": a command of both _redirecting_rpc and _runner_rpc (start,  *)
(*    stop), with an optional node argument.                               *)
(*                                                                         *)
(* Endpoints: a node's own table entry and whois() of its own id give      *)
(* 0.0.0.0:port, which the CLI sends to its own machine (home).  The      *)
(* entry's address is the last one update() stored for it (mru::get).     *)
(* A followed Leader's list may store the real one, but set_leader, which *)
(* follows every update_state, calls clear(NodeFlag_Leader) and so         *)
(* _update_state, which stores 0.0.0.0:port again: after every tick the   *)
(* own entry's address is 0.0.0.0:port.                                   *)
(***************************************************************************)
EXTENDS ClusterState

CONSTANTS
    Runners,      \* nodes configured with node.runner
    Homes,        \* the machines the CLI is run on
    Commands,     \* the commands it is run with
    Outside,      \* a CLI machine that runs no koi node
    NoNode,       \* no node (no argument, no answer yet)
    TimeoutMin,   \* rounds after which the CLI's 6 s may have passed (4)
    TimeoutMax    \* rounds after which they surely have (7)

ASSUME Runners \subseteq Nodes /\ Homes \subseteq Nodes \cup {Outside}
       /\ Commands \subseteq {"elector", "start"} /\ TimeoutMin \in Nat /\ TimeoutMax \in Nat
       /\ TimeoutMin <= TimeoutMax

Redirecting == {"start"}
Cmds == {"elector", "start"}
Outcomes == {"none", "elector", "runner", "notrunner", "noelector", "empty"}

VARIABLES
    known,      \* network::_endpoints: senders each node has received from
    cli         \* the CLI client and its request

rpcVars == <<known, cli>>

CliState ==
    [phase : {"idle", "wait", "done", "timeout"},
     home : Nodes \cup {Outside}, at : Nodes \cup {Outside},
     cmd : Cmds, args : Seq(Nodes), goal : Nodes \cup {NoNode},
     out : Outcomes, by : Nodes \cup {NoNode},
     age : 0..TimeoutMax, held : BOOLEAN]

RpcTypeOK ==
    /\ PeersTypeOK
    /\ known \in [Nodes -> SUBSET Nodes]
    /\ cli \in CliState
    /\ Len(cli.args) <= 1

(* Mutant: get_elector's loop without its test of the Elector flag. *)
FlaggedAny(x) == DOMAIN table[x]

(* The nodes whose table entry at x carries the Elector flag. *)
Flagged(x) == {y \in DOMAIN table[x] : table[x][y].el}

(* The nodes that receive a datagram from n in its tick: its heartbeat     *)
(* (nexus::send to every link) and a Servant's reply (network::sendto).   *)
Receivers(n, d) ==
    (IF Sends(n) THEN up \ ({n} \cup d) ELSE {})
    \cup (IF mode[n] = Servant THEN OtherLeaders(n) \cap up ELSE {})

(* One cluster::update, with what network::handle records of the senders. *)
RpcTick(n, d) ==
    /\ PeerTick(n, d)
    /\ known' = [m \in Nodes |->
                   IF m \in Receivers(n, d) THEN known[m] \cup {n} ELSE known[m]]
    /\ UNCHANGED cli

(* Mutant: execute_command without the timeout, as with --timeout 0. *)
RpcNewRoundNoTimeout ==
    /\ PeerNewRound
    /\ ~(cli.phase = "wait" /\ cli.at \in up /\ cli.held)
    /\ cli' = IF cli.phase = "wait"
              THEN [cli EXCEPT !.age = @ + 1, !.held = cli.at \in up]
              ELSE cli
    /\ UNCHANGED known

(* A request at a live node is drained by the next main-loop iteration    *)
(* (1/3 s), so it waits through at most one round boundary there.  The     *)
(* CLI gives up once 6 s have passed, at the latest after TimeoutMax       *)
(* rounds.                                                                 *)
RpcNewRound ==
    /\ PeerNewRound
    /\ ~(cli.phase = "wait" /\ cli.at \in up /\ cli.held)
    /\ ~(cli.phase = "wait" /\ cli.age = TimeoutMax)
    /\ cli' = IF cli.phase = "wait"
              THEN [cli EXCEPT !.age = @ + 1, !.held = cli.at \in up]
              ELSE cli
    /\ UNCHANGED known

(* A new process has an empty endpoint map. *)
RpcCrash(n) ==
    /\ PeerCrash(n)
    /\ known' = [known EXCEPT ![n] = {}]
    /\ UNCHANGED cli

RpcRestart(n) ==
    /\ PeerRestart(n)
    /\ UNCHANGED rpcVars

(* koi <cmd> [args] run on machine h against node s (--host, by default    *)
(* the local node).                                                         *)
CliSend(h, s, c, a) ==
    /\ cli.phase = "idle"
    /\ cli' = [cli EXCEPT !.phase = "wait", !.home = h, !.at = s, !.cmd = c,
                          !.args = IF a = NoNode THEN <<>> ELSE <<a>>,
                          !.goal = a, !.age = 0, !.held = FALSE]
    /\ UNCHANGED <<allVars, known>>

(* command::handle on a "redirect" response: the CLI sends the command     *)
(* with the response's args to the endpoint it names.                      *)
Redirect(to, args) == cli' = [cli EXCEPT !.at = to, !.args = args, !.held = FALSE]

(* Any other response ends the command with exit code 0. *)
Answer(out, x) == cli' = [cli EXCEPT !.phase = "done", !.out = out, !.by = x]

(* The endpoint redirect_to(t) gives at x: the address of t's entry, which *)
(* for x itself is 0.0.0.0:port, the CLI's own machine.                    *)
AddrOf(x, t) == IF t = x THEN cli.home ELSE t

(* network::whois at x, seen from the CLI: its own id gives 0.0.0.0:port, *)
(* the CLI's own machine; an id it has received from gives the address it *)
(* came from; any other id gives the empty endpoint.                       *)
Whois(x, y) ==
    IF y = x THEN cli.home ELSE IF y \in known[x] THEN y ELSE NoNode

(* cluster::get_elector at a node without an elector: whois of the first  *)
(* flagged entry of _nodes, or the empty endpoint.  x's own entry, when    *)
(* it has one, is the first (update() appends new ids); the order of the   *)
(* others is left open.                                                    *)
GetElector(x) ==
    IF Flagged(x) = {} THEN {NoNode}
    ELSE IF x \in Flagged(x) THEN {Whois(x, x)}
    ELSE {Whois(x, y) : y \in Flagged(x)}

(* rpc_elector at x: run by the local elector (which exists exactly while  *)
(* x is Leader), else a redirect to get_elector(), or "No elector found"   *)
(* when that is the empty endpoint.                                        *)
RpcElector(x) ==
    IF mode[x] = Leader THEN Answer("elector", x)
    ELSE \E e \in GetElector(x) :
            IF e = NoNode THEN Answer("noelector", x) ELSE Redirect(e, cli.args)

(* rpc_runner at x. *)
RpcRunner(x) ==
    IF x \in Runners THEN Answer("runner", x) ELSE Answer("notrunner", x)

(* nexus::handle of the request at x: a redirecting command with a node    *)
(* argument is redirected to that node if x's table knows it, and answered *)
(* with an empty response if not; other commands go to the handlers.       *)
Handle(x) ==
    /\ cli.phase = "wait"
    /\ cli.at = x
    /\ x \in up
    /\ IF cli.cmd \in Redirecting /\ cli.args # <<>>
       THEN IF cli.args[1] \in DOMAIN table[x]
            THEN Redirect(AddrOf(x, cli.args[1]), Tail(cli.args))
            ELSE Answer("empty", x)
       ELSE IF cli.cmd = "elector" THEN RpcElector(x) ELSE RpcRunner(x)
    /\ UNCHANGED <<allVars, known>>

(* execute_command: no answer within command_timeout (6 s). *)
CliTimeout ==
    /\ cli.phase = "wait"
    /\ cli.age >= TimeoutMin
    /\ cli' = [cli EXCEPT !.phase = "timeout"]
    /\ UNCHANGED <<allVars, known>>

RpcInit ==
    /\ PeersInit
    /\ known = [n \in Nodes |-> {}]
    /\ cli = [phase |-> "idle", home |-> Outside, at |-> Outside, cmd |-> "start",
              args |-> <<>>, goal |-> NoNode, out |-> "none", by |-> NoNode,
              age |-> 0, held |-> FALSE]

RpcNext ==
    \/ \E n \in Nodes :
          \/ \E d \in Drops(n, Sends(n)) : RpcTick(n, d)
          \/ RpcCrash(n)
          \/ RpcRestart(n)
          \/ Handle(n)
    \/ RpcNewRound
    \/ \E h \in Homes, s \in Nodes, c \in Commands, a \in Nodes \cup {NoNode} :
          /\ c = "elector" => a = NoNode
          /\ CliSend(h, s, c, a)
    \/ CliTimeout

rpcAll == <<allVars, rpcVars>>

RpcFairness ==
    /\ \A n \in Nodes : WF_ticked(TickedBy(n)) /\ WF_rpcAll(RpcRestart(n))
    /\ \A n \in Nodes : WF_rpcAll(Handle(n))
    /\ WF_rpcAll(RpcNewRound)
    /\ WF_rpcAll(CliTimeout)

RpcSpec == RpcInit /\ [][RpcNext]_rpcAll /\ RpcFairness

-----------------------------------------------------------------------------
(* Properties *)

(* spec.md section 4.9 (Redirect): a start or stop naming a node is        *)
(* redirected to that node, and the CLI retries against it.  When the      *)
(* runner's answer ends such a command, the named node's runner ran it.    *)
StartRunsAtTarget ==
    cli.phase = "done" /\ cli.cmd = "start" /\ cli.goal # NoNode /\ cli.out = "runner"
        => cli.by = cli.goal

(* An elector command the CLI sends from a koi node's machine, in a round *)
(* in which no node is down or can still crash, is eventually answered: by the elector, or with     *)
(* "No elector found", never by the CLI's own timeout.  The redirects of   *)
(* rpc_elector (get_elector over a table whose flags may be stale, whois   *)
(* over the endpoints heard so far) must reach the elector in time.        *)
ElectorRpcAnswered ==
    (/\ cli.phase = "wait" /\ cli.cmd = "elector" /\ cli.home \in Nodes
     /\ cli.age = 0 /\ up = Nodes /\ crashes = MaxCrashes)
        ~> (cli.phase = "done")
=============================================================================
