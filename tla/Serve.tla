------------------------------- MODULE Serve -------------------------------
(***************************************************************************)
(* The guest agent's life (barista-guest-agent serve.rs, bootstrap.rs) and  *)
(* the node's dial to it (hypeman/channel.rs).                              *)
(*                                                                         *)
(* The agent reads its bootstrap environment, binds its listeners, runs the *)
(* readiness probe once, starts the workload, and only then serves; it ends *)
(* when the workload does, or, with no workload, when it is signalled.  The *)
(* node resolves the sandbox's address once per connect and dials it until  *)
(* a deadline; a sibling sandbox serves its own channel on the same network *)
(* and may hold the address the node resolved, or hold a connection to this *)
(* guest open without ever speaking.                                        *)
(*                                                                         *)
(* Certificates and tokens are abstracted to whose they are: the instance's *)
(* own ("mine") or the sibling's.  Left out: the workload's idle socket,    *)
(* whose declarations module Deadlines reads, and the workload's own        *)
(* environment.                                                            *)
(***************************************************************************)
EXTENDS Integers, FiniteSets

CONSTANTS
    Tries,      \* dial attempts that fit before CONNECT_TIMEOUT when each is refused
    MaxMoves    \* how often the substrate gives the two guests each other's address

VARIABLES
    env,        \* what the sandbox was created with (never changes)
    pc,         \* where serve::run is
    tcp,        \* the network listener is bound
    work,       \* the workload process
    wcode,      \* what it ended with: an exit code, or "signal" as -2
    handler,    \* the SIGTERM handler is installed
    term,       \* a SIGTERM sent to the agent
    code,       \* exit_code, the atomic main exits with
    at,         \* the guest that holds address 1; the other one holds address 2
    moves,      \* how often they changed places
    dial,       \* the node's connect: [st, addr, left, peer]
    backlog,    \* connections to this guest that nobody accepted yet
    shake,      \* connections to this guest in their TLS handshake
    rpc         \* an RPC is open on the channel

serveVars == <<env, pc, tcp, work, wcode, handler, term, code, at, moves, dial, backlog, shake, rpc>>

agent == <<pc, tcp, work, wcode, handler, term, code>>
net   == <<at, moves, dial, backlog, shake, rpc>>

Envs == [tok: {"file", "env", "unreadable", "none"}, ids: {"all", "some", "unreadable", "none"},
         port: BOOLEAN, cmd: BOOLEAN, ready: {"none", "ends", "waits"}, host: BOOLEAN]

Phases == {"boot", "bind", "probe", "spawn", "serving", "draining", "exited", "refused"}

ServeTypeOK ==
    /\ env \in Envs
    /\ pc \in Phases
    /\ tcp \in BOOLEAN /\ handler \in BOOLEAN /\ rpc \in BOOLEAN
    /\ work \in {"none", "running", "signalled", "exited", "reaped"}
    /\ wcode \in {-2, 0, 7}
    /\ term \in {"none", "taken", "lost", "done"}
    /\ code \in {-1, 0, 7}
    /\ at \in {"mine", "sibling"}
    /\ moves \in 0..MaxMoves
    /\ dial \in [st: {"idle", "dialling", "shaking", "connected", "unreachable"},
                 addr: 0..2, left: 0..Tries, peer: {"none", "mine", "sibling"}]
    /\ backlog \subseteq {"node", "other"}
    /\ shake \subseteq {"node", "other"}

----------------------------------------------------------------------------
(* The bootstrap *)

\* A named token file that cannot be read is an error, never a fall through.
read_token == env.tok \in {"file", "env"}

read_identity_ok == env.ids \in {"all", "none"}

has_identity == env.ids = "all"

\* The network port is served only behind TLS.
network_port == env.port /\ has_identity

from_env ==
    /\ pc = "boot"
    /\ pc' = IF read_token /\ read_identity_ok THEN "bind" ELSE "refused"
    /\ UNCHANGED <<env, tcp, work, wcode, handler, term, code, net>>

bind_listeners ==
    /\ pc = "bind"
    /\ tcp' = network_port
    /\ pc' = "probe"
    /\ UNCHANGED <<env, work, wcode, handler, term, code, net>>

bind_fails ==
    /\ pc = "bind"
    /\ pc' = "refused"
    /\ UNCHANGED <<env, tcp, work, wcode, handler, term, code, net>>

\* The probe is awaited and unbounded: one that waits for the workload does
\* not return before the workload runs.
evaluate_ready ==
    /\ pc = "probe"
    /\ env.ready = "waits" => work = "running"
    /\ pc' = "spawn"
    /\ UNCHANGED <<env, tcp, work, wcode, handler, term, code, net>>

spawn_workload ==
    /\ pc = "spawn"
    /\ pc' = "serving"
    /\ work' = IF env.cmd THEN "running" ELSE "none"
    /\ UNCHANGED <<env, tcp, wcode, handler, term, code, net>>

spawn_fails ==
    /\ pc = "spawn" /\ env.cmd
    /\ pc' = "refused"
    /\ UNCHANGED <<env, tcp, work, wcode, handler, term, code, net>>

----------------------------------------------------------------------------
(* Signals, the workload's end and the agent's *)

\* Where the handler cannot be installed, the wait for a signal returns at once, and its
\* caller takes that for a signal.
terminate_signal ==
    /\ pc \in {"serving", "draining"} /\ ~handler /\ term \in {"none", "lost"}
    /\ \/ handler' = TRUE /\ UNCHANGED term
       \/ term' = "taken" /\ UNCHANGED handler
    /\ UNCHANGED <<env, pc, tcp, work, wcode, code, net>>

\* External: the runtime stops the sandbox.  The agent is process 1, to which
\* the kernel delivers no signal that has no handler.
sigterm ==
    /\ term = "none" /\ pc \notin {"exited", "refused"}
    /\ term' = IF handler THEN "taken" ELSE "lost"
    /\ UNCHANGED <<env, pc, tcp, work, wcode, handler, code, net>>

\* A signalled agent passes the signal on; with no workload it stops serving.
on_term == IF env.cmd THEN pc ELSE "draining"

forward_term ==
    /\ term = "taken" /\ pc \in {"serving", "draining"}
    /\ term' = "done"
    /\ work' = IF work = "running" THEN "signalled" ELSE work
    /\ pc' = on_term
    /\ UNCHANGED <<env, tcp, wcode, handler, code, net>>

\* External: the workload ends by itself, or of a signal.
workload_ends ==
    /\ pc = "serving" /\ work \in {"running", "signalled"}
    /\ work' = "exited"
    /\ wcode' \in {-2, 0, 7}
    /\ UNCHANGED <<env, pc, tcp, handler, term, code, net>>

stored == IF wcode = -2 THEN -1 ELSE wcode

\* The waiter stores the exit code; then it asks the server to shut down.
child_waited ==
    /\ work = "exited"
    /\ code' = stored
    /\ work' = "reaped"
    /\ UNCHANGED <<env, pc, tcp, wcode, handler, term, net>>

\* Mutation: the server is asked to shut down before the code is stored.
as_it_ends == work \in {"exited", "reaped"}

after_the_store == work = "reaped"

shutdown_sent ==
    /\ pc = "serving" /\ after_the_store
    /\ pc' = "draining"
    /\ UNCHANGED <<env, tcp, work, wcode, handler, term, code, net>>

\* The server's graceful shutdown waits for the RPCs in flight.
shutdown_over ==
    /\ pc = "draining" /\ ~rpc
    /\ pc' = "exited"
    /\ backlog' = {} /\ shake' = {}
    /\ UNCHANGED <<env, tcp, work, wcode, handler, term, code, at, moves, dial, rpc>>

----------------------------------------------------------------------------
(* The node's dial *)

Holder(a) == IF a = 1 THEN at ELSE CHOOSE g \in {"mine", "sibling"} : g # at

Address(g) == IF at = g THEN 1 ELSE 2

\* Who answers a TCP connect to an address: the sibling always listens.
Answers(a) == \/ Holder(a) = "sibling"
              \/ Holder(a) = "mine" /\ tcp /\ pc \notin {"exited", "refused"}

refuses_cleartext == ~env.host

connect ==
    /\ dial.st = "idle"
    /\ dial' = IF refuses_cleartext THEN [dial EXCEPT !.st = "unreachable"]
               ELSE [dial EXCEPT !.st = "dialling", !.addr = Address("mine"), !.left = Tries]
    /\ UNCHANGED <<env, agent, at, moves, backlog, shake, rpc>>

\* The substrate knows no address for the sandbox.
no_address ==
    /\ dial.st = "idle" /\ ~refuses_cleartext
    /\ dial' = [dial EXCEPT !.st = "unreachable"]
    /\ UNCHANGED <<env, agent, at, moves, backlog, shake, rpc>>

dial_tcp ==
    /\ dial.st = "dialling" /\ Answers(dial.addr)
    /\ dial' = [dial EXCEPT !.st = "shaking", !.peer = Holder(dial.addr)]
    /\ backlog' = IF Holder(dial.addr) = "mine" THEN backlog \cup {"node"} ELSE backlog
    /\ UNCHANGED <<env, agent, at, moves, shake, rpc>>

\* A failed attempt: again after CONNECT_RETRY, unless the deadline has passed.
Again == IF dial.left = 0 THEN [dial EXCEPT !.st = "unreachable", !.peer = "none"]
         ELSE [dial EXCEPT !.st = "dialling", !.left = @ - 1, !.peer = "none"]

dial_refused ==
    /\ dial.st = "dialling" /\ ~Answers(dial.addr)
    /\ dial' = Again
    /\ UNCHANGED <<env, agent, at, moves, backlog, shake, rpc>>

\* Every connection has its handshake in a task of its own.
may_shake == TRUE

accept(c) ==
    /\ pc \in {"serving", "draining"} /\ c \in backlog /\ may_shake
    /\ backlog' = backlog \ {c}
    /\ shake' = shake \cup {c}
    /\ UNCHANGED <<env, agent, at, moves, dial, rpc>>

\* Mutation: whoever answers at the address is the guest.
trusts_address(g) == TRUE

\* The node verifies the certificate against this instance's anchor and name.
verified(g) == g = "mine"

handshake ==
    /\ dial.st = "shaking" /\ dial.peer = "mine" /\ "node" \in shake
    /\ dial' = [dial EXCEPT !.st = "connected"]
    /\ shake' = shake \ {"node"}
    /\ UNCHANGED <<env, agent, at, moves, backlog, rpc>>

sibling_handshake ==
    /\ dial.st = "shaking" /\ dial.peer = "sibling"
    /\ dial' = IF verified(dial.peer) THEN [dial EXCEPT !.st = "connected"] ELSE Again
    /\ UNCHANGED <<env, agent, at, moves, backlog, shake, rpc>>

\* connect_timeout bounds one attempt; by then the deadline has passed too.
\* It only runs out on a guest that does not serve, or leaves the connection
\* waiting.
attempt_over == pc # "serving" \/ ~may_shake

\* The agent is gone, and the connection with it.
connection_reset ==
    /\ dial.st = "shaking" /\ dial.peer = "mine" /\ pc \in {"exited", "refused"}
    /\ dial' = Again
    /\ backlog' = backlog \ {"node"} /\ shake' = shake \ {"node"}
    /\ UNCHANGED <<env, agent, at, moves, rpc>>

connect_timeout ==
    /\ dial.st = "shaking" /\ dial.peer = "mine" /\ pc \notin {"exited", "refused"}
    /\ attempt_over
    /\ dial' = [dial EXCEPT !.st = "unreachable", !.peer = "none"]
    /\ backlog' = backlog \ {"node"} /\ shake' = shake \ {"node"}
    /\ UNCHANGED <<env, agent, at, moves, rpc>>

\* Each instance has its own token: the interceptor at the peer admits the RPC.
token_matches == dial.peer = "mine"

rpc_opens ==
    /\ dial.st = "connected" /\ pc = "serving" /\ ~rpc /\ token_matches
    /\ rpc' = TRUE
    /\ UNCHANGED <<env, agent, at, moves, dial, backlog, shake>>

rpc_ends ==
    /\ rpc /\ rpc' = FALSE
    /\ UNCHANGED <<env, agent, at, moves, dial, backlog, shake>>

\* External: a sibling opens a connection to this guest and sends nothing.
other_connects ==
    /\ tcp /\ pc \notin {"exited", "refused"} /\ "other" \notin backlog \cup shake
    /\ backlog' = backlog \cup {"other"}
    /\ UNCHANGED <<env, agent, at, moves, dial, shake, rpc>>

\* External: a restore gives the sandbox another address.
moved ==
    /\ moves < MaxMoves
    /\ moves' = moves + 1
    /\ at' = CHOOSE g \in {"mine", "sibling"} : g # at
    /\ UNCHANGED <<env, agent, dial, backlog, shake, rpc>>

----------------------------------------------------------------------------

\* The host's identity is minted with the guest's; a guest may still lack its
\* half, when a file of its volume is missing or unreadable.
ServeInit ==
    /\ env \in {e \in Envs : (e.ids # "none" => e.host) /\ (e.ready = "waits" => e.cmd)}
    /\ pc = "boot" /\ tcp = FALSE /\ work = "none" /\ wcode = 0
    /\ handler = FALSE /\ term = "none" /\ code = 0
    /\ at = "mine" /\ moves = 0
    /\ dial = [st |-> "idle", addr |-> 0, left |-> 0, peer |-> "none"]
    /\ backlog = {} /\ shake = {} /\ rpc = FALSE

Boot == from_env \/ bind_listeners \/ bind_fails \/ evaluate_ready \/ spawn_workload \/ spawn_fails

Dial == \/ connect \/ no_address \/ dial_tcp \/ dial_refused \/ handshake
        \/ sibling_handshake \/ connection_reset \/ connect_timeout

ServeNext ==
    \/ Boot \/ Dial
    \/ terminate_signal \/ sigterm \/ forward_term \/ workload_ends
    \/ child_waited \/ shutdown_sent \/ shutdown_over
    \/ \E c \in {"node", "other"} : accept(c)
    \/ rpc_opens \/ rpc_ends \/ other_connects \/ moved

ServeSpec == ServeInit /\ [][ServeNext]_serveVars

----------------------------------------------------------------------------
(* What must hold *)

\* A connection this guest takes from the network is taken behind TLS, and the
\* node's channel ends at this instance's guest whoever holds the address it
\* resolved (serve.rs network_port, channel.rs connect).
Pinned ==
    /\ backlog \cup shake # {} => has_identity
    /\ dial.st = "connected" => dial.peer = "mine" /\ env.host /\ has_identity

\* The agent is gone only when its workload is, and main exits with what the
\* workload ended with, a death by signal never passing for success
\* (serve.rs child waiter, main.rs).
ExitIsWorkloads ==
    pc = "exited" => /\ work \notin {"running", "signalled"}
                     /\ work # "none" => code = (IF wcode = -2 THEN -1 ELSE wcode)

\* A guest that serves is reached: a dial that got as far as its TCP connect can go on to
\* its end while the agent serves, even if another connection's handshake never finishes
\* (network_incoming).
ServedWhileServing ==
    dial.st = "shaking" /\ dial.peer = "mine" /\ pc = "serving"
        => ENABLED (accept("node") \/ handshake)

\* Every step the agent's and the node's tasks take by themselves: not the signal, the
\* workload's end, the RPCs, the sibling or a move.
ServeProgress ==
    \/ Boot \/ Dial \/ \E c \in {"node", "other"} : accept(c)
    \/ terminate_signal \/ forward_term \/ child_waited \/ shutdown_sent \/ shutdown_over

\* What is owed.  A connect never hangs, not on an agent that is bound and never accepts
\* (channel.rs CONNECT_TIMEOUT).  When the workload has ended, or the agent without one
\* was signalled, the agent ends, unless an RPC is still open on its channel (serve.rs
\* run).
ServeOwed ==
    \/ dial.st \in {"dialling", "shaking"}
    \/ (work \in {"exited", "reaped"} \/ (term = "taken" /\ ~env.cmd)) /\ pc # "exited" /\ ~rpc
=============================================================================
