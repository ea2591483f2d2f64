----------------------------- MODULE RspServer -----------------------------
(***************************************************************************)
(* The Remote Serial Protocol server (rsp-server.c) between the main loop, *)
(* which it stalls, and a GDB client at the other end of a TCP connection. *)
(* Everything on the server's side is one thread: while it waits for a     *)
(* packet or for an acknowledgement the simulated program stands still,    *)
(* and while the program runs it reads nothing.                            *)
(*                                                                         *)
(* A packet is one message here.  put_packet takes any other character     *)
(* than '+' for a request to send again, so a packet it reads there counts *)
(* as one such character.  The program is abstract: what each instruction  *)
(* stores and where it goes is a choice among those the constants allow.   *)
(***************************************************************************)
EXTENDS Integers, Sequences, FiniteSets

CONSTANTS
  PCs,            \* the addresses of the program's instructions
  ResetPC,        \* where rsp_restart leaves the PC
  ExitPC,         \* an instruction that calls sim_exit
  Goes,           \* per instruction, where an attempt at it can lead
  Stores,         \* per instruction, the words an attempt can store, in order
  WATCHPOINT_ADDR,\* the memory-mapped word of cyclesSinceReset
  Matchpoints,    \* the <<type, address>> pairs the client uses
  ResetAfter,     \* resetAfterCycles
  Ops,            \* the requests the client makes
  MaxFaults,      \* bound: what the client rejects, garbles and interrupts
  MaxConnections, \* bound: how often a client connects
  MaxUnread       \* bound: with more messages unread the client makes no request

BP_MEMORY == 0
WP_WRITE  == 2
TARGET_SIGNAL_NONE == 0
TARGET_SIGNAL_TRAP == 5

ASSUME RspAssumption ==
  /\ {ResetPC, ExitPC} \subseteq PCs
  /\ Goes \in [PCs -> (SUBSET PCs) \ {{}}]
  /\ \A pc \in PCs : Stores[pc] # {} /\ \A w \in Stores[pc] : WATCHPOINT_ADDR \notin {w[i] : i \in DOMAIN w}
  /\ Ops \subseteq {"?", "g", "c", "s", "D", "i", "vRun", "Z", "z"}
  /\ ResetAfter \in Nat
  /\ {MaxFaults, MaxConnections, MaxUnread} \subseteq Nat

VARIABLES
  at,     \* where the server's thread is, and the packet it is sending
  rsp,    \* struct RSP without the table: client_fd, stalled, stepping, ...
  mp,     \* the set the matchpoint table stands for
  prog,   \* the program: its PC, the stores left, cyclesSinceReset, exiting
  toSim, toGdb, \* the two directions of the connection
  gdb,    \* the client: its state and the request it has made
  hist    \* history, for the properties

vars == <<at, rsp, mp, prog, toSim, toGdb, gdb, hist>>

Packet == [body : {"OK", "regs", "sig"}, sig : {TARGET_SIGNAL_NONE, TARGET_SIGNAL_TRAP},
           for : Ops \cup {"stop"}]
NoPacket == [body |-> "OK", sig |-> TARGET_SIGNAL_NONE, for |-> "stop"]

\* A request, and whether its checksum is right.  Only Z and z name a matchpoint.
None == <<>>
Request == {r \in [op : Ops, mp : Matchpoints \cup {None}, good : BOOLEAN] :
              r.mp = None <=> r.op \notin {"Z", "z"}}

Stop == [body |-> "sig", sig |-> TARGET_SIGNAL_TRAP, for |-> "stop"]

TypeOK ==
  /\ at \in [phase : {"loop", "begin", "store", "check", "accept", "request",
                      "put", "ack", "exited"},
             out : Packet, then : {"loop", "store"}]
  /\ rsp \in [client_fd : BOOLEAN, stalled : BOOLEAN, stepping : BOOLEAN,
              client_waiting : BOOLEAN,
              sigval : {TARGET_SIGNAL_NONE, TARGET_SIGNAL_TRAP}]
  /\ mp \subseteq Matchpoints
  /\ prog.pc \in PCs /\ prog.next \in PCs /\ prog.cycles \in 0 .. ResetAfter
  /\ prog.exiting \in BOOLEAN
  /\ gdb \in [state : {"gone", "idle", "waiting"}, request : Request \cup {None},
              faults : 0 .. MaxFaults, interrupted : BOOLEAN,
              connections : 0 .. MaxConnections]

-----------------------------------------------------------------------------
(***************************************************************************)
(* The server.  put_packet returns to where it was called from: the loop,  *)
(* or the store that hit a watchpoint in the middle of an instruction.     *)
(***************************************************************************)
Goto(phase)    == at' = [phase |-> phase, out |-> NoPacket, then |-> "loop"]
Sending(phase) == at' = [at EXCEPT !.phase = phase]
Put(p, then)   == at' = [phase |-> "put", out |-> p, then |-> then]

\* The messages of the connection: packets, and the single characters.
Char(ch)       == [kind |-> ch]
Message(k, v)  == [kind |-> k, packet |-> v]

\* while (rsp.stalled) handle_rsp (); after sim_exit the loop ends in exit().
Loop ==
  /\ at.phase = "loop"
  /\ Goto(CASE rsp.stalled /\ rsp.client_fd  -> "request"
            [] rsp.stalled /\ ~rsp.client_fd -> "accept"
            [] ~rsp.stalled /\ prog.exiting  -> "exited"
            [] OTHER                         -> "begin")
  /\ UNCHANGED <<rsp, mp, prog, toSim, toGdb, gdb, hist>>

\* One attempt at an instruction, up to its stores.  sim_exit stalls first.
Begin ==
  /\ at.phase = "begin"
  /\ IF prog.pc = ExitPC
     THEN /\ prog' = [prog EXCEPT !.exiting = TRUE]
          /\ rsp' = [rsp EXCEPT !.stalled = TRUE]
          /\ Put(Stop, "loop")
     ELSE /\ \E w \in Stores[prog.pc], n \in Goes[prog.pc] :
               prog' = [prog EXCEPT !.stores = w, !.next = n]
          /\ UNCHANGED rsp
          /\ Goto("store")
  /\ hist' = [hist EXCEPT !.fresh = FALSE, !.hits = 0]
  /\ UNCHANGED <<mp, toSim, toGdb, gdb>>

Watched(addr) == addr # WATCHPOINT_ADDR /\ <<WP_WRITE, addr>> \in mp

\* rsp_check_watch, from simStoreData.
\* Mutants: the step is not cancelled, and the loop is not stalled.
WatchStallKeepsStep(r) == [r EXCEPT !.stalled = TRUE]
WatchStallNot(r) == [r EXCEPT !.stepping = FALSE]
WatchStall(r) == [r EXCEPT !.stalled = TRUE, !.stepping = FALSE]

Store ==
  /\ at.phase = "store"
  /\ prog.stores # <<>>
  /\ prog' = [prog EXCEPT !.stores = Tail(@)]
  /\ IF Watched(Head(prog.stores))
     THEN /\ rsp' = WatchStall(rsp)
          /\ Put(Stop, "store")
          /\ hist' = [hist EXCEPT !.hits = @ + 1, !.twice = @ \/ hist.hits > 0]
     ELSE UNCHANGED <<rsp, at, hist>>
  /\ UNCHANGED <<mp, toSim, toGdb, gdb>>

\* The end of the attempt: INCREMENT_CYCLES, the exception and the PC.
EndInsn ==
  /\ at.phase = "store"
  /\ prog.stores = <<>>
  /\ prog' = [prog EXCEPT !.pc = prog.next, !.next = ResetPC,
                          !.cycles = IF @ < ResetAfter THEN @ + 1 ELSE @]
  /\ Goto("check")
  /\ UNCHANGED <<rsp, mp, toSim, toGdb, gdb, hist>>

AtBreakpoint(pc) == <<BP_MEMORY, pc>> \in mp
CycleWatch == <<WP_WRITE, WATCHPOINT_ADDR>> \in mp /\ prog.cycles >= ResetAfter

rsp_check_stall ==
  /\ at.phase = "check"
  /\ LET step  == rsp.stepping
         stop  == step \/ AtBreakpoint(prog.pc) \/ CycleWatch
     IN /\ rsp' = IF stop THEN [rsp EXCEPT !.stalled = TRUE, !.stepping = FALSE] ELSE rsp
        /\ IF stop THEN Put(Stop, "loop") ELSE Goto("loop")
        /\ hist' = [hist EXCEPT !.twice = @ \/ hist.hits + (IF stop /\ ~step THEN 1 ELSE 0) > 1]
  /\ UNCHANGED <<mp, prog, toSim, toGdb, gdb>>

-----------------------------------------------------------------------------
(***************************************************************************)
(* put_packet.  Writing to a client that has gone either fails, which      *)
(* closes the connection, or vanishes.                                     *)
(***************************************************************************)
PutWrite ==
  /\ at.phase = "put"
  /\ \/ /\ rsp.client_fd /\ gdb.state # "gone"
        /\ toGdb' = Append(toGdb, Message("packet", at.out))
        /\ UNCHANGED rsp
        /\ Sending("ack")
     \/ /\ rsp.client_fd /\ gdb.state = "gone"
        /\ UNCHANGED <<rsp, toGdb>>
        /\ Sending("ack")
     \/ /\ rsp.client_fd => gdb.state = "gone"
        /\ rsp' = [rsp EXCEPT !.client_fd = FALSE]
        /\ UNCHANGED toGdb
        /\ Goto(at.then)
  /\ UNCHANGED <<mp, prog, toSim, gdb, hist>>

PutAck ==
  /\ at.phase = "ack"
  /\ toSim # <<>>
  /\ toSim' = Tail(toSim)
  /\ IF Head(toSim).kind = "+" THEN Goto(at.then) ELSE Sending("put")
  /\ UNCHANGED <<rsp, mp, prog, toGdb, gdb, hist>>

\* EOF, while an acknowledgement or a packet is awaited.
ReadEOF ==
  /\ at.phase \in {"ack", "request"}
  /\ gdb.state = "gone" /\ toSim = <<>>
  /\ rsp' = [rsp EXCEPT !.client_fd = FALSE]
  /\ Goto(IF at.phase = "ack" THEN at.then ELSE "loop")
  /\ UNCHANGED <<mp, prog, toSim, toGdb, gdb, hist>>

\* rsp_get_client blocks in accept.
rsp_get_client ==
  /\ at.phase = "accept"
  /\ gdb.state = "gone" /\ gdb.connections < MaxConnections
  /\ rsp' = [rsp EXCEPT !.client_fd = TRUE, !.client_waiting = FALSE]
  /\ toSim' = <<>>
  /\ toGdb' = <<>>
  /\ gdb' = [gdb EXCEPT !.state = "idle", !.connections = @ + 1]
  /\ Goto("request")
  /\ UNCHANGED <<mp, prog, hist>>

-----------------------------------------------------------------------------
(***************************************************************************)
(* get_packet and rsp_client_request.                                      *)
(***************************************************************************)
Send(m) == toGdb' = IF gdb.state = "gone" THEN toGdb ELSE Append(toGdb, m)

Ignored ==
  /\ at.phase = "request" /\ toSim # <<>>
  /\ Head(toSim).kind # "packet"
  /\ toSim' = Tail(toSim)
  /\ UNCHANGED <<at, rsp, mp, prog, toGdb, gdb, hist>>

BadChecksum ==
  /\ at.phase = "request" /\ toSim # <<>>
  /\ Head(toSim).kind = "packet" /\ ~Head(toSim).packet.good
  /\ toSim' = Tail(toSim)
  /\ Send(Char("-"))
  /\ UNCHANGED <<at, rsp, mp, prog, gdb, hist>>

\* The reply to a request, and whether there is one.
Reply(op) ==
  [body |-> CASE op \in {"?", "vRun"} -> "sig"
              [] op = "g"             -> "regs"
              [] OTHER                -> "OK",
   sig  |-> CASE op = "?"    -> rsp.sigval
              [] op = "vRun" -> TARGET_SIGNAL_TRAP
              [] OTHER       -> TARGET_SIGNAL_NONE,
   for  |-> op]
\* Mutant: D closes without an answer.
RepliesDropsD(op) == op \notin {"c", "s", "i", "D"}
Replies(op) == op \notin {"c", "s", "i"}

\* Resuming, by c and s or by vCont;c and vCont;s.
rsp_continue == [rsp EXCEPT !.stalled = FALSE, !.stepping = FALSE]
\* Mutant: the step resumes without saying that it is one.
rsp_stepNot == [rsp EXCEPT !.stalled = FALSE]
rsp_step == [rsp EXCEPT !.stalled = FALSE, !.stepping = TRUE]

\* D answers OK and keeps the connection and the stall; i stops nothing.
\* Mutant: a client that detaches leaves SIGINT behind.
Detached2 == [rsp EXCEPT !.sigval = 2]
Detached == [rsp EXCEPT !.sigval = TARGET_SIGNAL_NONE]

Applied(op) ==
  CASE op = "c" -> rsp_continue
    [] op = "s" -> rsp_step
    [] op = "D" -> Detached
    [] op = "i" -> [rsp EXCEPT !.client_waiting = TRUE]
    [] OTHER    -> rsp

rsp_insert_matchpoint(m) == mp \cup {m}
rsp_remove_matchpoint(m) == mp \ {m}
rsp_restart == [prog EXCEPT !.pc = ResetPC, !.cycles = 0]

rsp_client_request ==
  /\ at.phase = "request" /\ toSim # <<>>
  /\ Head(toSim).kind = "packet" /\ Head(toSim).packet.good
  /\ toSim' = Tail(toSim)
  /\ Send(Char("+"))
  /\ LET r == Head(toSim).packet
     IN /\ rsp' = Applied(r.op)
        /\ mp' = CASE r.op = "Z" -> rsp_insert_matchpoint(r.mp)
                   [] r.op = "z" -> rsp_remove_matchpoint(r.mp)
                   [] OTHER      -> mp
        /\ prog' = IF r.op = "vRun" THEN rsp_restart ELSE prog
        /\ IF Replies(r.op) THEN Put(Reply(r.op), "loop") ELSE Goto("loop")
        /\ hist' = IF r.op \in {"c", "s"} THEN [hist EXCEPT !.fresh = TRUE, !.hits = 0] ELSE hist
  /\ UNCHANGED gdb

Server ==
  \/ Loop \/ Begin \/ Store \/ EndInsn \/ rsp_check_stall
  \/ PutWrite \/ PutAck \/ ReadEOF
  \/ Ignored \/ BadChecksum \/ rsp_client_request

-----------------------------------------------------------------------------
(***************************************************************************)
(* The client: GDB, which is not part of this repository.  It has one      *)
(* request under way at a time, takes the next packet it reads for its     *)
(* reply, and acknowledges every packet.                                   *)
(***************************************************************************)
Client(s) == gdb.state = s /\ UNCHANGED <<at, rsp, mp, prog>>

ClientSend ==
  /\ Client("idle")
  /\ Len(toSim) + Len(toGdb) <= MaxUnread
  /\ \E r \in Request :
       /\ r.good \/ gdb.faults < MaxFaults
       /\ toSim' = Append(toSim, Message("packet", r))
       /\ gdb' = [gdb EXCEPT !.state = "waiting", !.request = [r EXCEPT !.good = TRUE],
                             !.faults = IF r.good THEN @ ELSE @ + 1]
  /\ UNCHANGED <<toGdb, hist>>

ClientAcked ==
  /\ Client("waiting")
  /\ toGdb # <<>> /\ Head(toGdb).kind = "+"
  /\ toGdb' = Tail(toGdb)
  /\ UNCHANGED <<toSim, gdb, hist>>

ClientResend ==
  /\ Client("waiting")
  /\ toGdb # <<>> /\ Head(toGdb).kind = "-"
  /\ toGdb' = Tail(toGdb)
  /\ toSim' = Append(toSim, Message("packet", gdb.request))
  /\ UNCHANGED <<gdb, hist>>

\* The packet the client takes for the reply to its request.
Answers(p, op) == p.for = IF op \in {"c", "s"} THEN "stop" ELSE op

ClientReceive ==
  /\ Client("waiting")
  /\ toGdb # <<>> /\ Head(toGdb).kind = "packet"
  /\ toGdb' = Tail(toGdb)
  /\ \/ LET p == Head(toGdb).packet
        IN /\ toSim' = Append(toSim, Char("+"))
           /\ gdb' = [gdb EXCEPT !.state = "idle", !.request = None]
           /\ hist' = [hist EXCEPT !.astray = @ \/ ~Answers(p, gdb.request.op)]
     \/ /\ gdb.faults < MaxFaults
        /\ toSim' = Append(toSim, Char("-"))
        /\ gdb' = [gdb EXCEPT !.faults = @ + 1]
        /\ UNCHANGED hist

\* Ctrl-C while the program runs, as far as the client knows.
ClientInterrupt ==
  /\ Client("waiting")
  /\ gdb.request.op \in {"c", "s"} /\ gdb.faults < MaxFaults
  /\ toSim' = Append(toSim, Char("int"))
  /\ gdb' = [gdb EXCEPT !.faults = @ + 1,
                        !.interrupted = TRUE]
  /\ UNCHANGED <<toGdb, hist>>

ClientLeave ==
  /\ gdb.state # "gone"
  /\ gdb' = [gdb EXCEPT !.state = "gone", !.request = None]
  /\ toGdb' = <<>>
  /\ UNCHANGED <<at, rsp, mp, prog, toSim, hist>>

\* The simulator has exited, which closed the connection.
ClientClosed ==
  /\ at.phase = "exited"
  /\ gdb.state = "waiting" /\ toGdb = <<>>
  /\ gdb' = [gdb EXCEPT !.state = "gone", !.request = None]
  /\ UNCHANGED <<at, rsp, mp, prog, toSim, toGdb, hist>>

Reads   == ClientAcked \/ ClientResend \/ ClientReceive \/ ClientClosed
Chooses == ClientSend \/ ClientInterrupt \/ ClientLeave

Init ==
  /\ at = [phase |-> "loop", out |-> NoPacket, then |-> "loop"]
  /\ rsp = [client_fd |-> FALSE, stalled |-> TRUE, stepping |-> FALSE,
            client_waiting |-> FALSE, sigval |-> TARGET_SIGNAL_TRAP]
  /\ mp = {}
  /\ \E pc \in PCs \ {ResetPC, ExitPC} :
       prog = [pc |-> pc, next |-> ResetPC, stores |-> <<>>, cycles |-> 0, exiting |-> FALSE]
  /\ toSim = <<>>
  /\ toGdb = <<>>
  /\ gdb = [state |-> "gone", request |-> None, faults |-> 0, interrupted |-> FALSE,
            connections |-> 0]
  /\ hist = [fresh |-> TRUE, hits |-> 0, twice |-> FALSE, astray |-> FALSE]

Next == Server \/ rsp_get_client \/ Reads \/ Chooses

Spec == Init /\ [][Next]_vars
\* The server's thread runs whenever it is not blocked, and a connected
\* client reads what it waits for.
FairSpec == Spec /\ WF_vars(Server) /\ WF_vars(Reads)

-----------------------------------------------------------------------------
(***************************************************************************)
(* Properties                                                              *)
(***************************************************************************)

\* The program never executes the instruction at a breakpoint, nor anything
\* after a store to a watched word, unless the client resumed it in between:
\* whatever order single steps, watchpoints and breakpoints are met in.
StopsBeforeNext ==
  [][Begin => hist.hits = 0 /\ (<<BP_MEMORY, prog.pc>> \in mp => hist.fresh)]_vars

\* The server never waits for a request, nor for an acknowledgement, while the
\* client waits for a reply and nothing is on its way between them.
NoMutualWait ==
  ~ /\ at.phase \in {"request", "ack"} /\ toSim = <<>>
    /\ gdb.state = "waiting" /\ toGdb = <<>>

\* Every reply the client takes is the reply to its request, as long as it
\* sends no interrupt and no instruction meets two matchpoints at once.
InStep == ~gdb.interrupted /\ ~hist.twice => ~hist.astray

\* A client that single-steps gets an answer, unless it leaves.
StepReturns ==
  gdb.state = "waiting" /\ gdb.request.op = "s" ~> gdb.state # "waiting"

=============================================================================
