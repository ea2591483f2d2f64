-------------------------- MODULE RspServerProofs --------------------------
(***************************************************************************)
(* For every program, every set of matchpoints and any number of faults    *)
(* and connections: the server keeps its types, and the program stops      *)
(* before it executes what the client asked it to stop at.                 *)
(***************************************************************************)
EXTENDS RspServer, SequenceTheorems, TLAPS

\* What the client can have sent.
FromGdb == [kind : {"+", "-", "int"}] \cup [kind : {"packet"}, packet : Request]

\* TypeOK with the parts it leaves open: what is on its way to the server, and
\* that a client that waits has made a request.
Typed ==
  /\ TypeOK
  /\ toSim \in Seq(FromGdb)
  /\ gdb.state = "waiting" => gdb.request \in Request
  /\ prog = [pc |-> prog.pc, next |-> prog.next, stores |-> prog.stores,
             cycles |-> prog.cycles, exiting |-> prog.exiting]
  /\ hist = [fresh |-> hist.fresh, hits |-> hist.hits, twice |-> hist.twice,
             astray |-> hist.astray]
  /\ hist.hits \in Nat

\* The stall is held from what causes it to the request that ends it: while
\* the server talks to the client the program is stalled, and a program that
\* is not stalled has hit no watchpoint and stands at no breakpoint, except in
\* the middle of an instruction and where the client has just resumed it.
Held ==
  /\ at.phase = "begin" => ~rsp.stalled
  /\ at.phase \in {"accept", "request", "put", "ack"} => rsp.stalled
  /\ hist.hits > 0 => rsp.stalled
  /\ \/ rsp.stalled
     \/ at.phase \in {"store", "check"}
     \/ hist.fresh
     \/ <<BP_MEMORY, prog.pc>> \notin mp

-----------------------------------------------------------------------------
(***************************************************************************)
(* The parts of the actions keep their types.                              *)
(***************************************************************************)
Phases == {"loop", "begin", "store", "check", "accept", "request", "put", "ack", "exited"}
Places == [phase : Phases, out : Packet, then : {"loop", "store"}]

LEMMA Moves ==
  ASSUME at \in Places
  PROVE  /\ \A phase \in Phases : Goto(phase) => at' \in Places /\ at'.phase = phase
         /\ \A phase \in Phases : Sending(phase) => at' \in Places /\ at'.phase = phase
         /\ \A p \in Packet, then \in {"loop", "store"} :
              Put(p, then) => at' \in Places /\ at'.phase = "put"
<1>1. NoPacket \in Packet
  BY DEF NoPacket, Packet
<1>2. \A phase \in Phases : Goto(phase) => at' \in Places /\ at'.phase = phase
  BY <1>1 DEF Goto, Places
<1>3. \A phase \in Phases : Sending(phase) => at' \in Places /\ at'.phase = phase
  BY DEF Sending, Places
<1>4. \A p \in Packet, then \in {"loop", "store"} :
        Put(p, then) => at' \in Places /\ at'.phase = "put"
  BY DEF Put, Places, Phases
<1> QED
  BY <1>2, <1>3, <1>4

LEMMA Messages ==
  /\ \A s \in Seq(FromGdb) : s # <<>> => Tail(s) \in Seq(FromGdb) /\ Head(s) \in FromGdb
  /\ \A s \in Seq(FromGdb), m \in FromGdb : Append(s, m) \in Seq(FromGdb)
  /\ \A ch \in {"+", "-", "int"} : Char(ch) \in FromGdb
  /\ \A r \in Request : Message("packet", r) \in FromGdb
  /\ \A m \in FromGdb : m.kind = "packet" => m.packet \in Request
<1>1. \A s \in Seq(FromGdb) : s # <<>> => Tail(s) \in Seq(FromGdb) /\ Head(s) \in FromGdb
  BY HeadTailProperties
<1>2. \A s \in Seq(FromGdb), m \in FromGdb : Append(s, m) \in Seq(FromGdb)
  BY AppendProperties
<1>3. \A ch \in {"+", "-", "int"} : Char(ch) \in FromGdb
  BY DEF Char, FromGdb
<1>4. \A r \in Request : Message("packet", r) \in FromGdb
  BY DEF Message, FromGdb
<1>5. \A m \in FromGdb : m.kind = "packet" => m.packet \in Request
  BY DEF FromGdb
<1> QED
  BY <1>1, <1>2, <1>3, <1>4, <1>5

LEMMA Requests ==
  ASSUME NEW r \in Request
  PROVE  /\ r.op \in Ops
         /\ r.op \in {"Z", "z"} => r.mp \in Matchpoints
         /\ [r EXCEPT !.good = TRUE] \in Request
<1>1. PICK q \in [op : Ops, mp : Matchpoints \cup {None}, good : BOOLEAN] :
        q = r /\ (r.mp = None <=> r.op \notin {"Z", "z"})
  BY DEF Request
<1>2. [r EXCEPT !.good = TRUE] \in [op : Ops, mp : Matchpoints \cup {None}, good : BOOLEAN]
  BY <1>1
<1>3. [r EXCEPT !.good = TRUE].mp = r.mp /\ [r EXCEPT !.good = TRUE].op = r.op
  BY <1>1
<1> QED
  BY <1>1, <1>2, <1>3 DEF Request

RspRecords == [client_fd : BOOLEAN, stalled : BOOLEAN, stepping : BOOLEAN,
               client_waiting : BOOLEAN,
               sigval : {TARGET_SIGNAL_NONE, TARGET_SIGNAL_TRAP}]

LEMMA Answered ==
  ASSUME rsp \in RspRecords, NEW op \in Ops
  PROVE  /\ Reply(op) \in Packet
         /\ Applied(op) \in RspRecords
         /\ op \notin {"c", "s"} => Applied(op).stalled = rsp.stalled
<1>1. op \in {"?", "g", "c", "s", "D", "i", "vRun", "Z", "z"}
  BY RspAssumption
<1>2. Reply(op) \in Packet
  BY <1>1 DEF Reply, Packet, RspRecords
<1>3. /\ Applied(op) \in RspRecords
      /\ op \notin {"c", "s"} => Applied(op).stalled = rsp.stalled
  BY <1>1 DEF Applied, rsp_continue, rsp_step, Detached, RspRecords
<1> QED
  BY <1>2, <1>3

GdbRecords == [state : {"gone", "idle", "waiting"}, request : Request \cup {None},
               faults : 0 .. MaxFaults, interrupted : BOOLEAN,
               connections : 0 .. MaxConnections]

\* Typed, one component at a time.
LEMMA TypedParts ==
  Typed <=>
    /\ at \in Places /\ rsp \in RspRecords /\ mp \subseteq Matchpoints
    /\ prog.pc \in PCs /\ prog.next \in PCs /\ prog.cycles \in 0 .. ResetAfter
    /\ prog.exiting \in BOOLEAN
    /\ prog = [pc |-> prog.pc, next |-> prog.next, stores |-> prog.stores,
               cycles |-> prog.cycles, exiting |-> prog.exiting]
    /\ gdb \in GdbRecords
    /\ toSim \in Seq(FromGdb)
    /\ gdb.state = "waiting" => gdb.request \in Request
    /\ hist = [fresh |-> hist.fresh, hits |-> hist.hits, twice |-> hist.twice,
               astray |-> hist.astray]
    /\ hist.hits \in Nat
  BY DEF Typed, TypeOK, Places, Phases, RspRecords, GdbRecords

-----------------------------------------------------------------------------
(***************************************************************************)
(* One step.                                                               *)
(***************************************************************************)
LEMMA InitTyped == Init => Typed
<1>1. Init => at \in Places
  BY DEF Init, Places, Phases, NoPacket, Packet
<1>2. Init => rsp \in RspRecords
  BY DEF Init, RspRecords
<1>3. Init => gdb \in GdbRecords /\ gdb.state # "waiting"
  BY RspAssumption DEF Init, GdbRecords
<1>4. Init => /\ toSim \in Seq(FromGdb)
              /\ mp \subseteq Matchpoints
  BY DEF Init
<1>5. Init => /\ hist = [fresh |-> hist.fresh, hits |-> hist.hits, twice |-> hist.twice,
                         astray |-> hist.astray]
              /\ hist.hits \in Nat
  BY DEF Init
<1>6. Init => /\ prog.pc \in PCs /\ prog.next \in PCs
              /\ prog.cycles \in 0 .. ResetAfter /\ prog.exiting \in BOOLEAN
              /\ prog = [pc |-> prog.pc, next |-> prog.next, stores |-> prog.stores,
                         cycles |-> prog.cycles, exiting |-> prog.exiting]
  BY RspAssumption DEF Init
<1> QED
  BY <1>1, <1>2, <1>3, <1>4, <1>5, <1>6, TypedParts

\* The step of the thread that serves the program.
ServerParts ==
  /\ at' \in Places /\ rsp' \in RspRecords /\ mp' \subseteq Matchpoints
  /\ prog'.pc \in PCs /\ prog'.next \in PCs /\ prog'.cycles \in 0 .. ResetAfter
  /\ prog'.exiting \in BOOLEAN
  /\ prog' = [pc |-> prog'.pc, next |-> prog'.next, stores |-> prog'.stores,
              cycles |-> prog'.cycles, exiting |-> prog'.exiting]
  /\ hist' = [fresh |-> hist'.fresh, hits |-> hist'.hits, twice |-> hist'.twice,
              astray |-> hist'.astray]
  /\ hist'.hits \in Nat

ClientParts ==
  /\ gdb' \in GdbRecords
  /\ toSim' \in Seq(FromGdb)
  /\ gdb'.state = "waiting" => gdb'.request \in Request

LEMMA TypedNext == ServerParts /\ ClientParts => Typed'
  BY DEF ServerParts, ClientParts, Typed, TypeOK, Places, Phases, RspRecords, GdbRecords

\* Instructions, and what the loop does between two of them.
LEMMA ProgramStep ==
  ASSUME Typed, Loop \/ Begin \/ Store \/ EndInsn \/ rsp_check_stall
  PROVE  Typed'
<1> USE TypedParts
<1>1. ClientParts
  BY DEF Loop, Begin, Store, EndInsn, rsp_check_stall, ClientParts
<1>2. Stop \in Packet
  BY DEF Stop, Packet
<1>3. CASE Loop
  <2>1. \E phase \in Phases : Goto(phase)
    BY <1>3 DEF Loop, Phases
  <2> QED
    BY <1>1, <1>3, <2>1, Moves, TypedNext DEF Loop, ServerParts
<1>4. CASE Begin
  <2>1. at' \in Places
    BY <1>2, <1>4, Moves DEF Begin, Phases
  <2>2. rsp' \in RspRecords
    BY <1>4 DEF Begin, RspRecords
  <2>3. CASE prog.pc = ExitPC
    BY <1>1, <1>4, <2>1, <2>2, <2>3, TypedNext DEF Begin, ServerParts
  <2>4. CASE prog.pc # ExitPC
    <3>1. PICK w \in Stores[prog.pc], n \in Goes[prog.pc] :
            prog' = [prog EXCEPT !.stores = w, !.next = n]
      BY <1>4, <2>4 DEF Begin
    <3>2. n \in PCs
      BY <3>1, RspAssumption
    <3> QED
      BY <1>1, <1>4, <2>1, <2>2, <3>1, <3>2, TypedNext DEF Begin, ServerParts
  <2> QED
    BY <2>3, <2>4
<1>5. CASE Store
  <2>1. at' \in Places
    BY <1>2, <1>5, Moves DEF Store
  <2>2. rsp' \in RspRecords
    BY <1>5 DEF Store, WatchStall, RspRecords
  <2>3. prog' = [pc |-> prog.pc, next |-> prog.next, stores |-> Tail(prog.stores),
                 cycles |-> prog.cycles, exiting |-> prog.exiting]
    BY <1>5 DEF Store
  <2>4. hist' = hist \/ hist' = [hist EXCEPT !.hits = @ + 1, !.twice = @ \/ hist.hits > 0]
    BY <1>5 DEF Store
  <2>5. mp' = mp
    BY <1>5 DEF Store
  <2>6. /\ hist' = [fresh |-> hist'.fresh, hits |-> hist'.hits, twice |-> hist'.twice,
                    astray |-> hist'.astray]
        /\ hist'.hits \in Nat
    <3>1. CASE hist' = hist
      BY <3>1
    <3>2. CASE hist' = [hist EXCEPT !.hits = @ + 1, !.twice = @ \/ hist.hits > 0]
      <4>1. hist' = [fresh |-> hist.fresh, hits |-> hist.hits + 1,
                     twice |-> hist.twice \/ hist.hits > 0, astray |-> hist.astray]
        BY <3>2
      <4> QED
        BY <4>1
    <3> QED
      BY <2>4, <3>1, <3>2
  <2> QED
    BY <1>1, <2>1, <2>2, <2>3, <2>5, <2>6, TypedNext DEF ServerParts
<1>6. CASE EndInsn
  <2>1. at' \in Places
    BY <1>6, Moves DEF EndInsn, Phases
  <2>2. prog'.cycles \in 0 .. ResetAfter /\ prog'.next \in PCs
    BY <1>6, RspAssumption DEF EndInsn
  <2> QED
    BY <1>1, <1>6, <2>1, <2>2, TypedNext DEF EndInsn, ServerParts
<1>7. CASE rsp_check_stall
  <2>1. at' \in Places
    BY <1>2, <1>7, Moves DEF rsp_check_stall, Phases
  <2>2. rsp' \in RspRecords
    BY <1>7 DEF rsp_check_stall, RspRecords
  <2> QED
    BY <1>1, <1>7, <2>1, <2>2, TypedNext DEF rsp_check_stall, ServerParts
<1> QED
  BY <1>3, <1>4, <1>5, <1>6, <1>7

\* Packets and connections.
LEMMA PacketStep ==
  ASSUME Typed, PutWrite \/ PutAck \/ ReadEOF \/ Ignored \/ BadChecksum \/ rsp_get_client
  PROVE  Typed'
<1> USE TypedParts
<1>1. rsp' \in RspRecords
  BY DEF PutWrite, PutAck, ReadEOF, Ignored, BadChecksum, rsp_get_client, RspRecords
<1>2. at.then \in Phases
  BY DEF Places, Phases
<1>3. CASE PutWrite
  BY <1>1, <1>2, <1>3, Moves, TypedNext DEF PutWrite, ServerParts, ClientParts, Phases
<1>4. CASE PutAck
  <2>1. at' \in Places
    BY <1>2, <1>4, Moves DEF PutAck, Phases
  <2>2. toSim' \in Seq(FromGdb)
    BY <1>4, Messages DEF PutAck
  <2> QED
    BY <1>1, <1>4, <2>1, <2>2, TypedNext DEF PutAck, ServerParts, ClientParts
<1>5. CASE ReadEOF
  <2>1. at' \in Places
    BY <1>2, <1>5, Moves DEF ReadEOF, Phases
  <2> QED
    BY <1>1, <1>5, <2>1, TypedNext DEF ReadEOF, ServerParts, ClientParts
<1>6. CASE Ignored
  BY <1>1, <1>6, Messages, TypedNext DEF Ignored, ServerParts, ClientParts
<1>7. CASE BadChecksum
  BY <1>1, <1>7, Messages, TypedNext DEF BadChecksum, ServerParts, ClientParts
<1>8. CASE rsp_get_client
  <2>1. at' \in Places
    BY <1>8, Moves DEF rsp_get_client, Phases
  <2>2. gdb' \in GdbRecords /\ gdb'.state # "waiting"
    <3>1. gdb.connections + 1 \in 0 .. MaxConnections
      BY <1>8, RspAssumption DEF rsp_get_client, GdbRecords
    <3> QED
      BY <1>8, <3>1 DEF rsp_get_client, GdbRecords
  <2>3. toSim' \in Seq(FromGdb)
    BY <1>8 DEF rsp_get_client
  <2> QED
    BY <1>1, <1>8, <2>1, <2>2, <2>3, TypedNext DEF rsp_get_client, ServerParts, ClientParts
<1> QED
  BY <1>3, <1>4, <1>5, <1>6, <1>7, <1>8

LEMMA RequestStep ==
  ASSUME Typed, rsp_client_request
  PROVE  Typed'
<1> USE TypedParts
<1> DEFINE r == Head(toSim).packet
<1>1. r \in Request
  BY Messages DEF rsp_client_request
<1>2. r.op \in Ops /\ (r.op \in {"Z", "z"} => r.mp \in Matchpoints)
  BY <1>1, Requests
<1>3. Reply(r.op) \in Packet /\ Applied(r.op) \in RspRecords
  BY <1>2, Answered
<1> HIDE DEF r
<1>4. at' \in Places
  BY <1>3, Moves DEF rsp_client_request, Phases, r
<1>5. rsp' \in RspRecords
  BY <1>3 DEF rsp_client_request, r
<1>6. mp' \subseteq Matchpoints
  BY <1>2 DEF rsp_client_request, rsp_insert_matchpoint, rsp_remove_matchpoint, r
<1>7. ClientParts
  BY Messages DEF rsp_client_request, ClientParts
<1>8. /\ prog'.pc \in PCs /\ prog'.next \in PCs /\ prog'.cycles \in 0 .. ResetAfter
      /\ prog'.exiting \in BOOLEAN
      /\ prog' = [pc |-> prog'.pc, next |-> prog'.next, stores |-> prog'.stores,
                  cycles |-> prog'.cycles, exiting |-> prog'.exiting]
  <2>1. CASE prog' = prog
    BY <2>1
  <2>2. CASE prog' = [prog EXCEPT !.pc = ResetPC, !.cycles = 0]
    <3>1. prog' = [pc |-> ResetPC, next |-> prog.next, stores |-> prog.stores,
                   cycles |-> 0, exiting |-> prog.exiting]
      BY <2>2
    <3> QED
      BY <3>1, RspAssumption
  <2> QED
    BY <2>1, <2>2 DEF rsp_client_request, rsp_restart
<1>9. /\ hist' = [fresh |-> hist'.fresh, hits |-> hist'.hits, twice |-> hist'.twice,
                  astray |-> hist'.astray]
      /\ hist'.hits \in Nat
  BY DEF rsp_client_request
<1> QED
  BY <1>4, <1>5, <1>6, <1>7, <1>8, <1>9, TypedNext DEF ServerParts

LEMMA ClientStep ==
  ASSUME Typed, Reads \/ Chooses
  PROVE  Typed'
<1> USE TypedParts
<1>1. ServerParts
  BY DEF Reads, Chooses, ClientAcked, ClientResend, ClientReceive, ClientClosed, ClientSend,
         ClientInterrupt, ClientLeave, Client, ServerParts
<1>2. CASE ClientSend
  <2>1. PICK r \in Request :
          /\ r.good \/ gdb.faults < MaxFaults
          /\ toSim' = Append(toSim, Message("packet", r))
          /\ gdb' = [gdb EXCEPT !.state = "waiting", !.request = [r EXCEPT !.good = TRUE],
                                !.faults = IF r.good THEN @ ELSE @ + 1]
    BY <1>2 DEF ClientSend
  <2>2. [r EXCEPT !.good = TRUE] \in Request
    BY Requests
  <2>3. (IF r.good THEN gdb.faults ELSE gdb.faults + 1) \in 0 .. MaxFaults
    BY <2>1, RspAssumption DEF GdbRecords
  <2>4. gdb' \in GdbRecords /\ gdb'.request \in Request
    BY <2>1, <2>2, <2>3 DEF GdbRecords
  <2>5. toSim' \in Seq(FromGdb)
    BY <2>1, Messages
  <2> QED
    BY <1>1, <2>4, <2>5, TypedNext DEF ClientParts
<1>3. CASE ClientAcked
  BY <1>1, <1>3, TypedNext DEF ClientAcked, ClientParts
<1>4. CASE ClientResend
  BY <1>1, <1>4, Messages, TypedNext DEF ClientResend, Client, ClientParts
<1>5. CASE ClientReceive
  <2>1. toSim' \in Seq(FromGdb)
    BY <1>5, Messages, ZenonT(60) DEF ClientReceive
  <2>2. gdb' \in GdbRecords
    <3>1. gdb.faults < MaxFaults => gdb.faults + 1 \in 0 .. MaxFaults
      BY RspAssumption DEF GdbRecords
    <3> QED
      BY <1>5, <3>1 DEF ClientReceive, GdbRecords
  <2>3. gdb'.state = "waiting" => gdb'.request \in Request
    BY <1>5 DEF ClientReceive, Client, GdbRecords
  <2> QED
    BY <1>1, <2>1, <2>2, <2>3, TypedNext DEF ClientParts
<1>6. CASE ClientInterrupt
  <2>1. toSim' \in Seq(FromGdb)
    BY <1>6, Messages DEF ClientInterrupt
  <2>2. gdb' \in GdbRecords /\ gdb'.state = gdb.state /\ gdb'.request = gdb.request
    <3>1. gdb.faults < MaxFaults => gdb.faults + 1 \in 0 .. MaxFaults
      BY RspAssumption DEF GdbRecords
    <3> QED
      BY <1>6, <3>1 DEF ClientInterrupt, GdbRecords
  <2> QED
    BY <1>1, <2>1, <2>2, TypedNext DEF ClientParts
<1>7. CASE ClientLeave \/ ClientClosed
  <2>1. gdb' \in GdbRecords /\ gdb'.state # "waiting"
    BY <1>7 DEF ClientLeave, ClientClosed, GdbRecords
  <2>2. toSim' = toSim
    BY <1>7 DEF ClientLeave, ClientClosed
  <2> QED
    BY <1>1, <2>1, <2>2, TypedNext DEF ClientParts
<1> QED
  BY <1>2, <1>3, <1>4, <1>5, <1>6, <1>7 DEF Reads, Chooses

LEMMA TypedStep == Typed /\ [Next]_vars => Typed'
<1> SUFFICES ASSUME Typed, [Next]_vars PROVE Typed'
  OBVIOUS
<1>1. CASE UNCHANGED vars
  BY <1>1 DEF vars, Typed, TypeOK
<1>2. CASE Next
  BY <1>2, ProgramStep, PacketStep, RequestStep, ClientStep DEF Next, Server
<1> QED
  BY <1>1, <1>2

-----------------------------------------------------------------------------
(***************************************************************************)
(* The stall is held.                                                      *)
(***************************************************************************)
LEMMA InitHeld == Init => Held
  BY DEF Init, Held

LEMMA ProgramHeld ==
  ASSUME Typed, Held, Loop \/ Begin \/ Store \/ EndInsn \/ rsp_check_stall
  PROVE  Held'
<1> USE TypedParts
<1>1. Stop \in Packet
  BY DEF Stop, Packet
<1>2. CASE Loop
  <2>1. UNCHANGED <<rsp, mp, prog, hist>>
    BY <1>2 DEF Loop
  <2>2. /\ rsp.stalled => at'.phase \in {"request", "accept"}
        /\ ~rsp.stalled => at'.phase \in {"exited", "begin"}
    BY <1>2, Moves DEF Loop, Phases, RspRecords
  <2>3. at.phase \notin {"store", "check"}
    BY <1>2 DEF Loop
  <2> QED
    BY <2>1, <2>2, <2>3 DEF Held
<1>3. CASE Begin
  <2>1. hist'.hits = 0
    BY <1>3 DEF Begin
  <2>2. CASE prog.pc = ExitPC
    <3>1. rsp'.stalled /\ at'.phase = "put"
      BY <1>1, <1>3, <2>2, Moves DEF Begin, RspRecords
    <3> QED
      BY <2>1, <3>1 DEF Held
  <2>3. CASE prog.pc # ExitPC
    <3>1. at'.phase = "store"
      BY <1>3, <2>3, Moves DEF Begin, Phases
    <3> QED
      BY <2>1, <3>1 DEF Held
  <2> QED
    BY <2>2, <2>3
<1>4. CASE Store
  <2>1. CASE Watched(Head(prog.stores))
    <3>1. rsp'.stalled /\ at'.phase = "put"
      BY <1>1, <1>4, <2>1, Moves DEF Store, WatchStall, RspRecords
    <3> QED
      BY <3>1 DEF Held
  <2>2. CASE ~Watched(Head(prog.stores))
    BY <1>4, <2>2 DEF Store, Held
  <2> QED
    BY <2>1, <2>2
<1>5. CASE EndInsn
  <2>1. at'.phase = "check" /\ rsp' = rsp /\ hist' = hist
    BY <1>5, Moves DEF EndInsn, Phases
  <2> QED
    BY <2>1 DEF Held
<1>6. CASE rsp_check_stall
  <2> DEFINE stop == rsp.stepping \/ AtBreakpoint(prog.pc) \/ CycleWatch
  <2>1. hist'.hits = hist.hits /\ hist'.fresh = hist.fresh /\ mp' = mp /\ prog' = prog
    BY <1>6 DEF rsp_check_stall
  <2>2. CASE stop
    <3>1. rsp'.stalled /\ at'.phase = "put"
      BY <1>1, <1>6, <2>2, Moves DEF rsp_check_stall, RspRecords
    <3> QED
      BY <3>1 DEF Held
  <2>3. CASE ~stop
    <3>1. rsp' = rsp /\ at'.phase = "loop" /\ <<BP_MEMORY, prog.pc>> \notin mp
      BY <1>6, <2>3, Moves DEF rsp_check_stall, AtBreakpoint, Phases
    <3> QED
      BY <2>1, <3>1 DEF Held
  <2> QED
    BY <2>2, <2>3
<1> QED
  BY <1>2, <1>3, <1>4, <1>5, <1>6

LEMMA PacketHeld ==
  ASSUME Typed, Held, PutWrite \/ PutAck \/ ReadEOF \/ Ignored \/ BadChecksum \/ rsp_get_client
  PROVE  Held'
<1> USE TypedParts
<1>1. rsp.stalled
  BY DEF Held, PutWrite, PutAck, ReadEOF, Ignored, BadChecksum, rsp_get_client
<1>2. rsp'.stalled = rsp.stalled
  BY DEF PutWrite, PutAck, ReadEOF, Ignored, BadChecksum, rsp_get_client, RspRecords
<1>3. at'.phase # "begin"
  <2>1. at.then \in Phases /\ at.then # "begin"
    BY DEF Places, Phases
  <2>2. CASE PutWrite \/ PutAck
    BY <2>1, <2>2, Moves DEF PutWrite, PutAck, Phases
  <2>3. CASE ReadEOF
    BY <2>1, <2>3, Moves DEF ReadEOF, Phases
  <2>4. CASE rsp_get_client
    BY <2>4, Moves DEF rsp_get_client, Phases
  <2>5. CASE Ignored \/ BadChecksum
    BY <2>5 DEF Ignored, BadChecksum
  <2> QED
    BY <2>2, <2>3, <2>4, <2>5
<1> QED
  BY <1>1, <1>2, <1>3 DEF Held

LEMMA RequestHeld ==
  ASSUME Typed, Held, rsp_client_request
  PROVE  Held'
<1> USE TypedParts
<1> DEFINE op == Head(toSim).packet.op
<1>1. op \in Ops
  BY Messages, Requests DEF rsp_client_request
<1>2. Reply(op) \in Packet /\ (op \notin {"c", "s"} => Applied(op).stalled = rsp.stalled)
  BY <1>1, Answered
<1>3. rsp' = Applied(op) /\ rsp.stalled
  BY DEF rsp_client_request, Held
<1> HIDE DEF op
<1>4. CASE op \in {"c", "s"}
  <2>1. at'.phase = "loop"
    BY <1>4, Moves DEF rsp_client_request, Replies, Phases, op
  <2>2. hist'.fresh /\ hist'.hits = 0
    BY <1>4 DEF rsp_client_request, op
  <2> QED
    BY <2>1, <2>2 DEF Held
<1>5. CASE op \notin {"c", "s"}
  <2>1. at'.phase \in {"loop", "put"}
    BY <1>2, Moves DEF rsp_client_request, Phases, op
  <2> QED
    BY <1>2, <1>3, <1>5, <2>1 DEF Held
<1> QED
  BY <1>4, <1>5

LEMMA ClientHeld ==
  ASSUME Typed, Held, Reads \/ Chooses
  PROVE  Held'
<1> USE TypedParts
<1>1. UNCHANGED <<at, rsp, mp, prog>>
  BY DEF Reads, Chooses, ClientAcked, ClientResend, ClientReceive, ClientClosed, ClientSend,
         ClientInterrupt, ClientLeave, Client
<1>2. hist'.hits = hist.hits /\ hist'.fresh = hist.fresh
  BY DEF Reads, Chooses, ClientAcked, ClientResend, ClientReceive, ClientClosed, ClientSend,
         ClientInterrupt, ClientLeave
<1> QED
  BY <1>1, <1>2 DEF Held

LEMMA HeldStep == Typed /\ Held /\ [Next]_vars => Held'
<1> SUFFICES ASSUME Typed, Held, [Next]_vars PROVE Held'
  OBVIOUS
<1>1. CASE UNCHANGED vars
  BY <1>1 DEF vars, Held
<1>2. CASE Next
  BY <1>2, ProgramHeld, PacketHeld, RequestHeld, ClientHeld DEF Next, Server
<1> QED
  BY <1>1, <1>2

-----------------------------------------------------------------------------
(***************************************************************************)
(* Neither side waits for the other.                                       *)
(***************************************************************************)
Has(s, kind) == \E i \in DOMAIN s : s[i].kind = kind

\* There is a request the client has not seen a reply to since it sent it.
Pending(s) ==
  \E i \in DOMAIN s : /\ s[i].kind = "packet"
                      /\ \A j \in DOMAIN s : j > i => s[j].kind # "+"

FromSim == [kind : {"+", "-"}] \cup [kind : {"packet"}, packet : Packet]

\* What a client that waits can count on.  Its request is still on its way; or
\* the server is sending, runs the program, or has asked for the request again,
\* and there is no acknowledgement left that could end the sending early.
Promised ==
  gdb.state = "waiting" =>
    \/ Pending(toSim)
    \/ /\ ~Has(toSim, "+")
       /\ at.phase \in {"put", "ack"} \/ ~rsp.stalled \/ Has(toGdb, "-")

Exchange ==
  /\ toGdb \in Seq(FromSim)
  /\ gdb.state # "gone" => rsp.client_fd
  /\ at.phase = "ack" /\ gdb.state # "gone" => toSim # <<>> \/ Has(toGdb, "packet")
  /\ Promised

LEMMA TailHas ==
  ASSUME NEW S, NEW s \in Seq(S), s # <<>>
  PROVE  /\ \A kind : Has(s, kind) /\ Head(s).kind # kind => Has(Tail(s), kind)
         /\ \A kind : Has(Tail(s), kind) => Has(s, kind)
         /\ Pending(s) => \/ Pending(Tail(s))
                          \/ Head(s).kind = "packet" /\ ~Has(Tail(s), "+")
<1>1. /\ Len(s) \in Nat \ {0} /\ DOMAIN s = 1 .. Len(s) /\ Head(s) = s[1]
      /\ DOMAIN Tail(s) = 1 .. Len(s) - 1
      /\ \A i \in 1 .. Len(s) - 1 : Tail(s)[i] = s[i + 1]
  <2>1. Tail(s) \in Seq(S) /\ Len(Tail(s)) = Len(s) - 1
    BY HeadTailProperties
  <2> QED
    BY <2>1, HeadTailProperties, LenProperties
<1>2. \A i \in DOMAIN s : i # 1 => i - 1 \in DOMAIN Tail(s) /\ Tail(s)[i - 1] = s[i]
  BY <1>1
<1>3. \A i \in DOMAIN Tail(s) : i + 1 \in DOMAIN s /\ Tail(s)[i] = s[i + 1]
  BY <1>1
<1>4. ASSUME NEW kind, Has(s, kind), Head(s).kind # kind
      PROVE  Has(Tail(s), kind)
  BY <1>1, <1>2, <1>4 DEF Has
<1>5. ASSUME NEW kind, Has(Tail(s), kind)
      PROVE  Has(s, kind)
  BY <1>3, <1>5 DEF Has
<1>6. ASSUME Pending(s)
      PROVE  Pending(Tail(s)) \/ (Head(s).kind = "packet" /\ ~Has(Tail(s), "+"))
  <2>1. PICK i \in DOMAIN s : /\ s[i].kind = "packet"
                              /\ \A j \in DOMAIN s : j > i => s[j].kind # "+"
    BY <1>6 DEF Pending
  <2>2. CASE i = 1
    <3>1. \A j \in DOMAIN Tail(s) : j + 1 > 1
      BY <1>1
    <3> QED
      BY <1>1, <1>3, <2>1, <2>2, <3>1 DEF Has
  <2>3. CASE i # 1
    <3>1. i - 1 \in DOMAIN Tail(s) /\ Tail(s)[i - 1].kind = "packet"
      BY <1>2, <2>1, <2>3
    <3>2. \A j \in DOMAIN Tail(s) : j > i - 1 => j + 1 > i
      BY <1>1
    <3>3. \A j \in DOMAIN Tail(s) : j > i - 1 => Tail(s)[j].kind # "+"
      BY <1>3, <2>1, <3>2
    <3> QED
      BY <3>1, <3>3 DEF Pending
  <2> QED
    BY <2>2, <2>3
<1> QED
  BY <1>4, <1>5, <1>6

LEMMA AppendHas ==
  ASSUME NEW S, NEW s \in Seq(S), NEW m \in S
  PROVE  /\ Append(s, m) # <<>>
         /\ \A kind : Has(Append(s, m), kind) <=> Has(s, kind) \/ m.kind = kind
         /\ m.kind = "packet" => Pending(Append(s, m))
         /\ Pending(s) /\ m.kind # "+" => Pending(Append(s, m))
<1>1. /\ Len(s) \in Nat /\ DOMAIN s = 1 .. Len(s)
      /\ DOMAIN Append(s, m) = 1 .. Len(s) + 1
      /\ Append(s, m)[Len(s) + 1] = m
      /\ \A i \in 1 .. Len(s) : Append(s, m)[i] = s[i]
      /\ Append(s, m) # <<>>
  <2>1. Append(s, m) \in Seq(S) /\ Len(Append(s, m)) = Len(s) + 1
    BY AppendProperties
  <2> QED
    BY <2>1, AppendProperties, LenProperties
<1>2. /\ Len(s) + 1 \in DOMAIN Append(s, m)
      /\ \A i \in DOMAIN s : i \in DOMAIN Append(s, m) /\ Append(s, m)[i] = s[i]
      /\ \A i \in DOMAIN Append(s, m) : i \in DOMAIN s \/ i = Len(s) + 1
      /\ \A i \in DOMAIN Append(s, m) : ~(i > Len(s) + 1)
  BY <1>1
<1>3. \A kind : Has(Append(s, m), kind) <=> Has(s, kind) \/ m.kind = kind
  BY <1>1, <1>2 DEF Has
<1>4. m.kind = "packet" => Pending(Append(s, m))
  BY <1>1, <1>2 DEF Pending
<1>5. ASSUME Pending(s), m.kind # "+" PROVE Pending(Append(s, m))
  <2>1. PICK i \in DOMAIN s : /\ s[i].kind = "packet"
                              /\ \A j \in DOMAIN s : j > i => s[j].kind # "+"
    BY <1>5 DEF Pending
  <2>2. \A j \in DOMAIN Append(s, m) : j > i => Append(s, m)[j].kind # "+"
    BY <1>1, <1>2, <1>5, <2>1
  <2> QED
    BY <1>2, <2>1, <2>2 DEF Pending
<1> QED
  BY <1>1, <1>3, <1>4, <1>5

LEMMA QuietPending ==
  ASSUME NEW s, Has(s, "packet"), ~Has(s, "+")
  PROVE  Pending(s)
  BY DEF Has, Pending

LEMMA Replying ==
  /\ \A q \in Seq(FromSim) : q # <<>> => Tail(q) \in Seq(FromSim) /\ Head(q) \in FromSim
  /\ \A q \in Seq(FromSim), m \in FromSim : Append(q, m) \in Seq(FromSim)
  /\ \A ch \in {"+", "-"} : Char(ch) \in FromSim /\ Char(ch).kind = ch
  /\ \A p \in Packet : Message("packet", p) \in FromSim /\ Message("packet", p).kind = "packet"
<1>1. \A q \in Seq(FromSim) : q # <<>> => Tail(q) \in Seq(FromSim) /\ Head(q) \in FromSim
  BY HeadTailProperties
<1>2. \A q \in Seq(FromSim), m \in FromSim : Append(q, m) \in Seq(FromSim)
  BY AppendProperties
<1>3. \A ch \in {"+", "-"} : Char(ch) \in FromSim /\ Char(ch).kind = ch
  BY DEF Char, FromSim
<1>4. \A p \in Packet : Message("packet", p) \in FromSim /\ Message("packet", p).kind = "packet"
  BY DEF Message, FromSim
<1> QED
  BY <1>1, <1>2, <1>3, <1>4

\* What is sent to a client that is there.
LEMMA Sent ==
  ASSUME Exchange, NEW m \in FromSim, Send(m)
  PROVE  /\ toGdb' \in Seq(FromSim)
         /\ gdb.state # "gone" => Has(toGdb', m.kind)
         /\ Has(toGdb, "-") => Has(toGdb', "-")
         /\ Has(toGdb, "packet") => Has(toGdb', "packet")
  BY AppendHas, Replying DEF Exchange, Send

LEMMA InitExchange == Init => Exchange
  BY DEF Init, Exchange, Promised

LEMMA ProgramExchange ==
  ASSUME Typed, Exchange, Loop \/ Begin \/ Store \/ EndInsn \/ rsp_check_stall
  PROVE  Exchange'
<1> USE TypedParts
<1>1. /\ UNCHANGED <<toSim, toGdb, gdb>>
      /\ rsp'.client_fd = rsp.client_fd
      /\ at.phase \notin {"put", "ack"}
  BY DEF Loop, Begin, Store, EndInsn, rsp_check_stall, WatchStall, RspRecords
<1>2. Stop \in Packet
  BY DEF Stop, Packet
<1>3. at'.phase # "ack" /\ (at'.phase = "put" \/ rsp'.stalled = rsp.stalled)
  <2>1. CASE Loop
    BY <2>1, Moves DEF Loop, Phases
  <2>2. CASE Begin
    BY <1>2, <2>2, Moves DEF Begin, Phases
  <2>3. CASE Store
    BY <1>2, <2>3, Moves DEF Store
  <2>4. CASE EndInsn
    BY <2>4, Moves DEF EndInsn, Phases
  <2>5. CASE rsp_check_stall
    BY <1>2, <2>5, Moves DEF rsp_check_stall, Phases
  <2> QED
    BY <2>1, <2>2, <2>3, <2>4, <2>5
<1>4. Promised'
  BY <1>1, <1>3 DEF Exchange, Promised
<1> QED
  BY <1>1, <1>3, <1>4 DEF Exchange

\* put_packet: the acknowledgement it leaves with was not the last hope of a
\* client that waits, and any other message makes it send again.
LEMMA PutExchange ==
  ASSUME Typed, Exchange, PutWrite \/ PutAck
  PROVE  Exchange'
<1> USE TypedParts
<1>1. at.then \in Phases /\ at.then \notin {"put", "ack"}
  BY DEF Places, Phases
<1>2. CASE PutWrite
  <2>1. UNCHANGED <<toSim, gdb>>
    BY <1>2 DEF PutWrite
  <2>2. CASE /\ rsp.client_fd /\ gdb.state # "gone"
             /\ toGdb' = Append(toGdb, Message("packet", at.out))
             /\ UNCHANGED rsp
             /\ Sending("ack")
    <3>1. at.out \in Packet
      BY DEF Places
    <3>2. toGdb' \in Seq(FromSim) /\ Has(toGdb', "packet")
      BY <2>2, <3>1, AppendHas, Replying DEF Exchange
    <3>3. at'.phase = "ack"
      BY <2>2, Moves DEF Phases
    <3>4. Promised'
      BY <1>2, <2>1, <3>3 DEF Exchange, Promised, PutWrite
    <3> QED
      BY <2>1, <2>2, <3>2, <3>3, <3>4 DEF Exchange
  <2>3. CASE gdb.state = "gone" /\ toGdb' = toGdb
    BY <2>1, <2>3 DEF Exchange, Promised
  <2> QED
    BY <1>2, <2>2, <2>3 DEF PutWrite, Exchange
<1>3. CASE PutAck
  <2>1. UNCHANGED <<rsp, toGdb, gdb>> /\ toSim # <<>> /\ toSim' = Tail(toSim)
    BY <1>3 DEF PutAck
  <2>2. at'.phase # "ack"
    BY <1>1, <1>3, Moves DEF PutAck, Phases
  <2>3. CASE Head(toSim).kind = "+"
    <3>1. Has(toSim, "+")
      <4>1. 1 \in DOMAIN toSim /\ toSim[1] = Head(toSim)
        BY <2>1, HeadTailProperties, LenProperties
      <4> QED
        BY <2>3, <4>1 DEF Has
    <3>2. Pending(toSim) => Pending(toSim')
      BY <2>1, <2>3, TailHas
    <3>3. Promised'
      BY <2>1, <3>1, <3>2 DEF Exchange, Promised
    <3> QED
      BY <2>1, <2>2, <3>3 DEF Exchange
  <2>4. CASE Head(toSim).kind # "+"
    <3>1. at'.phase = "put"
      BY <1>3, <2>4, Moves DEF PutAck, Phases
    <3>2. Pending(toSim) => Pending(toSim') \/ ~Has(toSim', "+")
      BY <2>1, TailHas
    <3>3. ~Has(toSim, "+") => ~Has(toSim', "+")
      BY <2>1, TailHas
    <3>4. Promised'
      BY <2>1, <3>1, <3>2, <3>3 DEF Exchange, Promised
    <3> QED
      BY <2>1, <2>2, <3>4 DEF Exchange
  <2> QED
    BY <2>3, <2>4
<1> QED
  BY <1>2, <1>3

LEMMA ReadExchange ==
  ASSUME Typed, Held, Exchange, ReadEOF \/ Ignored \/ BadChecksum \/ rsp_get_client
  PROVE  Exchange'
<1> USE TypedParts
<1>1. CASE ReadEOF
  <2>1. gdb.state = "gone" /\ gdb' = gdb /\ toGdb' = toGdb
    BY <1>1 DEF ReadEOF
  <2> QED
    BY <2>1 DEF Exchange, Promised
<1>2. CASE rsp_get_client
  <2>1. gdb'.state = "idle" /\ rsp'.client_fd /\ toGdb' = <<>>
    BY <1>2 DEF rsp_get_client, RspRecords, GdbRecords
  <2>2. at'.phase = "request"
    BY <1>2, Moves DEF rsp_get_client, Phases
  <2> QED
    BY <2>1, <2>2 DEF Exchange, Promised
<1>3. CASE Ignored
  <2>1. /\ UNCHANGED <<at, rsp, toGdb, gdb>> /\ at.phase = "request"
        /\ toSim # <<>> /\ toSim' = Tail(toSim) /\ Head(toSim).kind # "packet"
    BY <1>3 DEF Ignored
  <2>2. /\ Pending(toSim) => Pending(toSim')
        /\ ~Has(toSim, "+") => ~Has(toSim', "+")
    BY <2>1, TailHas
  <2>3. Promised'
    BY <2>1, <2>2 DEF Exchange, Promised
  <2> QED
    BY <2>1, <2>3 DEF Exchange
<1>4. CASE BadChecksum
  <2>1. /\ UNCHANGED <<at, rsp, gdb>> /\ at.phase = "request"
        /\ toSim # <<>> /\ toSim' = Tail(toSim)
        /\ Send(Char("-"))
    BY <1>4 DEF BadChecksum
  <2>2. toGdb' \in Seq(FromSim) /\ (gdb.state # "gone" => Has(toGdb', "-"))
    BY <2>1, Sent, Replying
  <2>3. /\ Pending(toSim) => Pending(toSim') \/ ~Has(toSim', "+")
        /\ ~Has(toSim, "+") => ~Has(toSim', "+")
    BY <2>1, TailHas
  <2>4. Promised'
    BY <2>1, <2>2, <2>3 DEF Exchange, Promised
  <2> QED
    BY <2>1, <2>2, <2>4 DEF Exchange
<1> QED
  BY <1>1, <1>2, <1>3, <1>4

\* Every request but i is answered, or resumes the program.
LEMMA RequestExchange ==
  ASSUME Typed, Exchange, "i" \notin Ops, rsp_client_request
  PROVE  Exchange'
<1> USE TypedParts
<1> DEFINE op == Head(toSim).packet.op
<1>1. op \in Ops /\ op # "i"
  BY Messages, Requests DEF rsp_client_request
<1>2. /\ UNCHANGED gdb /\ toSim # <<>> /\ toSim' = Tail(toSim)
      /\ Send(Char("+")) /\ rsp' = Applied(op)
  BY DEF rsp_client_request
<1>3. toGdb' \in Seq(FromSim)
  BY <1>2, Sent, Replying
<1>4. at'.phase = "put" \/ (at'.phase = "loop" /\ ~rsp'.stalled)
  <2>1. CASE op \in {"c", "s"}
    <3>1. at'.phase = "loop"
      BY <2>1, Moves DEF rsp_client_request, Replies, Phases
    <3>2. ~Applied(op).stalled
      BY <2>1 DEF Applied, rsp_continue, rsp_step, RspRecords
    <3> QED
      BY <1>2, <3>1, <3>2
  <2>2. CASE op \notin {"c", "s"}
    <3>1. Reply(op) \in Packet
      BY <1>1, Answered
    <3>2. Replies(op)
      BY <1>1, <2>2 DEF Replies
    <3>3. Put(Reply(op), "loop")
      BY <3>2 DEF rsp_client_request
    <3> QED
      BY <3>1, <3>3, Moves
  <2> QED
    BY <2>1, <2>2
<1>5. /\ Pending(toSim) => Pending(toSim') \/ ~Has(toSim', "+")
      /\ ~Has(toSim, "+") => ~Has(toSim', "+")
  BY <1>2, TailHas
<1>6. rsp'.client_fd = rsp.client_fd
  BY <1>1, <1>2, RspAssumption DEF Applied, rsp_continue, rsp_step, Detached, RspRecords
<1> HIDE DEF op
<1>7. Promised'
  BY <1>2, <1>4, <1>5 DEF Exchange, Promised
<1> QED
  BY <1>2, <1>3, <1>4, <1>6, <1>7 DEF Exchange

LEMMA ClientExchange ==
  ASSUME Typed, Exchange, Reads \/ Chooses
  PROVE  Exchange'
<1> USE TypedParts
<1>1. UNCHANGED <<at, rsp>>
  BY DEF Reads, Chooses, ClientAcked, ClientResend, ClientReceive, ClientClosed, ClientSend,
         ClientInterrupt, ClientLeave, Client
<1>2. CASE ClientSend
  <2>1. PICK r \in Request : toSim' = Append(toSim, Message("packet", r))
    BY <1>2 DEF ClientSend
  <2>2. Message("packet", r) \in FromGdb /\ Message("packet", r).kind = "packet"
    BY Messages DEF Message
  <2>3. toSim' # <<>> /\ Pending(toSim')
    BY <2>1, <2>2, AppendHas
  <2>4. gdb.state # "gone" /\ toGdb' = toGdb
    BY <1>2 DEF ClientSend, Client
  <2> QED
    BY <1>1, <2>3, <2>4 DEF Exchange, Promised
<1>3. CASE ClientAcked
  <2>1. /\ gdb' = gdb /\ toSim' = toSim
        /\ toGdb # <<>> /\ toGdb' = Tail(toGdb) /\ Head(toGdb).kind = "+"
    BY <1>3 DEF ClientAcked
  <2>2. /\ toGdb' \in Seq(FromSim)
        /\ Has(toGdb, "-") => Has(toGdb', "-")
        /\ Has(toGdb, "packet") => Has(toGdb', "packet")
    BY <2>1, TailHas, Replying DEF Exchange
  <2> QED
    BY <1>1, <2>1, <2>2 DEF Exchange, Promised
<1>4. CASE ClientResend
  <2>1. /\ gdb' = gdb /\ gdb.state = "waiting" /\ toGdb # <<>> /\ toGdb' = Tail(toGdb)
        /\ toSim' = Append(toSim, Message("packet", gdb.request))
    BY <1>4 DEF ClientResend, Client
  <2>2. Message("packet", gdb.request) \in FromGdb
        /\ Message("packet", gdb.request).kind = "packet"
    BY <2>1, Messages DEF Message
  <2>3. toSim' # <<>> /\ Pending(toSim')
    BY <2>1, <2>2, AppendHas
  <2>4. toGdb' \in Seq(FromSim)
    BY <2>1, Replying DEF Exchange
  <2> QED
    BY <1>1, <2>1, <2>3, <2>4 DEF Exchange, Promised
<1>5. CASE ClientReceive
  <2>1. /\ gdb.state = "waiting" /\ toGdb # <<>> /\ toGdb' = Tail(toGdb)
        /\ Head(toGdb).kind = "packet"
    BY <1>5 DEF ClientReceive, Client
  <2>2. toGdb' \in Seq(FromSim) /\ (Has(toGdb, "-") => Has(toGdb', "-"))
    BY <2>1, TailHas, Replying DEF Exchange
  <2>3. PICK ch \in {"+", "-"} : /\ toSim' = Append(toSim, Char(ch))
                                 /\ ch = "+" => gdb'.state = "idle"
                                 /\ ch = "-" => gdb'.state = gdb.state
    BY <1>5 DEF ClientReceive, GdbRecords
  <2>4. Char(ch) \in FromGdb /\ Char(ch).kind = ch
    BY <2>3, Messages DEF Char
  <2>5. /\ toSim' # <<>>
        /\ ch = "-" => /\ Pending(toSim) => Pending(toSim')
                       /\ ~Has(toSim, "+") => ~Has(toSim', "+")
    BY <2>3, <2>4, AppendHas
  <2> QED
    BY <1>1, <2>1, <2>2, <2>3, <2>5 DEF Exchange, Promised
<1>6. CASE ClientInterrupt
  <2>1. toSim' = Append(toSim, Char("int")) /\ gdb'.state = gdb.state /\ toGdb' = toGdb
    BY <1>6 DEF ClientInterrupt, GdbRecords
  <2>2. Char("int") \in FromGdb /\ Char("int").kind = "int"
    BY Messages DEF Char
  <2>3. /\ toSim' # <<>>
        /\ Pending(toSim) => Pending(toSim')
        /\ ~Has(toSim, "+") => ~Has(toSim', "+")
    BY <2>1, <2>2, AppendHas
  <2> QED
    BY <1>1, <2>1, <2>3 DEF Exchange, Promised
<1>7. CASE ClientLeave \/ ClientClosed
  <2>1. gdb'.state = "gone" /\ (toGdb' = <<>> \/ toGdb' = toGdb)
    BY <1>7 DEF ClientLeave, ClientClosed, GdbRecords
  <2>2. <<>> \in Seq(FromSim) /\ toGdb \in Seq(FromSim)
    BY DEF Exchange
  <2>3. toGdb' \in Seq(FromSim)
    BY <2>1, <2>2
  <2> QED
    BY <2>1, <2>3 DEF Exchange, Promised
<1> QED
  BY <1>2, <1>3, <1>4, <1>5, <1>6, <1>7 DEF Reads, Chooses

LEMMA ExchangeStep ==
  "i" \notin Ops => (Typed /\ Held /\ Exchange /\ [Next]_vars => Exchange')
<1> SUFFICES ASSUME "i" \notin Ops, Typed, Held, Exchange, [Next]_vars PROVE Exchange'
  OBVIOUS
<1>1. CASE UNCHANGED vars
  BY <1>1 DEF vars, Exchange, Promised
<1>2. CASE Next
  BY <1>2, ProgramExchange, PutExchange, ReadExchange, RequestExchange, ClientExchange
  DEF Next, Server
<1> QED
  BY <1>1, <1>2

-----------------------------------------------------------------------------
(***************************************************************************)
(* The theorems.                                                           *)
(***************************************************************************)

\* rsp, the matchpoints, the packet being sent and the client's request keep
\* their types, whatever is rejected, garbled or interrupted: put_packet sends
\* what a handler built, and returns to the loop or into an instruction.
THEOREM ServerTyped == Spec => []TypeOK
<1>1. Init => Typed
  BY InitTyped
<1>2. Typed /\ [Next]_vars => Typed'
  BY TypedStep
<1>3. Typed => TypeOK
  BY DEF Typed
<1> QED
  BY <1>1, <1>2, <1>3, PTL DEF Spec

\* No instruction at a breakpoint is executed, and none after a store to a
\* watched word, unless the client resumed the program in between (the stall of
\* rsp_check_watch and rsp_check_stall lasts until rsp_continue or rsp_step),
\* for every program and every set of matchpoints, and however often packets
\* are rejected and connections lost.
THEOREM Stops == Spec => StopsBeforeNext
<1>1. Init => Typed /\ Held
  BY InitTyped, InitHeld
<1>2. Typed /\ Held /\ [Next]_vars => (Typed /\ Held)'
  BY TypedStep, HeldStep
<1>3. Typed /\ Held /\ [Next]_vars =>
        [Begin => hist.hits = 0 /\ (<<BP_MEMORY, prog.pc>> \in mp => hist.fresh)]_vars
  <2>1. ASSUME Typed, Held, at.phase = "begin"
        PROVE  hist.hits = 0 /\ (<<BP_MEMORY, prog.pc>> \in mp => hist.fresh)
    BY <2>1 DEF Held, Typed
  <2> QED
    BY <2>1 DEF Begin
<1> QED
  BY <1>1, <1>2, <1>3, PTL DEF Spec, StopsBeforeNext

\* Server and client never both wait for the other to speak, in
\* rsp_client_request or in put_packet, as long as the client leaves out i, the
\* one request that is neither answered nor resumes the program: for every
\* program, and however often packets are rejected or garbled, the client
\* interrupts, leaves or connects again.
THEOREM NeverBothWait ==
  ASSUME "i" \notin Ops
  PROVE  Spec => []NoMutualWait
<1>1. Init => Typed /\ Held /\ Exchange
  BY InitTyped, InitHeld, InitExchange
<1>2. Typed /\ Held /\ Exchange /\ [Next]_vars => (Typed /\ Held /\ Exchange)'
  BY TypedStep, HeldStep, ExchangeStep
<1>3. Typed /\ Held /\ Exchange => NoMutualWait
  <2>1. ~Pending(<<>>) /\ ~Has(<<>>, "-") /\ ~Has(<<>>, "packet")
    BY DEF Pending, Has
  <2> QED
    BY <2>1 DEF Held, Exchange, Promised, NoMutualWait
<1> QED
  BY <1>1, <1>2, <1>3, PTL DEF Spec

-----------------------------------------------------------------------------
(***************************************************************************)
(* For every program, every set of matchpoints and every request: as long  *)
(* as the client does not interrupt and no instruction meets two           *)
(* matchpoints, what the client takes for the reply to its request is that *)
(* reply, through rejected and garbled packets and lost connections.       *)
(***************************************************************************)

\* The client reads what the server writes, over the connection it accepted.
Linked ==
  /\ toGdb \in Seq(FromSim)
  /\ gdb.state # "gone" => rsp.client_fd

\* There is at most one stop reply per instruction: one that stored to a
\* watched word has lost its step, and a stall in the middle of it is due to
\* such a store.
Struck ==
  /\ hist.hits > 0 => ~rsp.stepping
  /\ rsp.stalled /\ at.phase \in {"store", "check"} => hist.hits > 0
  /\ at.phase \in {"put", "ack"} /\ at.then = "store" => hist.hits > 0

\* Only acknowledgements; acknowledgements and then m.
Acks(q) == \A i \in DOMAIN q : q[i].kind = "+"
Closing(q, m) ==
  /\ q # <<>> /\ q[Len(q)] = m
  /\ \A i \in DOMAIN q : i < Len(q) => q[i].kind = "+"

\* The states of the exchange.  The client has its reply, and the server the
\* acknowledgement, or will find it.
Settled ==
  /\ gdb.state = "idle" /\ rsp.stalled /\ Acks(toGdb)
  /\ \/ at.phase = "ack" /\ toSim = <<Char("+")>>
     \/ at.phase \notin {"put", "ack"} /\ toSim = <<>>

\* The request is on its way, perhaps damaged, perhaps behind the last
\* acknowledgement.
AskedFor(good) == Message("packet", [gdb.request EXCEPT !.good = good])
Asked ==
  /\ gdb.state = "waiting" /\ rsp.stalled /\ Acks(toGdb)
  /\ \E good \in BOOLEAN :
       \/ at.phase = "ack" /\ toSim = <<Char("+"), AskedFor(good)>>
       \/ at.phase \notin {"put", "ack"} /\ toSim = <<AskedFor(good)>>

\* It was damaged, and the server has asked for it again.
AskedAgain ==
  /\ gdb.state = "waiting" /\ rsp.stalled /\ at.phase = "request"
  /\ toSim = <<>> /\ Closing(toGdb, Char("-"))

\* The server is sending the reply, perhaps again.
Replied ==
  /\ gdb.state = "waiting" /\ rsp.stalled /\ Answers(at.out, gdb.request.op)
  /\ \/ at.phase = "put" /\ toSim = <<>> /\ Acks(toGdb)
     \/ at.phase = "ack" /\ toSim = <<Char("-")>> /\ Acks(toGdb)
     \/ at.phase = "ack" /\ toSim = <<>> /\ Closing(toGdb, Message("packet", at.out))

\* The program runs, and the client waits for it to stop.
Running ==
  /\ gdb.state = "waiting" /\ ~rsp.stalled /\ gdb.request.op \in {"c", "s"}
  /\ toSim = <<>> /\ Acks(toGdb)

\* The one request that nothing answers.
Unanswered ==
  /\ gdb.state = "waiting" /\ rsp.stalled /\ gdb.request.op = "i"
  /\ at.phase \in {"loop", "request"} /\ toSim = <<>> /\ Acks(toGdb)

Strict == ~gdb.interrupted /\ ~hist.twice
Ordered == Settled \/ Asked \/ AskedAgain \/ Replied \/ Running \/ Unanswered
OneAtATime == Strict => ~hist.astray /\ (gdb.state # "gone" => Ordered)

-----------------------------------------------------------------------------
(***************************************************************************)
(* Short sequences.                                                        *)
(***************************************************************************)
LEMMA Short ==
  /\ \A a : Append(<<>>, a) = <<a>> /\ Head(<<a>>) = a /\ Tail(<<a>>) = <<>>
  /\ \A a, b : /\ Append(<<a>>, b) = <<a, b>>
               /\ Head(<<a, b>>) = a /\ Tail(<<a, b>>) = <<b>>
  /\ \A a : <<a>> # <<>>
  /\ \A a, b : <<a, b>> # <<>>
<1>1. ASSUME NEW a
      PROVE  /\ Append(<<>>, a) = <<a>> /\ Head(<<a>>) = a /\ Tail(<<a>>) = <<>>
             /\ <<a>> # <<>>
  <2>1. Append(<<>>, a) = <<a>>
    OBVIOUS
  <2>2. Head(<<a>>) = a /\ <<a>> # <<>>
    OBVIOUS
  <2>3. Tail(<<a>>) = <<>>
    OBVIOUS
  <2> QED
    BY <2>1, <2>2, <2>3
<1>2. ASSUME NEW a, NEW b
      PROVE  /\ Append(<<a>>, b) = <<a, b>>
             /\ Head(<<a, b>>) = a /\ Tail(<<a, b>>) = <<b>>
             /\ <<a, b>> # <<>>
  <2>1. Append(<<a>>, b) = <<a, b>>
    <3>1. <<a>> \in Seq({a, b}) /\ Len(<<a>>) = 1 /\ <<a>>[1] = a
      OBVIOUS
    <3>2. /\ Append(<<a>>, b) \in Seq({a, b}) /\ Len(Append(<<a>>, b)) = 2
          /\ Append(<<a>>, b)[1] = a /\ Append(<<a>>, b)[2] = b
      BY <3>1, AppendProperties
    <3>3. /\ <<a, b>> \in Seq({a, b}) /\ Len(<<a, b>>) = 2
          /\ <<a, b>>[1] = a /\ <<a, b>>[2] = b
      OBVIOUS
    <3>4. \A i \in 1 .. 2 : Append(<<a>>, b)[i] = <<a, b>>[i]
      <4>1. \A i \in 1 .. 2 : i = 1 \/ i = 2
        OBVIOUS
      <4> QED
        BY <3>2, <3>3, <4>1
    <3> DEFINE s == Append(<<a>>, b)
               t == <<a, b>>
    <3>5. /\ s \in Seq({a, b}) /\ t \in Seq({a, b}) /\ Len(s) = Len(t)
          /\ \A i \in 1 .. Len(s) : s[i] = t[i]
      BY <3>2, <3>3, <3>4
    <3> HIDE DEF s, t
    <3>6. s = t
      BY <3>5, SeqEqual
    <3> QED
      BY <3>6 DEF s, t
  <2>2. Head(<<a, b>>) = a /\ <<a, b>> # <<>>
    OBVIOUS
  <2>3. Tail(<<a, b>>) = <<b>>
    OBVIOUS
  <2> QED
    BY <2>1, <2>2, <2>3
<1> QED
  BY <1>1, <1>2

LEMMA AcksGrow ==
  ASSUME NEW S, NEW q \in Seq(S), NEW m \in S, Acks(q)
  PROVE  /\ m.kind = "+" => Acks(Append(q, m))
         /\ Closing(Append(q, m), m)
<1>1. /\ Len(q) \in Nat /\ DOMAIN q = 1 .. Len(q)
      /\ Len(Append(q, m)) = Len(q) + 1
      /\ DOMAIN Append(q, m) = 1 .. Len(q) + 1
      /\ Append(q, m)[Len(q) + 1] = m
      /\ \A i \in 1 .. Len(q) : Append(q, m)[i] = q[i]
      /\ Append(q, m) # <<>>
  <2>1. Append(q, m) \in Seq(S) /\ Len(Append(q, m)) = Len(q) + 1
    BY AppendProperties
  <2> QED
    BY <2>1, AppendProperties, LenProperties
<1> QED
  BY <1>1 DEF Acks, Closing

LEMMA AcksShrink ==
  ASSUME NEW S, NEW q \in Seq(S), q # <<>>
  PROVE  /\ Acks(q) => Acks(Tail(q)) /\ Head(q).kind = "+"
         /\ \A m : Closing(q, m) /\ m.kind # "+" /\ Head(q).kind = "+" => Closing(Tail(q), m)
         /\ \A m : Closing(q, m) /\ Head(q).kind # "+" => Head(q) = m /\ Tail(q) = <<>>
<1>1. /\ Len(q) \in Nat \ {0} /\ DOMAIN q = 1 .. Len(q) /\ Head(q) = q[1]
      /\ Len(Tail(q)) = Len(q) - 1
      /\ DOMAIN Tail(q) = 1 .. Len(q) - 1
      /\ \A i \in 1 .. Len(q) - 1 : Tail(q)[i] = q[i + 1]
      /\ Tail(q) \in Seq(S)
  <2>1. Tail(q) \in Seq(S) /\ Len(Tail(q)) = Len(q) - 1
    BY HeadTailProperties
  <2> QED
    BY <2>1, HeadTailProperties, LenProperties
<1>2. 1 \in DOMAIN q /\ \A i \in DOMAIN Tail(q) : i + 1 \in DOMAIN q
  BY <1>1
<1>3. Acks(q) => Acks(Tail(q)) /\ Head(q).kind = "+"
  BY <1>1, <1>2 DEF Acks
<1>4. ASSUME NEW m, Closing(q, m), m.kind # "+", Head(q).kind = "+"
      PROVE  Closing(Tail(q), m)
  <2>1. Len(q) # 1
    BY <1>1, <1>4 DEF Closing
  <2>2. Len(q) - 1 \in 1 .. Len(q) - 1 /\ (Len(q) - 1) + 1 = Len(q)
    BY <1>1, <2>1
  <2>3. Tail(q)[Len(q) - 1] = q[Len(q)]
    BY <1>1, <2>2
  <2>4. Tail(q) # <<>>
    BY <1>1, <2>1
  <2>5. \A i \in DOMAIN Tail(q) : i < Len(q) - 1 => Tail(q)[i] = q[i + 1] /\ i + 1 < Len(q)
    BY <1>1
  <2> QED
    BY <1>1, <1>2, <1>4, <2>3, <2>4, <2>5 DEF Closing
<1>5. ASSUME NEW m, Closing(q, m), Head(q).kind # "+"
      PROVE  Head(q) = m /\ Tail(q) = <<>>
  <2>1. ~(1 < Len(q))
    BY <1>1, <1>2, <1>5 DEF Closing
  <2>2. Len(q) = 1
    BY <1>1, <2>1
  <2> QED
    BY <1>1, <1>5, <2>2, EmptySeq DEF Closing
<1> QED
  BY <1>3, <1>4, <1>5

LEMMA Kinds ==
  /\ \A ch \in {"+", "-"} : Char(ch).kind = ch /\ Char(ch) \in FromSim
  /\ \A r : Message("packet", r).kind = "packet" /\ Message("packet", r).packet = r
  /\ Char("+") # Char("-")
  BY DEF Char, Message, FromSim

LEMMA Returns ==
  ASSUME at \in Places
  PROVE  /\ \A phase \in Phases : Goto(phase) => at'.phase = phase /\ at'.then = "loop"
         /\ \A phase \in Phases :
              Sending(phase) => at'.phase = phase /\ at'.then = at.then /\ at'.out = at.out
         /\ \A p \in Packet, then \in {"loop", "store"} :
              Put(p, then) => at'.phase = "put" /\ at'.then = then /\ at'.out = p
  BY DEF Goto, Sending, Put, Places

-----------------------------------------------------------------------------
(***************************************************************************)
(* The connection.                                                         *)
(***************************************************************************)
LEMMA SentIsTyped ==
  ASSUME Linked, NEW m \in FromSim, Send(m)
  PROVE  toGdb' \in Seq(FromSim)
  BY Replying DEF Linked, Send

LEMMA LinkedStep == Typed /\ Linked /\ [Next]_vars => Linked'
<1> SUFFICES ASSUME Typed, Linked, [Next]_vars PROVE Linked'
  OBVIOUS
<1> USE TypedParts
<1>1. CASE UNCHANGED vars
  BY <1>1 DEF vars, Linked
<1>2. CASE Loop \/ Begin \/ Store \/ EndInsn \/ rsp_check_stall \/ PutAck \/ Ignored
  <2>1. UNCHANGED <<toGdb, gdb>> /\ rsp'.client_fd = rsp.client_fd
    BY <1>2 DEF Loop, Begin, Store, EndInsn, rsp_check_stall, PutAck, Ignored, WatchStall,
                RspRecords
  <2> QED
    BY <2>1 DEF Linked
<1>3. CASE PutWrite
  <2>1. gdb' = gdb
    BY <1>3 DEF PutWrite
  <2>2. CASE gdb.state # "gone"
    <3>1. toGdb' = Append(toGdb, Message("packet", at.out)) /\ rsp' = rsp
      BY <1>3, <2>2 DEF PutWrite, Linked
    <3>2. at.out \in Packet
      BY DEF Places
    <3> QED
      BY <2>1, <3>1, <3>2, Replying DEF Linked
  <2>3. CASE gdb.state = "gone"
    <3>1. toGdb' = toGdb
      BY <1>3, <2>3 DEF PutWrite
    <3> QED
      BY <2>1, <2>3, <3>1 DEF Linked
  <2> QED
    BY <2>2, <2>3
<1>4. CASE ReadEOF
  BY <1>4 DEF ReadEOF, Linked
<1>5. CASE BadChecksum
  BY <1>5, SentIsTyped, Replying DEF BadChecksum, Linked
<1>6. CASE rsp_get_client
  <2>1. toGdb' = <<>> /\ rsp'.client_fd
    BY <1>6 DEF rsp_get_client, RspRecords
  <2> QED
    BY <2>1 DEF Linked
<1>7. CASE rsp_client_request
  <2>1. Head(toSim).packet.op \in Ops
    BY <1>7, Messages, Requests DEF rsp_client_request
  <2>2. rsp'.client_fd = rsp.client_fd
    BY <1>7, <2>1, RspAssumption
    DEF rsp_client_request, Applied, rsp_continue, rsp_step, Detached, RspRecords
  <2>3. gdb' = gdb /\ toGdb' \in Seq(FromSim)
    BY <1>7, SentIsTyped, Replying DEF rsp_client_request
  <2> QED
    BY <2>2, <2>3 DEF Linked
<1>8. CASE Reads \/ Chooses
  <2>1. rsp' = rsp /\ (gdb'.state # "gone" => gdb.state # "gone")
    BY <1>8 DEF Reads, Chooses, ClientAcked, ClientResend, ClientReceive, ClientClosed,
                ClientSend, ClientInterrupt, ClientLeave, Client, GdbRecords
  <2>2. toGdb' \in {toGdb, <<>>} \/ (toGdb # <<>> /\ toGdb' = Tail(toGdb))
    BY <1>8 DEF Reads, Chooses, ClientAcked, ClientResend, ClientReceive, ClientClosed,
                ClientSend, ClientInterrupt, ClientLeave
  <2>3. toGdb' \in Seq(FromSim)
    <3>1. <<>> \in Seq(FromSim) /\ toGdb \in Seq(FromSim)
      BY DEF Linked
    <3> QED
      BY <2>2, <3>1, Replying
  <2> QED
    BY <2>1, <2>3 DEF Linked
<1> QED
  BY <1>1, <1>2, <1>3, <1>4, <1>5, <1>6, <1>7, <1>8 DEF Next, Server

-----------------------------------------------------------------------------
(***************************************************************************)
(* One stop reply per instruction.                                         *)
(***************************************************************************)
LEMMA ProgramStruck ==
  ASSUME Typed, Held, Struck, Loop \/ Begin \/ Store \/ EndInsn \/ rsp_check_stall
  PROVE  Struck'
<1> USE TypedParts
<1>1. Stop \in Packet
  BY DEF Stop, Packet
<1>2. CASE Loop
  <2>1. UNCHANGED <<rsp, hist>> /\ at'.phase \in {"request", "accept", "exited", "begin"}
    BY <1>2, Returns DEF Loop, Phases
  <2> QED
    BY <2>1 DEF Struck
<1>3. CASE Begin
  <2>1. hist'.hits = 0
    BY <1>3 DEF Begin
  <2>2. CASE prog.pc = ExitPC
    BY <1>1, <1>3, <2>1, <2>2, Returns DEF Begin, Struck
  <2>3. CASE prog.pc # ExitPC
    <3>1. Goto("store") /\ rsp' = rsp /\ ~rsp.stalled
      BY <1>3, <2>3 DEF Begin, Held
    <3>2. at'.phase = "store"
      BY <3>1, Returns DEF Phases
    <3> QED
      BY <2>1, <3>1, <3>2 DEF Struck
  <2> QED
    BY <2>2, <2>3
<1>4. CASE Store
  <2>1. CASE Watched(Head(prog.stores))
    <3>1. ~rsp'.stepping
      BY <1>4, <2>1 DEF Store, WatchStall, RspRecords
    <3>2. hist' = [hist EXCEPT !.hits = @ + 1, !.twice = @ \/ hist.hits > 0]
      BY <1>4, <2>1 DEF Store
    <3>3. hist'.hits = hist.hits + 1
      BY <3>2
    <3>4. hist'.hits > 0
      BY <3>3
    <3> QED
      BY <3>1, <3>4 DEF Struck
  <2>2. CASE ~Watched(Head(prog.stores))
    BY <1>4, <2>2 DEF Store, Struck
  <2> QED
    BY <2>1, <2>2
<1>5. CASE EndInsn
  <2>1. UNCHANGED <<rsp, hist>> /\ at.phase = "store" /\ at'.phase = "check"
    BY <1>5, Returns DEF EndInsn, Phases
  <2> QED
    BY <2>1 DEF Struck
<1>6. CASE rsp_check_stall
  <2>1. hist'.hits = hist.hits
    BY <1>6 DEF rsp_check_stall
  <2>2. rsp' = rsp \/ ~rsp'.stepping
    BY <1>6 DEF rsp_check_stall, RspRecords
  <2>3. at'.phase \in {"put", "loop"} /\ at'.then = "loop"
    BY <1>1, <1>6, Returns DEF rsp_check_stall, Phases
  <2> QED
    BY <2>1, <2>2, <2>3 DEF Struck
<1> QED
  BY <1>2, <1>3, <1>4, <1>5, <1>6

LEMMA PacketStruck ==
  ASSUME Typed, Struck, PutWrite \/ PutAck \/ ReadEOF \/ Ignored \/ BadChecksum \/ rsp_get_client
  PROVE  Struck'
<1> USE TypedParts
<1>1. hist' = hist /\ rsp'.stepping = rsp.stepping
  BY DEF PutWrite, PutAck, ReadEOF, Ignored, BadChecksum, rsp_get_client, RspRecords
<1>2. at.then \in {"loop", "store"}
  BY DEF Places
<1>3. CASE PutWrite \/ PutAck
  <2>1. at.phase \in {"put", "ack"}
    BY <1>3 DEF PutWrite, PutAck
  <2>2. Sending("put") \/ Sending("ack") \/ Goto(at.then)
    BY <1>3 DEF PutWrite, PutAck
  <2>3. /\ at'.phase \in {"put", "ack"} => at'.then = at.then
        /\ at'.phase \in {"store", "check"} => at.then = "store"
    BY <1>2, <2>2, Returns DEF Phases
  <2> QED
    BY <1>1, <2>1, <2>3 DEF Struck
<1>4. CASE ReadEOF
  <2>1. at.phase = "ack" => Goto(at.then)
    BY <1>4 DEF ReadEOF
  <2>2. at.phase # "ack" => Goto("loop")
    BY <1>4 DEF ReadEOF
  <2>3. /\ at'.phase \notin {"put", "ack", "check"}
        /\ at'.phase = "store" => at.phase = "ack" /\ at.then = "store"
    BY <1>2, <2>1, <2>2, Returns DEF Phases
  <2> QED
    BY <1>1, <2>3 DEF Struck
<1>5. CASE rsp_get_client
  <2>1. at'.phase = "request"
    BY <1>5, Returns DEF rsp_get_client, Phases
  <2> QED
    BY <1>1, <2>1 DEF Struck
<1>6. CASE Ignored \/ BadChecksum
  <2>1. at' = at /\ rsp' = rsp
    BY <1>6 DEF Ignored, BadChecksum
  <2> QED
    BY <1>1, <2>1 DEF Struck
<1> QED
  BY <1>3, <1>4, <1>5, <1>6

LEMMA RequestStruck ==
  ASSUME Typed, Struck, rsp_client_request
  PROVE  Struck'
<1> USE TypedParts
<1> DEFINE op == Head(toSim).packet.op
<1>1. op \in Ops
  BY Messages, Requests DEF rsp_client_request
<1>2. Reply(op) \in Packet
  BY <1>1, Answered
<1>3. at'.phase \in {"put", "loop"} /\ at'.then = "loop"
  <2>1. Put(Reply(op), "loop") \/ Goto("loop")
    BY DEF rsp_client_request
  <2> QED
    BY <1>2, <2>1, Returns DEF Phases
<1>4. hist'.hits = 0 \/ (hist' = hist /\ op \notin {"c", "s"})
  BY DEF rsp_client_request
<1>5. op \notin {"c", "s"} => rsp'.stepping = rsp.stepping
  <2>1. rsp' = Applied(op)
    BY DEF rsp_client_request
  <2>2. op \notin {"c", "s"} =>
          rsp' \in {rsp, Detached, [rsp EXCEPT !.client_waiting = TRUE]}
    BY <2>1 DEF Applied
  <2> QED
    BY <2>2 DEF Detached, RspRecords
<1> HIDE DEF op
<1> QED
  BY <1>3, <1>4, <1>5 DEF Struck

LEMMA StruckStep == Typed /\ Held /\ Struck /\ [Next]_vars => Struck'
<1> SUFFICES ASSUME Typed, Held, Struck, [Next]_vars PROVE Struck'
  OBVIOUS
<1>1. CASE UNCHANGED vars
  BY <1>1 DEF vars, Struck
<1>2. CASE Reads \/ Chooses
  <2>1. UNCHANGED <<at, rsp>>
    BY <1>2 DEF Reads, Chooses, ClientAcked, ClientResend, ClientReceive, ClientClosed,
         ClientSend, ClientInterrupt, ClientLeave, Client
  <2>2. hist'.hits = hist.hits
    BY <1>2, TypedParts DEF Reads, Chooses, ClientAcked, ClientResend, ClientReceive,
         ClientClosed, ClientSend, ClientInterrupt, ClientLeave
  <2> QED
    BY <2>1, <2>2 DEF Struck
<1> QED
  BY <1>1, <1>2, ProgramStruck, PacketStruck, RequestStruck DEF Next, Server

-----------------------------------------------------------------------------
(***************************************************************************)
(* The exchange goes from one of its states to another.                    *)
(***************************************************************************)
LEMMA StrictBefore == Typed /\ Next /\ Strict' => Strict
<1> SUFFICES ASSUME Typed, Next, Strict' PROVE Strict
  OBVIOUS
<1> USE TypedParts
<1>1. hist.twice => hist'.twice
  BY DEF Next, Server, Reads, Chooses, Loop, Begin, Store, EndInsn, rsp_check_stall,
     PutWrite, PutAck, ReadEOF, Ignored, BadChecksum, rsp_client_request, rsp_get_client,
     ClientAcked, ClientResend, ClientReceive, ClientClosed, ClientSend, ClientInterrupt,
     ClientLeave
<1>2. gdb.interrupted => gdb'.interrupted
  BY DEF Next, Server, Reads, Chooses, Loop, Begin, Store, EndInsn, rsp_check_stall,
     PutWrite, PutAck, ReadEOF, Ignored, BadChecksum, rsp_client_request, rsp_get_client,
     ClientAcked, ClientResend, ClientReceive, ClientClosed, ClientSend, ClientInterrupt,
     ClientLeave, GdbRecords
<1> QED
  BY <1>1, <1>2 DEF Strict

LEMMA Astray ==
  Typed /\ Next /\ ~ClientReceive => (hist'.astray <=> hist.astray)
<1> SUFFICES ASSUME Typed, Next, ~ClientReceive PROVE hist'.astray = hist.astray
  OBVIOUS
<1> USE TypedParts
<1> QED
  BY DEF Next, Server, Reads, Chooses, Loop, Begin, Store, EndInsn, rsp_check_stall,
     PutWrite, PutAck, ReadEOF, Ignored, BadChecksum, rsp_client_request, rsp_get_client,
     ClientAcked, ClientResend, ClientReceive, ClientClosed, ClientSend, ClientInterrupt,
     ClientLeave

\* Between two packets the server moves without a word.
LEMMA Silent ==
  ASSUME Ordered, UNCHANGED <<toSim, toGdb, gdb>>, rsp'.stalled = rsp.stalled,
         at.phase \in {"begin", "store", "check"},
         at'.phase \notin {"put", "ack"}
  PROVE  Ordered'
<1>1. CASE Settled
  BY <1>1 DEF Settled, Ordered
<1>2. CASE Asked
  BY <1>2 DEF Asked, AskedFor, Ordered
<1>3. CASE Running
  BY <1>3 DEF Running, Ordered
<1> QED
  BY <1>1, <1>2, <1>3 DEF Ordered, AskedAgain, Replied, Unanswered

\* A program that runs stops, and says so.
LEMMA Stopping ==
  ASSUME Ordered, UNCHANGED <<toSim, toGdb, gdb>>, ~rsp.stalled, rsp'.stalled,
         at'.phase = "put", at'.out = Stop
  PROVE  Ordered'
<1>1. Running
  BY DEF Ordered, Settled, Asked, AskedAgain, Replied, Unanswered
<1>2. Answers(at'.out, gdb'.request.op)
  BY <1>1 DEF Running, Answers, Stop
<1> QED
  BY <1>1, <1>2 DEF Running, Replied, Ordered

LEMMA ProgramOrdered ==
  ASSUME Typed, Held, Linked, Struck, OneAtATime, Strict, Strict',
         Loop \/ Begin \/ Store \/ EndInsn \/ rsp_check_stall,
         gdb'.state # "gone"
  PROVE  Ordered'
<1> USE TypedParts
<1>1. UNCHANGED <<toSim, toGdb, gdb>>
  BY DEF Loop, Begin, Store, EndInsn, rsp_check_stall
<1>2. Ordered /\ rsp.client_fd
  BY <1>1 DEF OneAtATime, Linked
<1>3. Stop \in Packet
  BY DEF Stop, Packet
<1>4. CASE Loop
  <2>1. rsp' = rsp /\ at.phase = "loop" /\ at'.phase \in {"request", "exited", "begin"}
        /\ (rsp.stalled => at'.phase = "request")
    BY <1>2, <1>4, Returns DEF Loop, Phases
  <2>2. CASE Settled
    BY <1>1, <2>1, <2>2 DEF Settled, Ordered
  <2>3. CASE Asked
    BY <1>1, <2>1, <2>3 DEF Asked, AskedFor, Ordered
  <2>4. CASE Running
    BY <1>1, <2>1, <2>4 DEF Running, Ordered
  <2>5. CASE Unanswered
    BY <1>1, <2>1, <2>5 DEF Unanswered, Ordered
  <2> QED
    BY <1>2, <2>1, <2>2, <2>3, <2>4, <2>5 DEF Ordered, AskedAgain, Replied
<1>5. CASE Begin
  <2>1. at.phase = "begin" /\ ~rsp.stalled
    BY <1>5 DEF Begin, Held
  <2>2. CASE prog.pc = ExitPC
    <3>1. rsp'.stalled /\ Put(Stop, "loop")
      BY <1>5, <2>2 DEF Begin, RspRecords
    <3> QED
      BY <1>1, <1>2, <1>3, <2>1, <3>1, Returns, Stopping
  <2>3. CASE prog.pc # ExitPC
    <3>1. rsp' = rsp /\ Goto("store")
      BY <1>5, <2>3 DEF Begin
    <3>2. at'.phase = "store"
      BY <3>1, Returns DEF Phases
    <3> QED
      BY <1>1, <1>2, <2>1, <3>1, <3>2, Silent
  <2> QED
    BY <2>2, <2>3
<1>6. CASE Store
  <2>1. CASE Watched(Head(prog.stores))
    <3>1. hist' = [hist EXCEPT !.hits = @ + 1, !.twice = @ \/ hist.hits > 0]
      BY <1>6, <2>1 DEF Store
    <3>2. ~(hist.hits > 0)
      BY <3>1 DEF Strict
    <3>3. ~rsp.stalled
      BY <1>6, <3>2 DEF Store, Struck
    <3>4. rsp'.stalled /\ Put(Stop, "store")
      BY <1>6, <2>1 DEF Store, WatchStall, RspRecords
    <3> QED
      BY <1>1, <1>2, <1>3, <3>3, <3>4, Returns, Stopping
  <2>2. CASE ~Watched(Head(prog.stores))
    <3>1. rsp' = rsp /\ at' = at /\ at.phase = "store"
      BY <1>6, <2>2 DEF Store
    <3> QED
      BY <1>1, <1>2, <3>1, Silent
  <2> QED
    BY <2>1, <2>2
<1>7. CASE EndInsn
  <2>1. rsp' = rsp /\ at.phase = "store" /\ Goto("check")
    BY <1>7 DEF EndInsn
  <2>2. at'.phase = "check"
    BY <2>1, Returns DEF Phases
  <2> QED
    BY <1>1, <1>2, <2>1, <2>2, Silent
<1>8. CASE rsp_check_stall
  <2> DEFINE stop == rsp.stepping \/ AtBreakpoint(prog.pc) \/ CycleWatch
  <2>1. CASE stop
    <3>1. at.phase = "check" /\ rsp'.stalled /\ Put(Stop, "loop")
      BY <1>8, <2>1 DEF rsp_check_stall, RspRecords
    <3>2. hist' = [hist EXCEPT !.twice =
                     @ \/ hist.hits + (IF stop /\ ~rsp.stepping THEN 1 ELSE 0) > 1]
      BY <1>8 DEF rsp_check_stall
    <3>3. ~(hist.hits + (IF stop /\ ~rsp.stepping THEN 1 ELSE 0) > 1)
      BY <3>2 DEF Strict
    <3>4. ~rsp.stalled
      <4>1. ~rsp.stepping => ~(hist.hits > 0)
        BY <2>1, <3>3
      <4> QED
        BY <3>1, <4>1 DEF Struck
    <3> QED
      BY <1>1, <1>2, <1>3, <3>1, <3>4, Returns, Stopping
  <2>2. CASE ~stop
    <3>1. rsp' = rsp /\ at.phase = "check" /\ Goto("loop")
      BY <1>8, <2>2 DEF rsp_check_stall
    <3>2. at'.phase = "loop"
      BY <3>1, Returns DEF Phases
    <3> QED
      BY <1>1, <1>2, <3>1, <3>2, Silent
  <2> QED
    BY <2>1, <2>2
<1> QED
  BY <1>4, <1>5, <1>6, <1>7, <1>8

\* put_packet sends the reply, again if it was rejected, until it is
\* acknowledged, and takes nothing else for the acknowledgement.
LEMMA PutOrdered ==
  ASSUME Typed, Held, Linked, OneAtATime, Strict, PutWrite \/ PutAck, gdb'.state # "gone"
  PROVE  Ordered'
<1> USE TypedParts
<1>1. gdb' = gdb /\ gdb.state # "gone"
  BY DEF PutWrite, PutAck
<1>2. Ordered /\ rsp.client_fd
  BY <1>1 DEF OneAtATime, Linked
<1>3. CASE PutWrite
  <2>1. /\ at.phase = "put" /\ toSim' = toSim /\ rsp' = rsp /\ Sending("ack")
        /\ toGdb' = Append(toGdb, Message("packet", at.out))
    BY <1>1, <1>2, <1>3 DEF PutWrite
  <2>2. Replied /\ Acks(toGdb) /\ toSim = <<>>
    BY <1>2, <2>1 DEF Ordered, Settled, Asked, AskedAgain, Replied, Running, Unanswered, Held
  <2>3. at'.phase = "ack" /\ at'.out = at.out /\ at.out \in Packet
    BY <2>1, Returns DEF Phases, Places
  <2>4. Closing(toGdb', Message("packet", at.out))
    BY <2>1, <2>2, <2>3, AcksGrow, Replying DEF Linked
  <2> QED
    BY <1>1, <2>1, <2>2, <2>3, <2>4 DEF Replied, Ordered
<1>4. CASE PutAck
  <2>1. /\ at.phase = "ack" /\ toSim # <<>> /\ toSim' = Tail(toSim)
        /\ rsp' = rsp /\ toGdb' = toGdb
    BY <1>4 DEF PutAck
  <2>2. Head(toSim).kind = "+" => at'.phase \notin {"put", "ack"}
    <3>1. at.then \in Phases /\ at.then \notin {"put", "ack"}
      BY DEF Places, Phases
    <3> QED
      BY <1>4, <3>1, Returns DEF PutAck
  <2>3. Head(toSim).kind # "+" => at'.phase = "put" /\ at'.out = at.out
    BY <1>4, Returns DEF PutAck, Phases
  <2>4. CASE Settled
    <3>1. toSim = <<Char("+")>> /\ Acks(toGdb) /\ gdb.state = "idle" /\ rsp.stalled
      BY <2>1, <2>4 DEF Settled
    <3>2. Head(toSim).kind = "+" /\ toSim' = <<>>
      BY <2>1, <3>1, Short, Kinds
    <3> QED
      BY <1>1, <2>1, <2>2, <3>1, <3>2 DEF Settled, Ordered
  <2>5. CASE Asked
    <3>1. PICK good \in BOOLEAN : toSim = <<Char("+"), AskedFor(good)>>
      BY <2>1, <2>5 DEF Asked
    <3>2. Head(toSim).kind = "+" /\ toSim' = <<AskedFor(good)>>
      BY <2>1, <3>1, Short, Kinds
    <3>3. AskedFor(good) = AskedFor(good)'
      BY <1>1 DEF AskedFor
    <3> QED
      BY <1>1, <2>1, <2>2, <2>5, <3>2, <3>3 DEF Asked, Ordered
  <2>6. CASE Replied
    <3>1. toSim = <<Char("-")>> /\ Acks(toGdb)
      BY <2>1, <2>6 DEF Replied
    <3>2. Head(toSim).kind = "-" /\ toSim' = <<>>
      BY <2>1, <3>1, Short, Kinds
    <3> QED
      BY <1>1, <2>1, <2>3, <2>6, <3>1, <3>2 DEF Replied, Ordered
  <2> QED
    BY <1>2, <2>1, <2>4, <2>5, <2>6 DEF Ordered, AskedAgain, Running, Unanswered
<1> QED
  BY <1>3, <1>4

LEMMA ReadOrdered ==
  ASSUME Typed, Held, Linked, OneAtATime, Strict,
         ReadEOF \/ Ignored \/ BadChecksum \/ rsp_get_client, gdb'.state # "gone"
  PROVE  Ordered'
<1> USE TypedParts
<1>1. ~ReadEOF
  BY DEF ReadEOF
<1>2. CASE rsp_get_client
  <2>1. /\ at.phase = "accept" /\ rsp' = [rsp EXCEPT !.client_fd = TRUE, !.client_waiting = FALSE]
        /\ toSim' = <<>> /\ toGdb' = <<>> /\ Goto("request")
        /\ gdb' = [gdb EXCEPT !.state = "idle", !.connections = @ + 1]
    BY <1>2 DEF rsp_get_client
  <2>2. rsp'.stalled /\ gdb'.state = "idle"
    BY <2>1 DEF Held, RspRecords, GdbRecords
  <2>3. at'.phase = "request"
    BY <2>1, Returns DEF Phases
  <2> QED
    BY <2>1, <2>2, <2>3 DEF Acks, Settled, Ordered
<1>3. ASSUME Ignored \/ BadChecksum
      PROVE  /\ Asked /\ at.phase = "request"
             /\ \E good \in BOOLEAN : toSim = <<AskedFor(good)>>
  <2>1. at.phase = "request" /\ toSim # <<>> /\ gdb' = gdb
    BY <1>3 DEF Ignored, BadChecksum
  <2>2. Ordered /\ rsp.stalled
    BY <2>1 DEF OneAtATime, Held
  <2>3. Asked
    BY <2>1, <2>2 DEF Ordered, Settled, AskedAgain, Replied, Running, Unanswered
  <2> QED
    BY <2>1, <2>3 DEF Asked
<1>4. ~Ignored
  <2>1. ASSUME Ignored PROVE FALSE
    <3>1. PICK good \in BOOLEAN : toSim = <<AskedFor(good)>>
      BY <1>3, <2>1
    <3>2. Head(toSim).kind = "packet"
      BY <3>1, Short, Kinds DEF AskedFor
    <3> QED
      BY <2>1, <3>2 DEF Ignored
  <2> QED
    BY <2>1
<1>5. CASE BadChecksum
  <2>1. /\ toSim' = Tail(toSim) /\ UNCHANGED <<at, rsp, gdb>>
        /\ toGdb' = Append(toGdb, Char("-"))
    BY <1>5 DEF BadChecksum, Send
  <2>2. Asked /\ at.phase = "request" /\ toSim' = <<>>
    BY <1>3, <1>5, <2>1, Short
  <2>3. Closing(toGdb', Char("-"))
    BY <2>1, <2>2, AcksGrow, Replying DEF Linked, Asked
  <2> QED
    BY <2>1, <2>2, <2>3 DEF Asked, AskedAgain, Ordered
<1> QED
  BY <1>1, <1>2, <1>4, <1>5

LEMMA RequestOrdered ==
  ASSUME Typed, Held, Linked, OneAtATime, Strict, rsp_client_request, gdb'.state # "gone"
  PROVE  Ordered'
<1> USE TypedParts
<1> DEFINE op == Head(toSim).packet.op
<1>1. /\ at.phase = "request" /\ toSim # <<>> /\ gdb' = gdb /\ toSim' = Tail(toSim)
      /\ rsp' = Applied(op) /\ Send(Char("+"))
      /\ IF Replies(op) THEN Put(Reply(op), "loop") ELSE Goto("loop")
  BY DEF rsp_client_request
<1>2. op \in Ops
  BY Messages, Requests DEF rsp_client_request
<1>3. Ordered /\ rsp.stalled
  BY <1>1 DEF OneAtATime, Held
<1>4. Asked
  BY <1>1, <1>3 DEF Ordered, Settled, AskedAgain, Replied, Running, Unanswered
<1>5. PICK good \in BOOLEAN : toSim = <<AskedFor(good)>>
  BY <1>1, <1>4 DEF Asked
<1>6. op = gdb.request.op /\ toSim' = <<>>
  <2>1. gdb.request \in Request
    BY <1>4 DEF Asked
  <2>2. [gdb.request EXCEPT !.good = good].op = gdb.request.op
    BY <2>1 DEF Request
  <2>3. Head(toSim) = AskedFor(good) /\ Tail(toSim) = <<>>
    BY <1>5, Short
  <2> QED
    BY <1>1, <2>2, <2>3, Kinds DEF AskedFor
<1>7. Acks(toGdb') /\ gdb.state = "waiting"
  <2>1. toGdb' = Append(toGdb, Char("+"))
    BY <1>1 DEF Send
  <2> QED
    BY <1>4, <2>1, AcksGrow, Replying, Kinds DEF Asked, Linked
<1> HIDE DEF op
<1>8. CASE op \in {"c", "s"}
  <2>1. ~rsp'.stalled
    BY <1>1, <1>8 DEF Applied, rsp_continue, rsp_step, RspRecords
  <2> QED
    BY <1>1, <1>6, <1>7, <1>8, <2>1 DEF Running, Ordered
<1>9. CASE op = "i"
  <2>1. rsp'.stalled
    BY <1>1, <1>2, <1>3, <1>9, Answered
  <2>2. at'.phase = "loop"
    BY <1>1, <1>9, Returns DEF Replies, Phases
  <2> QED
    BY <1>1, <1>6, <1>7, <1>9, <2>1, <2>2 DEF Unanswered, Ordered
<1>10. CASE op \notin {"c", "s", "i"}
  <2>1. rsp'.stalled
    BY <1>1, <1>2, <1>3, <1>10, Answered
  <2>2. Reply(op) \in Packet /\ Reply(op).for = op
    BY <1>2, Answered DEF Reply
  <2>3. at'.phase = "put" /\ at'.out = Reply(op)
    BY <1>1, <1>10, <2>2, Returns DEF Replies
  <2>4. Answers(at'.out, gdb'.request.op)
    BY <1>1, <1>6, <1>10, <2>2, <2>3 DEF Answers
  <2> QED
    BY <1>1, <1>6, <1>7, <2>1, <2>3, <2>4 DEF Replied, Ordered
<1> QED
  BY <1>8, <1>9, <1>10

\* The client's own steps; what it takes for a reply is the reply.
LEMMA ClientOrdered ==
  ASSUME Typed, Linked, OneAtATime, Strict, Strict', Reads \/ Chooses
  PROVE  ~hist'.astray /\ (gdb'.state # "gone" => Ordered')
<1> USE TypedParts
<1>1. UNCHANGED <<at, rsp>> /\ ~hist.astray /\ toGdb \in Seq(FromSim)
  BY DEF Reads, Chooses, ClientAcked, ClientResend, ClientReceive, ClientClosed, ClientSend,
         ClientInterrupt, ClientLeave, Client, OneAtATime, Linked
<1>2. CASE ClientSend
  <2>1. hist' = hist /\ toGdb' = toGdb /\ gdb.state = "idle"
    BY <1>2 DEF ClientSend, Client
  <2>2. PICK r \in Request :
          /\ toSim' = Append(toSim, Message("packet", r))
          /\ gdb' = [gdb EXCEPT !.state = "waiting", !.request = [r EXCEPT !.good = TRUE],
                                !.faults = IF r.good THEN @ ELSE @ + 1]
    BY <1>2 DEF ClientSend
  <2>3. gdb'.state = "waiting" /\ gdb'.request = [r EXCEPT !.good = TRUE]
    BY <2>2 DEF GdbRecords
  <2>4. r.good \in BOOLEAN /\ Message("packet", r) = AskedFor(r.good)'
    <3>1. r.good \in BOOLEAN /\ [[r EXCEPT !.good = TRUE] EXCEPT !.good = r.good] = r
      BY DEF Request
    <3> QED
      BY <2>3, <3>1 DEF AskedFor
  <2>5. Settled
    BY <2>1 DEF OneAtATime, Ordered, Settled, Asked, AskedAgain, Replied, Running, Unanswered
  <2>6. CASE at.phase = "ack" /\ toSim = <<Char("+")>>
    <3>1. toSim' = <<Char("+"), AskedFor(r.good)'>>
      BY <2>2, <2>4, <2>6, Short
    <3> QED
      BY <1>1, <2>1, <2>3, <2>4, <2>5, <2>6, <3>1 DEF Settled, Asked, Ordered
  <2>7. CASE at.phase \notin {"put", "ack"} /\ toSim = <<>>
    <3>1. toSim' = <<AskedFor(r.good)'>>
      BY <2>2, <2>4, <2>7, Short
    <3> QED
      BY <1>1, <2>1, <2>3, <2>4, <2>5, <2>7, <3>1 DEF Settled, Asked, Ordered
  <2> QED
    BY <2>5, <2>6, <2>7 DEF Settled
<1>3. ASSUME ClientAcked \/ ClientResend \/ ClientReceive
      PROVE  /\ gdb.state = "waiting" /\ toGdb # <<>> /\ toGdb' = Tail(toGdb)
             /\ Asked \/ AskedAgain \/ Replied \/ Running \/ Unanswered
  BY <1>3 DEF ClientAcked, ClientResend, ClientReceive, Client, OneAtATime, Ordered, Settled
<1>4. CASE ClientAcked
  <2>1. UNCHANGED <<toSim, gdb, hist>> /\ Head(toGdb).kind = "+"
    BY <1>4 DEF ClientAcked
  <2>2. Acks(toGdb) => Acks(toGdb')
    BY <1>1, <1>3, <1>4, AcksShrink
  <2>3. \A m : Closing(toGdb, m) /\ m.kind # "+" => Closing(toGdb', m)
    BY <1>1, <1>3, <1>4, <2>1, AcksShrink
  <2>4. CASE Asked
    BY <1>1, <2>1, <2>2, <2>4 DEF Asked, AskedFor, Ordered
  <2>5. CASE AskedAgain
    <3>1. Closing(toGdb', Char("-"))
      BY <2>3, <2>5, Kinds DEF AskedAgain
    <3> QED
      BY <1>1, <2>1, <2>5, <3>1 DEF AskedAgain, Ordered
  <2>6. CASE Replied
    <3>1. Closing(toGdb, Message("packet", at.out)) => Closing(toGdb', Message("packet", at.out))
      BY <2>3, Kinds
    <3> QED
      BY <1>1, <2>1, <2>2, <2>6, <3>1 DEF Replied, Ordered
  <2>7. CASE Running
    BY <1>1, <2>1, <2>2, <2>7 DEF Running, Ordered
  <2>8. CASE Unanswered
    BY <1>1, <2>1, <2>2, <2>8 DEF Unanswered, Ordered
  <2> QED
    BY <1>3, <1>4, <2>4, <2>5, <2>6, <2>7, <2>8
<1>5. CASE ClientResend
  <2>1. /\ gdb' = gdb /\ hist' = hist /\ Head(toGdb).kind = "-"
        /\ toSim' = Append(toSim, Message("packet", gdb.request))
    BY <1>5 DEF ClientResend
  <2>2. ~Acks(toGdb)
    BY <1>1, <1>3, <1>5, <2>1, AcksShrink
  <2>3. ~Replied
    <3>1. \A p : ~Closing(toGdb, Message("packet", p))
      BY <1>1, <1>3, <1>5, <2>1, AcksShrink, Kinds
    <3> QED
      BY <2>2, <3>1 DEF Replied
  <2>4. AskedAgain
    BY <1>3, <1>5, <2>2, <2>3 DEF Asked, Running, Unanswered
  <2>5. toGdb' = <<>>
    BY <1>1, <1>3, <1>5, <2>1, <2>4, AcksShrink DEF AskedAgain
  <2>6. toSim' = <<Message("packet", gdb.request)>>
    BY <2>1, <2>4, Short DEF AskedAgain
  <2>7. /\ gdb.request.good \in BOOLEAN
        /\ Message("packet", gdb.request) = AskedFor(gdb.request.good)'
    <3>1. gdb.request \in Request
      BY <1>3, <1>5
    <3>2. /\ gdb.request.good \in BOOLEAN
          /\ [gdb.request EXCEPT !.good = gdb.request.good] = gdb.request
      BY <3>1 DEF Request
    <3> QED
      BY <2>1, <3>2 DEF AskedFor
  <2> QED
    BY <1>1, <2>1, <2>4, <2>5, <2>6, <2>7 DEF AskedAgain, Asked, Acks, Ordered
<1>6. CASE ClientReceive
  <2>1. Head(toGdb).kind = "packet"
    BY <1>6 DEF ClientReceive
  <2>2. ~Acks(toGdb)
    BY <1>1, <1>3, <1>6, <2>1, AcksShrink
  <2>3. ~AskedAgain
    <3>1. ~Closing(toGdb, Char("-"))
      BY <1>1, <1>3, <1>6, <2>1, AcksShrink, Kinds
    <3> QED
      BY <3>1 DEF AskedAgain
  <2>4. Replied
    BY <1>3, <1>6, <2>2, <2>3 DEF Asked, Running, Unanswered
  <2>5. at.phase = "ack" /\ toSim = <<>> /\ Closing(toGdb, Message("packet", at.out))
    BY <2>2, <2>4 DEF Replied
  <2>6. Head(toGdb).packet = at.out /\ toGdb' = <<>>
    <3>1. Head(toGdb) = Message("packet", at.out) /\ Tail(toGdb) = <<>>
      BY <1>1, <1>3, <1>6, <2>1, <2>5, AcksShrink
    <3>2. toGdb' = Tail(toGdb)
      BY <1>3, <1>6
    <3>3. Head(toGdb).packet = at.out
      BY <3>1, Kinds
    <3> QED
      BY <3>1, <3>2, <3>3
  <2>7. CASE /\ toSim' = Append(toSim, Char("+"))
             /\ gdb' = [gdb EXCEPT !.state = "idle", !.request = None]
             /\ hist' = [hist EXCEPT !.astray =
                           @ \/ ~Answers(Head(toGdb).packet, gdb.request.op)]
    <3>1. toSim' = <<Char("+")>>
      BY <2>5, <2>7, Short
    <3>2. gdb'.state = "idle"
      BY <2>7 DEF GdbRecords
    <3>3. hist'.astray = (hist.astray \/ ~Answers(Head(toGdb).packet, gdb.request.op))
      BY <2>7
    <3>4. ~hist'.astray
      BY <1>1, <2>4, <2>6, <3>3 DEF Replied
    <3> QED
      BY <1>1, <2>4, <2>5, <2>6, <3>1, <3>2, <3>4 DEF Replied, Settled, Acks, Ordered
  <2>8. CASE /\ toSim' = Append(toSim, Char("-"))
             /\ gdb' = [gdb EXCEPT !.faults = @ + 1]
             /\ hist' = hist
    <3>1. toSim' = <<Char("-")>>
      BY <2>5, <2>8, Short
    <3>2. gdb'.state = gdb.state /\ gdb'.request = gdb.request
      BY <2>8 DEF GdbRecords
    <3> QED
      BY <1>1, <2>4, <2>5, <2>6, <2>8, <3>1, <3>2 DEF Replied, Acks, Ordered
  <2> QED
    BY <1>6, <2>7, <2>8 DEF ClientReceive
<1>7. CASE ClientInterrupt
  BY <1>7 DEF ClientInterrupt, Strict, GdbRecords
<1>8. CASE ClientLeave \/ ClientClosed
  BY <1>1, <1>8 DEF ClientLeave, ClientClosed, GdbRecords
<1> QED
  BY <1>2, <1>4, <1>5, <1>6, <1>7, <1>8 DEF Reads, Chooses

LEMMA OneAtATimeStep ==
  Typed /\ Held /\ Linked /\ Struck /\ OneAtATime /\ [Next]_vars => OneAtATime'
<1> SUFFICES ASSUME Typed, Held, Linked, Struck, OneAtATime, [Next]_vars
             PROVE  OneAtATime'
  OBVIOUS
<1>1. CASE UNCHANGED vars
  BY <1>1 DEF vars, OneAtATime, Strict, Ordered, Settled, Asked, AskedFor, AskedAgain,
              Replied, Running, Unanswered
<1>2. CASE Next
  <2> SUFFICES ASSUME Strict'
               PROVE  ~hist'.astray /\ (gdb'.state # "gone" => Ordered')
    BY DEF OneAtATime
  <2>1. Strict
    BY <1>2, StrictBefore
  <2>2. CASE Reads \/ Chooses
    BY <2>1, <2>2, ClientOrdered
  <2>3. CASE Server \/ rsp_get_client
    <3>1. ~hist'.astray
      <4>1. ~ClientReceive \/ Reads
        BY DEF Reads
      <4> QED
        BY <1>2, <2>1, <2>2, <4>1, Astray DEF OneAtATime
    <3>2. ASSUME gdb'.state # "gone" PROVE Ordered'
      BY <2>1, <2>3, <3>2, ProgramOrdered, PutOrdered, ReadOrdered, RequestOrdered DEF Server
    <3> QED
      BY <3>1, <3>2
  <2> QED
    BY <1>2, <2>2, <2>3 DEF Next
<1> QED
  BY <1>1, <1>2

\* Every reply the client takes is the reply to its request, for every program
\* and every mix of requests: what put_packet repeats after a rejection, what
\* get_packet asks for again after a bad checksum, and what is left on a
\* connection that is lost never shift the replies against the requests.
THEOREM StaysInStep == Spec => []InStep
<1> DEFINE IInv == Typed /\ Held /\ Linked /\ Struck /\ OneAtATime
<1>1. Init => IInv
  <2>1. Init => Linked /\ Struck /\ OneAtATime
    BY DEF Init, Linked, Struck, OneAtATime, Strict
  <2> QED
    BY <2>1, InitTyped, InitHeld
<1>2. IInv /\ [Next]_vars => IInv'
  BY TypedStep, HeldStep, LinkedStep, StruckStep, OneAtATimeStep
<1>3. IInv => InStep
  BY DEF OneAtATime, Strict, InStep
<1> QED
  BY <1>1, <1>2, <1>3, PTL DEF Spec

=============================================================================
