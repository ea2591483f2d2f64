----------------------------- MODULE DebugAccess -----------------------------
(***************************************************************************)
(* What the debugger's requests p, P, g, m and X do to the processor, the  *)
(* memories and the simulator's own variables, which the mmio table maps   *)
(* from MEMMAPIO_START, while the main loop is stalled.  One action is one *)
(* request with its reply; how packets travel is module RspServer.         *)
(*                                                                         *)
(* A nibble has Nibble values (16 in the code), a byte is two nibbles and  *)
(* also a character of a packet, a word is WordBytes bytes (4).  Text in   *)
(* hex is the sequence of its nibbles.                                     *)
(***************************************************************************)
EXTENDS Integers, Sequences

CONSTANTS
  Nibble, WordBytes,
  MAX_GPRS,                        \* the PC is the next register
  GPR_SP,
  FLASH_SIZE, RAM_START, RAM_SIZE, \* FLASH_START is 0
  MEMMAPIO_START, TIMING_MEM,
  Brace,                           \* the character that escapes
  Special,                         \* the characters escaped
  HeaderSize,                      \* of X<addr>,<len>:
  Addrs, Lengths, Payloads, Values,\* bounds: what the requests name
  MaxSteps                         \* bound: requests and runs

VARIABLES sim, last, known, steps
vars == <<sim, last, known, steps>>

Digits  == 2 * WordBytes
ByteMod == Nibble * Nibble
Weight[k \in 0 .. Digits] == IF k = 0 THEN 1 ELSE Nibble * Weight[k - 1]
WordMod == Weight[Digits]
Byte    == 0 .. ByteMod - 1
Word    == 0 .. WordMod - 1

\* The words of the mmio table that this model keeps, in the table's order.
mmio == <<"wastedCycles", "cyclesSinceCP", "resetAfterCycles", "do_reset", "wdt_val">>
MmioNames     == {mmio[k] : k \in DOMAIN mmio}
MEMMAPIO_SIZE == WordBytes * Len(mmio)
MmioSpace     == MEMMAPIO_START .. MEMMAPIO_START + MEMMAPIO_SIZE - 1
Memory        == (0 .. FLASH_SIZE - 1) \cup (RAM_START .. RAM_START + RAM_SIZE - 1)
Aligned(a)    == a - (a % WordBytes)
Words         == {a \in Memory : a % WordBytes = 0}
Name(a)       == mmio[((a - MEMMAPIO_START) \div WordBytes) + 1]

PC_REGNUM   == MAX_GPRS
CPSR_REGNUM == MAX_GPRS + 10
NUM_REGS    == MAX_GPRS + 1
Regs        == (0 .. PC_REGNUM) \cup {CPSR_REGNUM}
GDB_BUF_MAX == NUM_REGS * Digits + 1

ASSUME DebugAssumption ==
  /\ Nibble \in {2, 4, 8, 16} /\ WordBytes \in {2, 4}
  /\ MAX_GPRS \in Nat /\ MAX_GPRS < WordMod /\ GPR_SP \in 0 .. MAX_GPRS - 1
  /\ \A a \in {FLASH_SIZE, RAM_START, RAM_SIZE, MEMMAPIO_START} :
       a \in Nat \ {0} /\ a % WordBytes = 0
  /\ TIMING_MEM \in Nat
  /\ FLASH_SIZE >= 2 * WordBytes
  /\ FLASH_SIZE < RAM_START /\ RAM_START + RAM_SIZE < MEMMAPIO_START
  /\ MEMMAPIO_START + MEMMAPIO_SIZE <= WordMod
  /\ Brace \in Special /\ Special \subseteq Byte
  /\ HeaderSize \in Nat /\ MaxSteps \in Nat
  /\ Addrs \subseteq Nat /\ Lengths \subseteq Nat /\ Values \subseteq Word
  /\ \A p \in Payloads : p \in Seq(Byte)

-----------------------------------------------------------------------------
(***************************************************************************)
(* Text.                                                                   *)
(***************************************************************************)
Nib(w, k)  == (w \div Weight[k]) % Nibble
Lane(w, k) == (w \div Weight[2 * k]) % ByteMod
Put(w, k, b) == w + (b - Lane(w, k)) * Weight[2 * k]
Flip(c)    == (c + ByteMod \div 2) % ByteMod \* c ^ 0x20: one bit
SetLow(w)  == w + 1 - (w % 2)               \* w | 1

Sum(term, n) ==
  LET s[k \in 0 .. n] == IF k = 0 THEN 0 ELSE s[k - 1] + term[k] IN s[n]

\* The bitwise or of nibbles, and of words by nibbles.
OrNibble(a, b) ==
  LET Bit(k) == IF 1 \in {(a \div k) % 2, (b \div k) % 2} THEN k ELSE 0
  IN Bit(1) + Bit(2) + Bit(4) + Bit(8)
Or(v, w) ==
  Sum([n \in 1 .. Digits |-> OrNibble(Nib(v, n - 1), Nib(w, n - 1)) * Weight[n - 1]], Digits)

\* Mutant: the digits from the most significant on.
reg2hexStraight(val) == [n \in 1 .. Digits |-> Nib(val, Digits - n)]

\* The digits of a word, byte 0 first, the upper digit of each byte first.
Place(n) == IF n % 2 = 0 THEN n + 1 ELSE n - 1
reg2hex(val) == [n \in 1 .. Digits |-> Nib(val, Place(n - 1))]
hex2reg(buf) == Sum([n \in 1 .. Digits |-> buf[Place(n - 1) + 1] * Weight[n - 1]], Digits)

\* Character c of the data, when r.to is what those before it stand for.
Unescaped(r, c) ==
  CASE c = Brace /\ ~r.esc -> [r EXCEPT !.esc = TRUE]
    [] OTHER -> [to |-> Append(r.to, IF r.esc THEN Flip(c) ELSE c), esc |-> FALSE]

rsp_unescape(data) ==
  LET r[k \in 0 .. Len(data)] ==
        IF k = 0 THEN [to |-> << >>, esc |-> FALSE] ELSE Unescaped(r[k - 1], data[k])
  IN r[Len(data)].to

\* get_packet takes packets shorter than its buffer less one, and the reply to
\* qSupported lets a client send no more than this in a packet of GDB_BUF_MAX.
Accepted(size) == size < GDB_BUF_MAX - 1
ClientMax      == GDB_BUF_MAX - 4

\* The client: words by bytes, bytes by two digits, special characters escaped.
BytesOf(text) == [k \in 1 .. Len(text) \div 2 |-> text[2 * k - 1] * Nibble + text[2 * k]]
WordOf(text)  ==
  Sum([k \in 1 .. WordBytes |-> BytesOf(text)[k] * Weight[2 * (k - 1)]], WordBytes)
TextOf(w)     == [n \in 1 .. Digits |->
                    LET b == Lane(w, (n - 1) \div 2)
                    IN IF n % 2 = 1 THEN b \div Nibble ELSE b % Nibble]
Escape(c)     == IF c \in Special THEN <<Brace, Flip(c)>> ELSE <<c>>
Escaped(p)    ==
  LET e[k \in 0 .. Len(p)] == IF k = 0 THEN << >> ELSE e[k - 1] \o Escape(p[k])
  IN e[Len(p)]

-----------------------------------------------------------------------------
(***************************************************************************)
(* The simulator.                                                          *)
(***************************************************************************)
get_pc(s) == (s.gpr[PC_REGNUM] - 4) % WordMod
set_pc(s, val) == [s EXCEPT !.gpr[PC_REGNUM] = SetLow((val + 4) % WordMod)]

\* Mutant: cyclesSinceCP keeps what was charged.
cpu_resetKeeps(s) ==
  LET pc == s.word[WordBytes]
  IN [s EXCEPT
        !.gpr = [r \in 0 .. PC_REGNUM |->
                   CASE r = GPR_SP -> s.word[0] - (s.word[0] % 4)
                     [] r = PC_REGNUM -> pc
                     [] OTHER -> 0],
        !.apsr = 0,
        !.mmio["wastedCycles"] = (@ + s.mmio["cyclesSinceCP"]) % WordMod,
        !.mmio["wdt_val"] = 0,
        !.exited = pc % 2 = 0]

\* The registers and counters of a reset; an even vector ends the simulation.
cpu_reset(s) ==
  LET pc == s.word[WordBytes]
  IN [s EXCEPT
        !.gpr = [r \in 0 .. PC_REGNUM |->
                   CASE r = GPR_SP -> s.word[0] - (s.word[0] % 4)
                     [] r = PC_REGNUM -> pc
                     [] OTHER -> 0],
        !.apsr = 0,
        !.mmio["wastedCycles"] = (@ + s.mmio["cyclesSinceCP"]) % WordMod,
        !.mmio["cyclesSinceCP"] = 0, !.mmio["wdt_val"] = 0,
        !.exited = pc % 2 = 0]

\* Mutant: the request stays.
sim_commandAgain(s) ==
  IF s.mmio["do_reset"] = 0 THEN s
  ELSE LET r == cpu_reset(s) IN [r EXCEPT !.gpr[PC_REGNUM] = (@ + 4) % WordMod]

\* sim_command, and the same lines of simStoreData.
sim_command(s) ==
  IF s.mmio["do_reset"] = 0 THEN s
  ELSE LET r == cpu_reset(s)
       IN [r EXCEPT !.gpr[PC_REGNUM] = (@ + 4) % WordMod, !.mmio["do_reset"] = 0]

\* The upper ends are inclusive, so two addresses pass that are in no memory;
\* reading or writing one of them ends the simulation.
simValidMem(a) ==
  \/ a \in RAM_START .. RAM_START + RAM_SIZE
  \/ a \in 0 .. FLASH_SIZE
  \/ a \in MmioSpace
Mapped(a) == a \in Memory \cup MmioSpace

simDebugRead(s, a) ==
  Lane(IF a \in MmioSpace THEN s.mmio[Name(a)] ELSE s.word[Aligned(a)], a % WordBytes)
simDebugWrite(s, a, b) ==
  CASE a \in MmioSpace -> sim_command([s EXCEPT !.mmio[Name(a)] = Put(@, a % WordBytes, b)])
    [] a \in Memory    -> [s EXCEPT !.word[Aligned(a)] = Put(@, a % WordBytes, b)]
    [] OTHER           -> [s EXCEPT !.exited = TRUE]

\* simStoreData to the mmio table: the low byte is cleared, the value is ored in.
simStoreData(s, a, value) ==
  CASE a \in MmioSpace ->
         sim_command([s EXCEPT !.mmio[Name(a)] = Or(Put(@, 0, 0), value)])
    [] a \in Memory -> [s EXCEPT !.word[a] = value]
    [] OTHER -> [s EXCEPT !.exited = TRUE]
\* What follows the store in the instruction and the loop, with the watchdog off.
Advance(s) ==
  [s EXCEPT !.gpr[PC_REGNUM] = (@ + 2) % WordMod,
            !.mmio["cyclesSinceCP"] = (@ + TIMING_MEM) % WordMod]

-----------------------------------------------------------------------------
(***************************************************************************)
(* The requests.  last is the request and its reply; known is a history    *)
(* variable, what the client has reason to believe of registers and bytes, *)
(* -1 where it has none.                                                   *)
(***************************************************************************)
OK        == [kind |-> "OK", text |-> << >>]
E01       == [kind |-> "E01", text |-> << >>]
S05       == [kind |-> "S05", text |-> << >>]
NoReply   == [kind |-> "none", text |-> << >>]
Data(t)   == [kind |-> "data", text |-> t]
Request(op, where, size, reply) == [op |-> op, where |-> where, size |-> size, reply |-> reply]

Forgets(f, places) == [x \in DOMAIN f |-> IF x \in places THEN -1 ELSE f[x]]
Learns(f, g)       == [x \in DOMAIN f |-> IF x \in DOMAIN g THEN g[x] ELSE f[x]]
\* After a reset the client reads the registers and the mmio words again.
KnownAfterReset(k) == [reg |-> Forgets(k.reg, Regs), byte |-> Forgets(k.byte, MmioSpace)]

Init ==
  /\ sim = [gpr  |-> [r \in 0 .. PC_REGNUM |-> IF r = PC_REGNUM THEN 7 ELSE r],
            apsr |-> 1,
            word |-> [a \in Words |-> IF a = 0 THEN RAM_START ELSE a + 1],
            mmio |-> [n \in MmioNames |-> IF n = "do_reset" THEN 0 ELSE 3],
            exited |-> FALSE]
  /\ last = Request("start", 0, 0, NoReply)
  /\ known = [reg |-> [r \in Regs |-> -1], byte |-> [a \in Memory \cup MmioSpace |-> -1]]
  /\ steps = 0

\* A register as the client sees it; it drops the Thumb bit of the PC.
Register(s, r) ==
  CASE r < MAX_GPRS -> s.gpr[r] [] r = PC_REGNUM -> get_pc(s) [] OTHER -> s.apsr
RegText(s, r)  == reg2hex(Register(s, r))
Believed(r, w) == IF r = PC_REGNUM THEN w - (w % 2) ELSE w

rsp_read_reg(r) ==
  LET text == RegText(sim, r) IN
  /\ last' = Request("p", r, 1, IF r \in Regs THEN Data(text) ELSE E01)
  /\ known' = IF r \in Regs THEN [known EXCEPT !.reg[r] = Believed(r, WordOf(text))] ELSE known
  /\ UNCHANGED sim

rsp_read_all_regs ==
  LET text == [n \in 1 .. NUM_REGS * Digits |->
                RegText(sim, (n - 1) \div Digits)[((n - 1) % Digits) + 1]]
      w(r) == WordOf(SubSeq(text, r * Digits + 1, (r + 1) * Digits))
  IN /\ last' = Request("g", 0, NUM_REGS, Data(text))
     /\ known' = [known EXCEPT !.reg = Learns(@, [r \in 0 .. PC_REGNUM |-> Believed(r, w(r))])]
     /\ UNCHANGED sim

\* A write of CPSR is answered and does nothing.
rsp_write_reg(r, value) ==
  LET v == hex2reg(TextOf(value)) IN
  /\ last' = Request("P", r, 1, IF r \in Regs THEN OK ELSE E01)
  /\ sim' = CASE r \in 0 .. MAX_GPRS - 1 -> [sim EXCEPT !.gpr[r] = v]
              [] r = PC_REGNUM -> set_pc(sim, v)
              [] OTHER -> sim
  /\ known' = CASE r = CPSR_REGNUM -> [known EXCEPT !.reg[r] = -1]
                [] r \in 0 .. PC_REGNUM -> [known EXCEPT !.reg[r] = Believed(r, value)]
                [] OTHER -> known

\* Mutant: the bound is compared in bytes.
ClampBytes(len) == IF len >= GDB_BUF_MAX THEN (GDB_BUF_MAX - 1) \div 2 ELSE len
Clamp(len) == IF 2 * len >= GDB_BUF_MAX THEN (GDB_BUF_MAX - 1) \div 2 ELSE len
\* The bytes before the first address that is in no memory.
Reachable(addr, len) ==
  CHOOSE n \in 0 .. len : /\ \A off \in 0 .. n - 1 : Mapped(addr + off)
                          /\ n < len => ~Mapped(addr + n)

rsp_read_mem(addr, asked) ==
  LET len  == Clamp(asked)
      good == Reachable(addr, len)
      text == [n \in 1 .. 2 * good |->
                LET b == simDebugRead(sim, addr + ((n - 1) \div 2))
                IN IF n % 2 = 1 THEN b \div Nibble ELSE b % Nibble]
  IN \/ /\ good = len
        /\ last' = Request("m", addr, len, Data(text))
        /\ known' = [known EXCEPT !.byte =
                       Learns(@, [a \in addr .. addr + len - 1 |-> BytesOf(text)[a - addr + 1]])]
        /\ UNCHANGED sim
     \/ /\ good < len
        /\ last' = Request("m", addr, len, IF simValidMem(addr + good) THEN NoReply ELSE E01)
        /\ sim' = [sim EXCEPT !.exited = simValidMem(addr + good)]
        /\ UNCHANGED known

\* The bytes are written one by one up to the first address refused, each with
\* what sim_command then does.
WriteByte(w, b) ==
  CASE w.refused \/ w.sim.exited -> w
    [] ~w.refused /\ ~w.sim.exited /\ ~simValidMem(w.addr) -> [w EXCEPT !.refused = TRUE]
    [] OTHER -> [w EXCEPT !.sim = simDebugWrite(w.sim, w.addr, b), !.addr = w.addr + 1]
Writes(addr, data) ==
  LET w[k \in 0 .. Len(data)] ==
        IF k = 0 THEN [sim |-> sim, addr |-> addr, refused |-> FALSE]
        ELSE WriteByte(w[k - 1], data[k])
  IN w[Len(data)]
Resets(addr, p) ==
  \E k \in DOMAIN p :
    addr + k - 1 \in MmioSpace /\ Name(addr + k - 1) = "do_reset" /\ p[k] # 0

rsp_write_mem_bin(addr, payload) ==
  LET size == HeaderSize + Len(Escaped(payload))
      w == Writes(addr, SubSeq(rsp_unescape(Escaped(payload)), 1, Len(payload)))
      there == (addr .. addr + Len(payload) - 1) \cap (Memory \cup MmioSpace)
      k == IF Resets(addr, payload) THEN KnownAfterReset(known) ELSE known
  IN /\ size <= ClientMax
     /\ \/ /\ ~Accepted(size)
           /\ last' = Request("X", addr, Len(payload), NoReply)
           /\ UNCHANGED <<sim, known>>
        \/ /\ Accepted(size)
           /\ sim' = w.sim
           /\ last' = Request("X", addr, Len(payload),
                              CASE w.sim.exited -> NoReply [] w.refused -> E01 [] OTHER -> OK)
           /\ known' = IF w.refused \/ Resets(addr, payload)
                       THEN [k EXCEPT !.byte = Forgets(@, there)]
                       ELSE [k EXCEPT !.byte =
                               Learns(@, [a \in there |-> payload[a - addr + 1]])]

\* A single step over str r0, [a]; the UART and SysTick lie behind the table.
rsp_step(a) ==
  LET s == simStoreData(sim, a, sim.gpr[0])
  IN /\ a < MEMMAPIO_START + MEMMAPIO_SIZE
     /\ sim' = IF s.exited THEN s ELSE Advance(s)
     /\ last' = Request("s", a, WordBytes, IF s.exited THEN NoReply ELSE S05)
     /\ known' = IF a \in Memory
                 THEN [reg |-> Forgets(known.reg, {PC_REGNUM}),
                       byte |-> Forgets(known.byte, MmioSpace \cup a .. a + WordBytes - 1)]
                 ELSE KnownAfterReset(known)

Next ==
  /\ ~sim.exited
  /\ steps < MaxSteps /\ steps' = steps + 1
  /\ \/ \E r \in Regs \cup {PC_REGNUM + 1} : rsp_read_reg(r) \/ \E v \in Values : rsp_write_reg(r, v)
     \/ rsp_read_all_regs
     \/ \E a \in Addrs : \/ \E len \in Lengths : rsp_read_mem(a, len)
                         \/ \E p \in Payloads : rsp_write_mem_bin(a, p)
                         \/ a % WordBytes = 0 /\ rsp_step(a)
Spec == Init /\ [][Next]_vars

-----------------------------------------------------------------------------
\* Everything stays a word, and no request leaves a reset pending.
TypeOK ==
  /\ \A r \in DOMAIN sim.gpr : sim.gpr[r] \in Word
  /\ \A a \in DOMAIN sim.word : sim.word[a] \in Word
  /\ \A n \in DOMAIN sim.mmio : sim.mmio[n] \in Word
  /\ sim.apsr \in Word /\ sim.exited \in BOOLEAN
  /\ ~sim.exited => sim.mmio["do_reset"] = 0

\* What the client reads, in any form and any pieces, is what it last wrote or
\* read there, unless the program ran or a reset came between: no request
\* changes what it does not name, and no conversion loses or swaps anything.
Agrees(belief, value) == belief \in {-1, value}
ReadsWhatWasWritten ==
  [][last'.reply.kind = "data" =>
       /\ \A r \in Regs : Agrees(known.reg[r], known'.reg[r])
       /\ \A a \in DOMAIN known.byte : Agrees(known.byte[a], known'.byte[a])]_vars

\* However many bytes of do_reset a request makes other than 0, the cycles since
\* the checkpoint are charged once: what is charged and to be charged stays the
\* same, and the processor is at its reset state.
ResetChargedOnce ==
  [][\A a \in Addrs \cap MmioSpace, p \in Payloads :
       Name(a) = "do_reset" /\ Resets(a, p) /\ rsp_write_mem_bin(a, p) /\ ~sim'.exited =>
         /\ sim'.mmio["wastedCycles"] =
              (sim.mmio["wastedCycles"] + sim.mmio["cyclesSinceCP"]) % WordMod
         /\ sim'.mmio["cyclesSinceCP"] = 0
         /\ get_pc(sim') = sim.word[WordBytes]]_vars

\* Every request that a client may send is answered, unless it ends the
\* simulation, and every reply fits its buffer with the 0 that ends it.
RequestsAndRepliesFit ==
  /\ last.reply.kind = "none" => last.op = "start" \/ sim.exited
  /\ Len(last.reply.text) < GDB_BUF_MAX
=============================================================================
