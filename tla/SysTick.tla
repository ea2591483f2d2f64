------------------------------- MODULE SysTick -------------------------------
(***************************************************************************)
(* The SysTick timer: four words from 0xE000E010, which the program loads  *)
(* and stores through the memory bus, and the ticks that exwbmem takes off *)
(* the counter after every instruction.  Loading the control word changes  *)
(* it, and a byte or halfword store is a load, a merge and a store.  The   *)
(* timer is no part of struct CPU, so an instruction that the watchdog     *)
(* rolls back has used up its ticks and done its loads and stores: here it *)
(* is one more instruction.                                                *)
(*                                                                         *)
(* A byte has ByteMod values, 256 in the code, and a word is four bytes.   *)
(* clock is a history variable: what the program saw when it last loaded   *)
(* the counter, and the ticks since.                                       *)
(***************************************************************************)
EXTENDS Integers

CONSTANTS
  ByteMod,
  CALIB,        \* CPU_FREQ / 100 | 0x80000000
  TIMING_MEM,   \* the ticks of a load or store
  Ticks,        \* those of all other instructions
  Longest,      \* no instruction takes more
  Offsets,      \* bound: the addresses the program uses, from 0xE000E010
  Data,         \* bound: the words it stores
  MaxSteps      \* bound: the instructions it runs

VARIABLES systick, exited, clock, steps
vars == <<systick, exited, clock, steps>>

Weight(k) == CASE k = 0 -> 1
               [] k = 1 -> ByteMod
               [] k = 2 -> ByteMod * ByteMod
               [] OTHER -> ByteMod * ByteMod * ByteMod
WordMod == ByteMod * Weight(3)
Word    == 0 .. WordMod - 1
Lane(w, k) == (w \div Weight(k)) % ByteMod

ENABLE    == 1
CLKSOURCE == 4
COUNTFLAG == Weight(2)  \* bit 16
Enabled(control)  == control % 2 = 1
Counted(control)  == Lane(control, 2) % 2 = 1

ASSUME SysTickAssumption ==
  /\ ByteMod \in Nat /\ ByteMod >= 8 /\ ByteMod % 8 = 0
  /\ CALIB \in Word
  /\ Longest \in Nat \ {0}
  /\ TIMING_MEM \in 1 .. Longest /\ Ticks \subseteq 1 .. Longest
  /\ Longest < Weight(3)
  /\ Offsets \subseteq 0 .. 15
  /\ Data \subseteq Word
  /\ MaxSteps \in Nat

NoClock == [valid |-> FALSE, read |-> 0, flag |-> FALSE, reload |-> 0, ticks |-> 0]

\* cpu_reset.
ResetValues == [control |-> CLKSOURCE, reload |-> 0, value |-> 0]
Init == systick = ResetValues /\ exited = FALSE /\ clock = NoClock /\ steps = 0

-----------------------------------------------------------------------------
(***************************************************************************)
(* The bus.  Offsets are from 0xE000E010; only the exact address of a      *)
(* register is compared, and misaligned words are not refused (MEM_CHECKS  *)
(* is 0).  SYST_CALIB cannot be stored.                                    *)
(***************************************************************************)
Aligned(o) == o - (o % 4)

\* simLoadData: the word, and what the load leaves behind.  It clears all of
\* the control word but COUNTFLAG.
Loaded(o) == CASE o \div 4 = 0 -> systick.control
               [] o \div 4 = 1 -> systick.reload
               [] o \div 4 = 2 -> systick.value
               [] OTHER        -> CALIB
AfterLoad(o) ==
  IF o = 0
  THEN [systick EXCEPT !.control = IF Counted(systick.control) THEN COUNTFLAG ELSE 0]
  ELSE systick

\* Mutant: one bit too many is kept.
StoredControlWide(word) ==
  LET low == word % (4 * COUNTFLAG)
      bit(n) == (low \div n) % 2
  IN low - 2 * bit(2) + CLKSOURCE * (1 - bit(4))
\* simStoreData: control keeps seventeen bits, of which bit 1 is cleared and
\* bit 2 set; reload keeps three bytes; any store clears value.
StoredControl(word) ==
  LET low == word % (2 * COUNTFLAG)
      bit(n) == (low \div n) % 2
  IN low - 2 * bit(2) + CLKSOURCE * (1 - bit(4))
Stored(s, o, word) ==
  CASE o = 0 -> [s EXCEPT !.control = StoredControl(word)]
    [] o = 4 -> [s EXCEPT !.reload = word % Weight(3)]
    [] o = 8 -> [s EXCEPT !.value = 0]
    [] OTHER -> s
CanStore(o) == o # 12

\* strb and strh merge into the word that was loaded.
MergeByte(w, k, data) == w - Lane(w, k) * Weight(k) + (data % ByteMod) * Weight(k)
MergeHalf(w, k, data) ==
  LET half == (w \div Weight(k)) % Weight(2)
  IN w - half * Weight(k) + (data % Weight(2)) * Weight(k)

-----------------------------------------------------------------------------
(***************************************************************************)
(* The end of exwbmem: t ticks of a timer in state s.                      *)
(***************************************************************************)
\* Mutants: reaching zero exactly does not count; the rest is not carried over.
TickLate(s, t) ==
  CASE ~Enabled(s.control) -> s
    [] Enabled(s.control) /\ t > s.value ->
         [s EXCEPT !.control = IF s.value > 0 /\ ~Counted(@) THEN @ + COUNTFLAG ELSE @,
                   !.value = (s.reload - t + s.value) % WordMod]
    [] OTHER -> [s EXCEPT !.value = @ - t]
TickShort(s, t) ==
  CASE ~Enabled(s.control) -> s
    [] Enabled(s.control) /\ t >= s.value ->
         [s EXCEPT !.control = IF s.value > 0 /\ ~Counted(@) THEN @ + COUNTFLAG ELSE @,
                   !.value = (s.reload - t) % WordMod]
    [] OTHER -> [s EXCEPT !.value = @ - t]

Tick(s, t) ==
  CASE ~Enabled(s.control) -> s
    [] Enabled(s.control) /\ t >= s.value ->
         [s EXCEPT !.control = IF s.value > 0 /\ ~Counted(@) THEN @ + COUNTFLAG ELSE @,
                   !.value = (s.reload - t + s.value) % WordMod]
    [] OTHER -> [s EXCEPT !.value = @ - t]

\* An instruction of t ticks that left the timer in state s, and the clock c.
Executed(s, c, t) ==
  /\ systick' = Tick(s, t)
  /\ clock' = IF c.valid THEN [c EXCEPT !.ticks = @ + t] ELSE c
  /\ UNCHANGED exited

sim_exit == exited' = TRUE /\ UNCHANGED <<systick, clock>>

\* A load.  The clock is set by one of the counter, while the timer runs with a
\* reload value no instruction exceeds.
Reading ==
  IF Enabled(systick.control) /\ systick.reload > Longest
  THEN [valid |-> TRUE, read |-> systick.value, flag |-> Counted(systick.control),
        reload |-> systick.reload, ticks |-> 0]
  ELSE NoClock
ldr(o) ==
  Executed(AfterLoad(o),
           CASE o = 0 -> NoClock [] o \div 4 = 2 -> Reading [] OTHER -> clock, TIMING_MEM)
ldrb(o) == ldr(Aligned(o))  \* and ldrh, ldrsb, ldrsh, which then take a lane

\* A store.  Stores to reload and to the counter, and to control, end the clock.
str(o, word) ==
  IF CanStore(o)
  THEN Executed(Stored(systick, o, word), IF o % 4 = 0 THEN NoClock ELSE clock, TIMING_MEM)
  ELSE sim_exit
strMerged(o, word) ==
  IF CanStore(o) THEN Executed(Stored(AfterLoad(o), o, word), NoClock, TIMING_MEM)
                 ELSE sim_exit
\* Mutant: merges into the control word as the load left it.
strbAfter(o, data) ==
  LET a == Aligned(o)
      w == IF a = 0 THEN AfterLoad(a).control ELSE Loaded(a)
  IN strMerged(a, MergeByte(w, o % 4, data))
strb(o, data) ==
  strMerged(Aligned(o), MergeByte(Loaded(Aligned(o)), o % 4, data))
strh(o, data) ==
  strMerged(Aligned(o), MergeHalf(Loaded(Aligned(o)), IF o % 4 >= 2 THEN 2 ELSE 0, data))

other(t) == Executed(systick, clock, t)

\* The debugger's reset, between two instructions: its memory commands do not
\* reach the timer (simValidMem), but cpu_reset does.
cpu_reset == systick' = ResetValues /\ clock' = NoClock /\ UNCHANGED exited

Next ==
  /\ ~exited
  /\ steps < MaxSteps /\ steps' = steps + 1
  /\ \/ \E o \in Offsets : ldr(o) \/ ldrb(o)
     \/ \E o \in Offsets, d \in Data : str(o, d) \/ strb(o, d) \/ strh(o, d)
     \/ \E t \in Ticks : other(t)
     \/ cpu_reset
Spec == Init /\ [][Next]_vars

-----------------------------------------------------------------------------
\* The control word stays in its seventeen bits and reload in its three bytes,
\* whatever a merge of bytes stores.  The counter is a word: an instruction
\* longer than reload takes it below zero, and it wraps.
TypeOK ==
  /\ systick \in [control : 0 .. 2 * COUNTFLAG - 1, reload : 0 .. Weight(3) - 1,
                  value : Word]
  /\ exited \in BOOLEAN
  /\ clock \in [valid : BOOLEAN, read : Word, flag : BOOLEAN,
                reload : 0 .. Weight(3) - 1, ticks : Nat]
  /\ steps \in 0 .. MaxSteps

\* A program that loads the counter twice measures the ticks in between, up to
\* whole periods, whatever instructions came between and however they met zero;
\* and COUNTFLAG tells whether the counter has reached zero since.
KeepsTime ==
  clock.valid =>
    /\ Enabled(systick.control) /\ systick.reload = clock.reload
    /\ \E n \in 0 .. clock.ticks :
         systick.value + clock.ticks = clock.read + n * clock.reload
    /\ clock.read > 0 =>
         (Counted(systick.control) <=> clock.flag \/ clock.ticks >= clock.read)
    /\ clock.ticks >= clock.read => systick.value \in 0 .. clock.reload

\* A byte store to one byte of control does not stop or start the timer with
\* another, although the load it begins with stops it; nor does one to reload
\* change another byte of it.
ByteStoresKeepTheRest ==
  [][\A o \in Offsets \cap 1 .. 7, d \in Data :
       strb(o, d) =>
         /\ o < 4 => Enabled(systick'.control) = Enabled(systick.control)
         /\ o > 4 => \A k \in 0 .. 2 \ {o - 4} :
                      Lane(systick'.reload, k) = Lane(systick.reload, k)]_vars
=============================================================================
