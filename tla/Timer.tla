------------------------------- MODULE Timer -------------------------------
(***************************************************************************)
(* How the kernel finds out how fast the local APIC timer runs, and what   *)
(* it then arms that timer with: init_apic (src/src/interrupts.rs) lets    *)
(* the timer count TIMER_DELAY down while channel 0 of the interval timer  *)
(* (src/src/drivers/pit.rs) counts at PIT_DIVIDEND ticks a second, reads   *)
(* the interval timer when the interrupt has come and stores a frequency;  *)
(* start_timer_one_shot turns that frequency into the count of a slice.    *)
(* kernel_main is one thread of control; the two clocks run beside it, and *)
(* so do the interrupts of vector 33, which is the local APIC timer's and, *)
(* until pic::disable, the keyboard's.  How the others interleave with it  *)
(* is module Kernel's.                                                     *)
(***************************************************************************)
EXTENDS Integers, Sequences

CONSTANTS
    Byte,                   \* values of a byte: 256
    Word,                   \* values of a u32: 2^32
    Micro,                  \* microseconds of a second: 1000000
    PIT_DIVIDEND,           \* ticks of the interval timer in a second: 1193182
    PIT_FREQUENCY_HZ,       \* what pit::init asks for: 1000
    SCHEDULER_TIMER_DELAY,  \* the slice asked for, in microseconds: 1000000
    MaxTicks,               \* bound: ticks of the interval timer since it was loaded
    None                    \* no value yet

TIMER_DELAY == Byte * Byte - 1

ASSUME TimerAssumption ==
    /\ Byte \in Nat /\ Byte > 1 /\ Word \in Nat /\ Word > 0
    /\ Micro \in Nat /\ Micro > 0 /\ PIT_DIVIDEND \in Nat /\ PIT_DIVIDEND >= Micro
    /\ PIT_FREQUENCY_HZ \in 1 .. PIT_DIVIDEND
    /\ PIT_DIVIDEND \div PIT_FREQUENCY_HZ < TIMER_DELAY /\ SCHEDULER_TIMER_DELAY \in Nat
    /\ MaxTicks \in Nat /\ None \notin Int

\* No count the calibration can lead to loses all its bits in the cast to u32.
ASSUME SliceAssumption ==
    \A m \in 1 .. (TIMER_DELAY * PIT_DIVIDEND) \div Micro :
        (SCHEDULER_TIMER_DELAY * m) % Word # 0

\* set_frequency: the divisor, rounded to the nearest.
Divisor(frequency) ==
    PIT_DIVIDEND \div frequency
    + (IF PIT_DIVIDEND % frequency > frequency \div 2 THEN 1 ELSE 0)

\* What kernel_main does to the timers, in order: init_apic with
\* write_channel0_count and read_pit_count, pit::init, start_timer_one_shot.
\* The first ten are init_apic's, from behind LAPIC.replace on.
Program == <<"mode", "low", "high", "enable", "disable", "wait", "latch", "read_low",
             "read_high", "store", "mode", "low", "high", "arm">>

VARIABLES
    pc,                    \* the step of Program kernel_main is at
    reload, counter,       \* channel 0: the count written and where it is now
    latch,                 \* the count a latch command holds for reading
    written, low,          \* the first byte of a count, written or read
    end,                   \* what read_pit_count returned
    APIC_TIMER_FREQUENCY,
    TRIGGERED_ONCE,
    armed, irr, initial,   \* the local APIC timer counts; it asks for its interrupt;
                           \* its initial count
    ticks,                 \* history: ticks of channel 0 since it was loaded
    took, elapsed,         \* history: ticks until the timer expired; until the latch
    keyed                  \* history: a key came in on vector 33

pitVars   == <<reload, counter, latch, written, ticks>>
readVars  == <<low, end, elapsed>>
wakeVars  == <<TRIGGERED_ONCE, irr, took, keyed>>
apicVars  == <<APIC_TIMER_FREQUENCY, armed, initial, wakeVars>>
timerVars == <<pc, pitVars, readVars, apicVars>>

TimerInit ==
    /\ pc = 1 /\ ticks = 0 /\ APIC_TIMER_FREQUENCY = 0
    /\ TRIGGERED_ONCE = FALSE /\ armed = FALSE /\ irr = FALSE /\ keyed = FALSE
    /\ reload = None /\ counter = None /\ latch = None /\ written = None
    /\ low = None /\ end = None /\ initial = None /\ took = None /\ elapsed = None

At(op) == pc <= Len(Program) /\ Program[pc] = op
Goto   == pc' = pc + 1

Panicked == pc = Len(Program) + 2
Running  == pc = Len(Program) + 1

\* set_pit_count and read_pit_count run without_interrupts.
Masked == At("high") \/ At("read_low") \/ At("read_high")

\* init_apic has put apic_timer_handler in the place of apic_timer_config_handler.
Installed == pc > 10 /\ ~Panicked

----------------------------------------------------------------------------
\* The interval timer, from what pit.rs asks of it (external).

\* A rate generator counts from reload down to 1 and starts again.
Tick ==
    /\ counter # None /\ ticks < MaxTicks
    /\ counter' = IF counter = 1 THEN reload ELSE counter - 1
    /\ ticks' = ticks + 1
    /\ UNCHANGED <<pc, reload, latch, written, readVars, apicVars>>

\* What a read of the data port sees: the latched count if there is one.
DataPort == IF latch = None THEN counter ELSE latch

\* The local APIC timer at whatever rate it has: it expires once it counts
\* and was given a count at all (external).
Expire ==
    /\ armed /\ initial # 0
    /\ armed' = FALSE /\ irr' = TRUE
    /\ took' = IF took = None /\ elapsed = None THEN ticks ELSE took
    /\ UNCHANGED <<pc, pitVars, readVars, APIC_TIMER_FREQUENCY, initial,
                   TRIGGERED_ONCE, keyed>>

----------------------------------------------------------------------------
\* apic_timer_config_handler, for the interrupt of the timer.
ConfigInterrupt ==
    /\ irr /\ ~Installed /\ ~Masked
    /\ irr' = FALSE /\ TRIGGERED_ONCE' = TRUE
    /\ UNCHANGED <<pc, pitVars, readVars, APIC_TIMER_FREQUENCY, armed, initial, took, keyed>>

\* The same handler, for a key: IRQ 1 of the PIC has the timer's vector.
KeyInterrupt ==
    /\ pc <= 5 /\ ~Masked
    /\ TRIGGERED_ONCE' = TRUE /\ keyed' = TRUE
    /\ UNCHANGED <<pc, pitVars, readVars, APIC_TIMER_FREQUENCY, armed, initial, irr, took>>

----------------------------------------------------------------------------
\* write_mode: a new mode, and the channel waits for its count.
WriteMode ==
    /\ At("mode") /\ Goto
    /\ counter' = None /\ reload' = None /\ latch' = None /\ ticks' = 0
    /\ UNCHANGED <<written, readVars, apicVars>>

\* The u16 write_channel0_count and set_frequency pass on.
Count == IF pc <= 10 THEN TIMER_DELAY ELSE Divisor(PIT_FREQUENCY_HZ) % (Byte * Byte)

\* set_pit_count: the low byte, then the high byte, which loads the counter.
WriteLow ==
    /\ At("low") /\ Goto
    /\ written' = Count % Byte
    /\ UNCHANGED <<reload, counter, latch, ticks, readVars, apicVars>>

WriteHigh ==
    /\ At("high") /\ Goto
    /\ reload' = written + Byte * (Count \div Byte)
    /\ counter' = reload' /\ ticks' = 0
    /\ UNCHANGED <<latch, written, readVars, apicVars>>

\* init_apic: the timer has TIMER_DELAY to count, and is enabled.
EnableApic ==
    /\ At("enable") /\ Goto
    /\ armed' = TRUE /\ initial' = TIMER_DELAY
    /\ UNCHANGED <<pitVars, readVars, APIC_TIMER_FREQUENCY, wakeVars>>

\* pic::disable: no key comes in on vector 33 from now on.
DisablePic ==
    /\ At("disable") /\ Goto
    /\ UNCHANGED <<pitVars, readVars, apicVars>>

\* The loop on TRIGGERED_ONCE, which apic_timer_config_handler sets, whichever
\* interrupt it serves.
WaitTriggered ==
    /\ At("wait") /\ TRIGGERED_ONCE /\ Goto
    /\ UNCHANGED <<pitVars, readVars, apicVars>>

\* read_pit_count: the latch command, the low byte, the high byte.
LatchCount_Skipped ==
    /\ At("latch") /\ Goto
    /\ elapsed' = ticks
    /\ UNCHANGED <<pitVars, low, end, apicVars>>

LatchCount ==
    /\ At("latch") /\ Goto
    /\ latch' = counter /\ elapsed' = ticks
    /\ UNCHANGED <<reload, counter, written, ticks, low, end, apicVars>>

ReadLow ==
    /\ At("read_low") /\ Goto
    /\ low' = DataPort % Byte
    /\ UNCHANGED <<pitVars, end, elapsed, apicVars>>

ReadHigh ==
    /\ At("read_high") /\ Goto
    /\ end' = low + Byte * (DataPort \div Byte)
    /\ latch' = None
    /\ UNCHANGED <<reload, counter, written, ticks, low, elapsed, apicVars>>

\* The local APIC timer's counts in a second, from the ticks that TIMER_DELAY
\* of them took.
Frequency_FromEnd(e) == (TIMER_DELAY \div e) * PIT_DIVIDEND
Frequency_Upturned(e) == ((TIMER_DELAY - e) \div TIMER_DELAY) * PIT_DIVIDEND
Frequency(e) == (TIMER_DELAY \div (TIMER_DELAY - e)) * PIT_DIVIDEND

\* init_apic's last lines.  No tick counted is a division by zero: a panic.
StoreFrequency ==
    /\ At("store")
    /\ IF end = TIMER_DELAY
         THEN pc' = Len(Program) + 2 /\ UNCHANGED APIC_TIMER_FREQUENCY
         ELSE Goto /\ APIC_TIMER_FREQUENCY' = Frequency(end)
    /\ UNCHANGED <<pitVars, readVars, armed, initial, wakeVars>>

\* start_timer_one_shot(us): whole counts in a microsecond, and a u32.
OneShot(us, frequency) == (us * (frequency \div Micro)) % Word

StartTimer ==
    /\ At("arm") /\ Goto
    /\ armed' = TRUE
    /\ initial' = OneShot(SCHEDULER_TIMER_DELAY, APIC_TIMER_FREQUENCY)
    /\ UNCHANGED <<pitVars, readVars, APIC_TIMER_FREQUENCY, wakeVars>>

\* apic_timer_handler calls restart_apic, which arms the timer again, and
\* switches tasks.  If the calibration ended early, the timer may still expire
\* before kernel_main gets to arm it; kernel_main is then never resumed.
RestartApic ==
    /\ irr /\ Installed /\ ~Masked
    /\ irr' = FALSE /\ armed' = TRUE
    /\ initial' = OneShot(SCHEDULER_TIMER_DELAY, APIC_TIMER_FREQUENCY)
    /\ pc' = Len(Program) + 1
    /\ UNCHANGED <<pitVars, readVars, APIC_TIMER_FREQUENCY, TRIGGERED_ONCE, took, keyed>>

\* panic: the kernel halts for good.
Halted == Panicked /\ UNCHANGED timerVars

TimerNext ==
    \/ Tick \/ Expire \/ ConfigInterrupt \/ KeyInterrupt
    \/ WriteMode \/ WriteLow \/ WriteHigh \/ EnableApic \/ DisablePic \/ WaitTriggered
    \/ LatchCount \/ ReadLow \/ ReadHigh \/ StoreFrequency
    \/ StartTimer \/ RestartApic \/ Halted

TimerSpec == TimerInit /\ [][TimerNext]_timerVars

----------------------------------------------------------------------------
\* What read_pit_count returned is where the counter stood at one moment,
\* though it ticks between the two byte reads: the ticks init_apic computes
\* from it (interrupts.rs:86) are those that went by until the latch command,
\* modulo the counter's period; only a whole number of periods divides by 0.
ReadIsOneMoment ==
    /\ end # None => TIMER_DELAY - end = elapsed % TIMER_DELAY
    /\ Panicked => elapsed % TIMER_DELAY = 0

\* A slice is never armed with 0: the local APIC would not count at all, and
\* the running task would keep the processor (start_timer_one_shot, whose
\* division rounds down twice and whose cast drops high bits).
NeverArmedWithZero == Running => initial # 0

\* The slice asked for, and one of c counts, in the same small unit: the APIC
\* counts TIMER_DELAY in t ticks of the interval timer.
Asked == SCHEDULER_TIMER_DELAY * PIT_DIVIDEND * TIMER_DELAY
Slice(c, t) == c * t * Micro

\* If the calibration saw the interval timer through less than one period:
\* unless a key pressed before pic::disable set TRIGGERED_ONCE and ended the
\* loop of init_apic before the timer had expired, the slice
\* start_timer_one_shot arms is never longer than the one asked for; and in any
\* case, unless the cast drops bits, it is longer than a quarter of it by the
\* calibration's own measure: the two divisions that round down cost no more.
SliceWithinRequest ==
    Running /\ elapsed < TIMER_DELAY =>
        /\ IF took = None THEN keyed ELSE Slice(initial, took) <= Asked
        /\ SCHEDULER_TIMER_DELAY * (APIC_TIMER_FREQUENCY \div Micro) < Word =>
               4 * Slice(initial, elapsed) > Asked

=============================================================================
