-------------------------------- MODULE BoardIo --------------------------------
(***************************************************************************)
(* The small controllers of the board, each with its own registers: the    *)
(* pins (artosyn_gpio.c), the converter behind the buttons (artosyn_adc.c),*)
(* the temperature sensor (artosyn_protemp.c) and the pulses of backlight  *)
(* and buzzer (artosyn_pwm.c).  They share nothing, so each has a          *)
(* next-state relation of its own.                                         *)
(***************************************************************************)
EXTENDS Integers, Sequences, FiniteSets, SequencesExt, FiniteSetsExt

CONSTANTS
  Lines,        \* global numbers of the lines that have a client, each its own
  BootLines,    \* of the lines without a client, those the bootloader drives high
  Channel,      \* of the converter
  Reader,       \* threads that read it
  Input,        \* the code of each channel's pin
  RefCode,      \* the code of each channel for the reference voltage
  Warmup,       \* AR_ADC_WARMUP_READS
  SampCount,    \* samp-count of the converter
  Codes,        \* the codes the temperature moves through
  TempCount,    \* samp-count of the sensor
  Moves,        \* how often the code moves during a burst
  Pulse,        \* requests: [period, duty] in ns
  RateNum, RateDen  \* the clock over 10^9, in lowest terms

VARIABLES
  dirin, set,   \* the registers, as sets of <<bank, offset>>
  dir_shadow, out_shadow,
  asked,        \* what each line's client has asked for: "none", "in", "low" or "high"
  hand,         \* lines whose direction is still to be written by dir_out
  turned,       \* banks of which a direction has been written
  adc,          \* the converter: [chan, calib, gate, stale, held]
  adc_lock, at, want, left, code, code_ref,
  temp, shown, buf, lo, moved,
  pwm           \* [off, on, ctrl]

pinVars == <<dirin, set, dir_shadow, out_shadow, asked, hand, turned>>
adcVars == <<adc, adc_lock, at, want, left, code, code_ref>>
tempVars == <<temp, shown, buf, lo, moved>>

(***************************************************************************)
(* The pins.                                                               *)
(***************************************************************************)
ar_banks == <<<<0, 23>>, <<23, 22>>, <<45, 26>>, <<71, 6>>, <<77, 6>>, <<83, 11>>, <<94, 16>>>>

\* ar_gpio_of_xlate of bank b takes line number n
Takes(b, n) == n \in ar_banks[b][1]..(ar_banks[b][1] + ar_banks[b][2] - 1)

\* gpiolib asks the banks in turn
Bit(n) == LET b == CHOOSE b \in 1..7 : Takes(b, n) IN <<b, n - ar_banks[b][1]>>

Levels == {"low", "high"}
All == {Bit(n) : n \in Lines \cup BootLines}
OfBank(b, bits) == {x \in bits : x[1] = b}

\* A write of a bank's shadow to its register
Stored(b, reg, shadow) == (reg \ OfBank(b, All)) \cup OfBank(b, shadow)

\* SET reads as the latch of the outputs, and as the pins of the inputs
Latch == {Bit(n) : n \in BootLines}

PinInit ==
  /\ dirin = All \ {Bit(n) : n \in BootLines} /\ set = {Bit(n) : n \in BootLines}
  /\ dir_shadow = All /\ out_shadow = Latch
  /\ asked = [n \in Lines |-> "none"] /\ hand = {} /\ turned = {}

\* The store of ar_gpio_set
Driven(n, v) ==
  /\ out_shadow' = IF v = "high" THEN out_shadow \cup {Bit(n)} ELSE out_shadow \ {Bit(n)}
  /\ set' = Stored(Bit(n)[1], set, out_shadow')

ar_gpio_set(n, v) ==
  /\ asked[n] \in Levels /\ n \notin hand
  /\ Driven(n, v) /\ asked' = [asked EXCEPT ![n] = v]
  /\ UNCHANGED <<dirin, dir_shadow, hand, turned>>

Turned(n, shadow) ==
  /\ dir_shadow' = shadow
  /\ dirin' = Stored(Bit(n)[1], dirin, shadow)
  /\ turned' = turned \cup {Bit(n)[1]}

ar_gpio_dir_in(n) ==
  /\ n \notin hand
  /\ Turned(n, dir_shadow \cup {Bit(n)}) /\ asked' = [asked EXCEPT ![n] = "in"]
  /\ UNCHANGED <<set, out_shadow, hand>>

\* The value first, and the direction in a lock section of its own
ar_gpio_dir_out(n, v) ==
  /\ n \notin hand
  /\ Driven(n, v) /\ asked' = [asked EXCEPT ![n] = v] /\ hand' = hand \cup {n}
  /\ UNCHANGED <<dirin, dir_shadow, turned>>

DirOutEnds(n) ==
  /\ n \in hand /\ hand' = hand \ {n}
  /\ Turned(n, dir_shadow \ {Bit(n)})
  /\ UNCHANGED <<set, out_shadow, asked>>

PinNext ==
  \E n \in Lines : \/ ar_gpio_dir_in(n) \/ DirOutEnds(n)
                   \/ \E v \in Levels : ar_gpio_set(n, v) \/ ar_gpio_dir_out(n, v)

(***************************************************************************)
(* The converter.  A new selection shows only after some reads.            *)
(***************************************************************************)
Held == IF adc.calib THEN RefCode[adc.chan] ELSE Input[adc.chan]

\* A read of DATA: what it gives, and the converter after it
Data == IF adc.stale = 0 /\ adc.gate THEN Held ELSE adc.held
Read == [adc EXCEPT !.stale = IF @ > 0 /\ adc.gate THEN @ - 1 ELSE @, !.held = Data]

AdcInit ==
  /\ adc = [chan |-> CHOOSE c \in Channel : TRUE, calib |-> FALSE, gate |-> FALSE,
            stale |-> 0, held |-> 0]
  /\ adc_lock = "calibrate"
  /\ at = [r \in Reader \cup {"calibrate"} |-> IF r = "calibrate" THEN "locked" ELSE "idle"]
  /\ want \in [Reader \cup {"calibrate"} -> {CHOOSE c \in Channel : TRUE}]
  /\ left = [r \in Reader \cup {"calibrate"} |-> 0]
  /\ code = [r \in Reader \cup {"calibrate"} |-> 0]
  /\ code_ref = [c \in Channel |-> 0]

\* ar_adc_read_raw waits for the lock
ar_adc_read_raw(r, c) ==
  /\ at[r] \in {"idle", "out"} /\ at["calibrate"] = "out"
  /\ at' = [at EXCEPT ![r] = "lock"] /\ want' = [want EXCEPT ![r] = c]
  /\ UNCHANGED <<adc, adc_lock, left, code, code_ref>>

Lock(r) ==
  /\ at[r] = "lock" /\ adc_lock = "none"
  /\ adc_lock' = r /\ at' = [at EXCEPT ![r] = "locked"]
  /\ UNCHANGED <<adc, want, left, code, code_ref>>

\* ar_adc_sample selects the channel and opens the gate; at the probe
\* ar_adc_calibrate has set the calibration bit before.
Select(r) ==
  /\ at[r] = "locked"
  /\ adc' = [adc EXCEPT !.chan = want[r], !.gate = TRUE, !.stale = Warmup,
                        !.calib = (r = "calibrate")]
  /\ at' = [at EXCEPT ![r] = "read"] /\ left' = [left EXCEPT ![r] = Warmup + SampCount]
  /\ code' = [code EXCEPT ![r] = 0]
  /\ UNCHANGED <<adc_lock, want, code_ref>>

Sample(r) ==
  /\ at[r] = "read" /\ left[r] > 0
  /\ adc' = Read /\ left' = [left EXCEPT ![r] = @ - 1]
  /\ code' = [code EXCEPT ![r] = IF left[r] > SampCount THEN 0 ELSE @ + Data]
  /\ UNCHANGED <<adc_lock, at, want, code_ref>>

\* The gate closes; the lock goes with it, or calibrates the next channel.
SampleEnds(r) ==
  /\ at[r] = "read" /\ left[r] = 0
  /\ adc' = [adc EXCEPT !.gate = FALSE, !.calib = FALSE]
  /\ code' = [code EXCEPT ![r] = @ \div SampCount]
  /\ IF r # "calibrate" THEN at' = [at EXCEPT ![r] = "out"] /\ adc_lock' = "none"
                             /\ UNCHANGED <<want, code_ref>>
     ELSE /\ code_ref' = [code_ref EXCEPT ![want[r]] = code'[r]]
          /\ IF \E c \in Channel : code_ref'[c] = 0
               THEN /\ want' = [want EXCEPT ![r] = CHOOSE c \in Channel : code_ref'[c] = 0]
                    /\ at' = [at EXCEPT ![r] = "locked"] /\ UNCHANGED adc_lock
               ELSE at' = [at EXCEPT ![r] = "out"] /\ adc_lock' = "none" /\ UNCHANGED want
  /\ UNCHANGED left

AdcNext ==
  \/ \E r \in Reader, c \in Channel : ar_adc_read_raw(r, c)
  \/ \E r \in Reader \cup {"calibrate"} : Lock(r) \/ Select(r) \/ Sample(r) \/ SampleEnds(r)

\* DIV_ROUND_CLOSEST, and a division that cuts off
Cut(x, d) == IF x < 0 THEN -((-x) \div d) ELSE x \div d
Closest(x, d) == Cut(IF x > 0 THEN x + d \div 2 ELSE x - d \div 2, d)

ar_adc_code_to_mv(ref, c) ==
  IF ref =< 0 \/ ref >= 1024 THEN (c * 2113) \div 1024
  ELSE 894 + Closest((c - ref) * (2113 - 894), 1024 - ref)

(***************************************************************************)
(* The temperature: nine bits that move between the reads of their halves. *)
(***************************************************************************)
TempInit ==
  /\ temp \in Codes /\ shown = {temp} /\ buf = <<>> /\ lo = -1 /\ moved = 0

TempMoves ==
  /\ moved < Moves /\ Len(buf) < TempCount
  /\ \E t \in Codes \cap {temp - 1, temp + 1} : temp' = t /\ shown' = shown \cup {t}
  /\ moved' = moved + 1 /\ UNCHANGED <<buf, lo>>

ReadLo ==
  /\ lo = -1 /\ Len(buf) < TempCount
  /\ lo' = temp % 256 /\ UNCHANGED <<temp, shown, buf, moved>>

ReadHi ==
  /\ lo # -1
  /\ buf' = Append(buf, lo + 256 * ((temp \div 256) % 2)) /\ lo' = -1
  /\ UNCHANGED <<temp, shown, moved>>

\* The next burst
TempAgain ==
  /\ Len(buf) = TempCount
  /\ buf' = <<>> /\ lo' = -1 /\ moved' = 0 /\ shown' = {temp} /\ UNCHANGED temp

TempNext == TempMoves \/ ReadLo \/ ReadHi \/ TempAgain

ar_protemp_reduce(s) ==
  IF Len(s) =< 3 THEN FoldLeft(LAMBDA x, y : x + y, 0, s) \div Len(s)
  ELSE LET sorted == SortSeq(s, LAMBDA x, y : x < y)
           drop == Len(s) \div 8
           kept == SubSeq(sorted, drop + 1, Len(s) - drop)
       IN FoldLeft(LAMBDA x, y : x + y, 0, kept) \div Len(kept)

ar_protemp_to_celsius(raw) == Cut(raw * 5320 - 1373400, 10000)

(***************************************************************************)
(* The pulses.                                                             *)
(***************************************************************************)
ar_pwm_ns_to_cycles(ns) == (ns * RateNum + RateDen \div 2) \div RateDen
Nanoseconds(cycles) == (cycles * RateDen + RateNum \div 2) \div RateNum

\* The registers after ar_pwm_apply
Applied(s) ==
  LET duty == IF s.duty < s.period THEN s.duty ELSE s.period
  IN [off |-> ar_pwm_ns_to_cycles(s.period - duty), on |-> ar_pwm_ns_to_cycles(duty),
      ctrl |-> s.enabled]

ar_pwm_get_state(r) ==
  [period |-> Nanoseconds(r.off + r.on), duty |-> Nanoseconds(r.on), enabled |-> r.ctrl]

PwmInit == pwm = [off |-> 0, on |-> 0, ctrl |-> FALSE]

ar_pwm_apply == \E s \in Pulse : pwm' = Applied(s)

(***************************************************************************)
(* Properties.                                                             *)
(***************************************************************************)

\* A line that its client has made an output drives the value last asked for,
\* from the moment it drives at all, whatever the clients of the other lines
\* of its bank do meanwhile; a line that is an input does not drive.  What the
\* bootloader drives stays as it is until the bank's first direction is
\* written: the shadow of the directions does not know of it.  Each number of
\* the board has its bit (ar_gpio_set, ar_gpio_dir_out, ar_gpio_of_xlate).
LinesHold ==
  /\ \A n \in Lines :
       LET drives == Bit(n) \notin dirin
           high == Bit(n) \in set
       IN /\ n \notin hand => drives = (asked[n] \in Levels)
          /\ drives => high = (asked[n] = "high")
  /\ \A n \in BootLines :
       /\ Bit(n) \in set
       /\ Bit(n) \in dirin => Bit(n)[1] \in turned
  /\ \A n \in 0..109 : Cardinality({b \in 1..7 : Takes(b, n)}) = 1

\* A reading is the mean of the channel that was asked for, measured at its
\* pin and not at the reference, whoever else reads; the voltage that a code
\* stands for grows with it, and is the reference's for the code of it.
ReadingsTrue ==
  /\ \A r \in Reader : at[r] = "out" => code[r] = Input[want[r]]
  /\ at["calibrate"] = "out" => code_ref = RefCode
  /\ \A c \in Channel :
       LET mv(x) == ar_adc_code_to_mv(code_ref[c], x)
       IN /\ mv(1024) = 2113
          /\ mv(Input[c]) =< mv(Input[c] + 1)
          /\ code_ref[c] \in 1..1023 => mv(code_ref[c]) = 894

\* A burst that the code moves through, and where a move falls between the two
\* halves of one sample, still gives a code that was there during the burst,
\* or lies between two such; degrees are cut off towards zero and grow with it.
BurstTrue ==
  /\ Len(buf) = TempCount =>
       ar_protemp_reduce(buf) \in Min(shown)..Max(shown)
  /\ LET exact == temp * 5320 - 1373400
         cut == ar_protemp_to_celsius(temp)
     IN /\ 10000 * cut - exact \in -9999..9999
        /\ cut =< ar_protemp_to_celsius(temp + 1)

\* What get_state reports, applied, changes nothing; the pulse is never longer
\* than the period (ar_pwm_apply, ar_pwm_get_state).
PulseKept ==
  LET s == ar_pwm_get_state(pwm)
  IN Applied(s) = pwm /\ s.duty =< s.period
================================================================================
