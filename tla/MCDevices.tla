------------------------------ MODULE MCDevices ------------------------------
(***************************************************************************)
(* The drivers beside the SDIO one, for model checking.  They share no     *)
(* state with each other that a property here is about, so that one run    *)
(* holds them all: the first state picks the driver that moves, the others *)
(* stay as they were initialised, and the run covers the sum of their      *)
(* state spaces instead of the product.  The modules the proofs are about  *)
(* are extended, so that their assumptions are checked here too; the       *)
(* others are instantiated.                                                *)
(***************************************************************************)
EXTENDS DmaBlit, ScalerEngine, BufCache, CameraChain, IspFrame, CaptureNode, MediaIrq,
        VideoPool, VoScanout, SensorControl, TLC

CONSTANTS
  c1, a1,              \* a process and an address of the MMZ device
  f1, f2, t1, t2,      \* descriptors and threads
  b1, b2, b3, b4,      \* buffers
  rgb, yuv             \* pixel formats

VARIABLES
  driver,  \* the driver that moves
  cpu, cpu_op, crg, leaf, asked, snap, cgu_lock, pll, probed,
  card, card_bound, image, segment, off, rom, addresses, ip_addr, cardFaults, inserts,
  qop, step, qbuf, engine, rx_fifo, tx_fifo, flash, result, lost,
  dirin, set, dir_shadow, out_shadow, line_asked, hand, turned,
  adc, adc_lock, adc_at, adc_want, adc_left, adc_code, code_ref,
  temp, shown, burst, lo, temp_moved, pwm

cguVars == <<cpu, cpu_op, crg, leaf, asked, snap, cgu_lock, pll, probed>>
cardVars == <<card, card_bound, image, segment, off, rom, addresses, ip_addr,
              cardFaults, inserts>>
qspiVars == <<qop, step, qbuf, engine, rx_fifo, tx_fifo, flash, result, lost>>
pinVars == <<dirin, set, dir_shadow, out_shadow, line_asked, hand, turned>>
adcVars == <<adc, adc_lock, adc_at, adc_want, adc_left, adc_code, code_ref>>
tempVars == <<temp, shown, burst, lo, temp_moved>>

\* The thread of each descriptor of the MPP device
OwnFd == t1 :> f1 @@ t2 :> f2

\* The oscillator and the five PLLs behind the CPU clock, in Hz.
Parents == 0 :> 24000000 @@ 1 :> 1000000000 @@ 2 :> 800000000
             @@ 3 :> 666666666 @@ 4 :> 600000000 @@ 5 :> 400000000

Cgu == INSTANCE ClockUnit WITH
  ParentRate <- Parents, MaxDiv <- 128,
  Requests <- {100000, 187000, 410000000},
  Offsets <- {12, 16, 24, 28, 32, 68, 512 + 4}, PixelRate <- 594002000,
  LeafRequests <- {333333333, 500000000, 550000000},
  PllNum <- 4096, BootWord <- 64, Unit <- 16, Band <- 2, Slew <- 8,
  PixelRates <- {0, 100}

\* The four modes, with small numbers for the width, the lines and a register
SensorModes ==
  <<[w |-> 6, lanes |-> 2, vts |-> 7], [w |-> 3, lanes |-> 2, vts |-> 4],
    [w |-> 6, lanes |-> 4, vts |-> 7], [w |-> 4, lanes |-> 4, vts |-> 5]>>
SensorBoot == [exposure |-> 4, gain |-> 1]
SensorBoards == {[lanes |-> 2, force |-> 0, bringup |-> 0],
                 [lanes |-> 4, force |-> 0, bringup |-> 3],
                 [lanes |-> 2, force |-> 3, bringup |-> 1]}

\* Lengths with the edges of one frame: below, at and past a block, and past the
\* largest payload
Card == INSTANCE CardLink WITH
  bound <- card_bound,
  Header <- 2, Block <- 8, Most <- 14, HdrLen <- 3,
  Images <- {[spl |-> 21, troot |-> 0, sig |-> 5, cfg |-> 30],
             [spl |-> 6, troot |-> 8, sig |-> 0, cfg |-> 4],
             [spl |-> 14, troot |-> 1, sig |-> 7, cfg |-> 0]},
  Address <- {"10.0.0.1", "10.0.0.2"}, NoAddress <- "none", Secondary <- FALSE,
  MaxCardFaults <- 2, MaxInserts <- 2

Qspi == INSTANCE QspiTransfer WITH
  op <- qop, buf <- qbuf, rx <- rx_fifo, tx <- tx_fifo,
  Depth <- 2, Cap <- 16,
  Requests <- {[dir |-> "in", nbytes |-> 2], [dir |-> "in", nbytes |-> 13],
               [dir |-> "out", nbytes |-> 12], [dir |-> "out", nbytes |-> 5],
               [dir |-> "out", nbytes |-> 20], [dir |-> "none", nbytes |-> 0]},
  Late <- FALSE, MaxTransfers <- 3

\* Lines on both sides of a bank's edge, and two in one bank with a third that
\* the bootloader drives; the clock of the pulses is 150 MHz.
Board == INSTANCE BoardIo WITH
  asked <- line_asked, at <- adc_at, want <- adc_want, left <- adc_left,
  code <- adc_code, buf <- burst, moved <- temp_moved,
  Lines <- {22, 23, 44}, BootLines <- {0, 43},
  Channel <- {0, 1}, Reader <- {"r1", "r2"}, Input <- 0 :> 300 @@ 1 :> 900,
  RefCode <- 0 :> 430 @@ 1 :> 1024, Warmup <- 2, SampCount <- 2,
  Codes <- 254..258, TempCount <- 8, Moves <- 2,
  Pulse <- [period : {0, 1, 3, 7, 10, 1000, 25003}, duty : {0, 1, 3, 4, 999, 30000},
            enabled : BOOLEAN],
  RateNum <- 3, RateDen <- 20

vars == <<driver, memVars, vbVars, irqVars, bufVars, scVars, blitVars, nodeVars,
          ispVars, chainVars, voVars, cguVars, snVars, cardVars, qspiVars,
          pinVars, adcVars, tempVars, pwm>>

Init ==
  /\ driver \in {"mmz", "mpp", "maps", "scaler", "blit", "capture", "isp",
                 "chain", "vo", "cgu", "sensor", "card", "qspi", "pins", "adc",
                 "temp", "pwm"}
  /\ PoolInit /\ IrqInit /\ BufInit /\ ScInit
  /\ BlitInit /\ NodeInit /\ IspInit /\ ChainInit
  /\ VoInit /\ Cgu!CguInit /\ SnInit
  /\ Card!ClInit /\ Qspi!QpInit
  /\ Board!PinInit /\ Board!AdcInit /\ Board!TempInit /\ Board!PwmInit
  /\ driver = "card" \/ image.spl = 6
  /\ driver = "temp" \/ temp = 254
  /\ driver = "vo" \/ (kms.fb = b1 /\ kms.fmt = rgb)
  /\ driver = "cgu" \/ (cpu.reg.run /\ crg.camera /\ crg.own = [h \in {"lo", "hi"} |-> {}])

\* No driver but d moves.
Only(d) ==
  /\ UNCHANGED driver
  /\ IF d = "mmz" THEN TRUE ELSE UNCHANGED <<memVars, vbVars>>
  /\ IF d = "mpp" THEN TRUE ELSE UNCHANGED irqVars
  /\ IF d = "maps" THEN TRUE ELSE UNCHANGED bufVars
  /\ IF d = "scaler" THEN TRUE ELSE UNCHANGED scVars
  /\ IF d = "blit" THEN TRUE ELSE UNCHANGED blitVars
  /\ IF d = "capture" THEN TRUE ELSE UNCHANGED nodeVars
  /\ IF d = "isp" THEN TRUE ELSE UNCHANGED ispVars
  /\ IF d = "chain" THEN TRUE ELSE UNCHANGED chainVars
  /\ IF d = "vo" THEN TRUE ELSE UNCHANGED voVars
  /\ IF d = "cgu" THEN TRUE ELSE UNCHANGED cguVars
  /\ IF d = "sensor" THEN TRUE ELSE UNCHANGED snVars
  /\ IF d = "card" THEN TRUE ELSE UNCHANGED cardVars
  /\ IF d = "qspi" THEN TRUE ELSE UNCHANGED qspiVars
  /\ IF d = "pins" THEN TRUE ELSE UNCHANGED pinVars
  /\ IF d = "adc" THEN TRUE ELSE UNCHANGED adcVars
  /\ IF d = "temp" THEN TRUE ELSE UNCHANGED tempVars
  /\ IF d = "pwm" THEN TRUE ELSE UNCHANGED pwm

Next ==
  \/ driver = "mmz" /\ PoolNext /\ Only("mmz")
  \/ driver = "mpp" /\ IrqNext /\ Only("mpp")
  \/ driver = "maps" /\ BufNext /\ Only("maps")
  \/ driver = "scaler" /\ ScNext /\ Only("scaler")
  \/ driver = "blit" /\ BlitNext /\ Only("blit")
  \/ driver = "capture" /\ NodeNext /\ Only("capture")
  \/ driver = "isp" /\ IspNext /\ Only("isp")
  \/ driver = "chain" /\ ChainNext /\ Only("chain")
  \/ driver = "vo" /\ VoNext /\ Only("vo")
  \/ driver = "cgu" /\ Cgu!CguNext /\ Only("cgu")
  \/ driver = "sensor" /\ SnNext /\ Only("sensor")
  \/ driver = "card" /\ Card!ClNext /\ Only("card")
  \/ driver = "qspi" /\ Qspi!QpNext /\ Only("qspi")
  \/ driver = "pins" /\ Board!PinNext /\ Only("pins")
  \/ driver = "adc" /\ Board!AdcNext /\ Only("adc")
  \/ driver = "temp" /\ Board!TempNext /\ Only("temp")
  \/ driver = "pwm" /\ Board!ar_pwm_apply /\ Only("pwm")

Spec == Init /\ [][Next]_vars

\* Each property is stated and explained in the module it is taken from; where
\* two of them are about one driver they are checked together, and only where
\* that driver moves: anywhere else its state is its first.
ClocksSteady == driver = "cgu" => Cgu!ClocksSteady
CardBoots ==
  driver = "card" => /\ Card!BootsWhole /\ Card!WireExact
                     /\ Card!PrefixFollows /\ Card!HeadRebuilt
ControllersTrue ==
  /\ driver = "qspi" => Qspi!TransfersTrue /\ Qspi!FifosKept
  /\ driver = "pins" => Board!LinesHold
  /\ driver = "adc" => Board!ReadingsTrue
  /\ driver = "temp" => Board!BurstTrue
  /\ driver = "pwm" => Board!PulseKept
==============================================================================
