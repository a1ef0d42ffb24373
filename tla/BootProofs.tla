----------------------------- MODULE BootProofs -----------------------------
(***************************************************************************)
(* The safety properties of the boot, for every board: any number of cpus, *)
(* any set of extensions, and any set of steps that fail together.         *)
(***************************************************************************)
EXTENDS Boot, TLAPS

\* What the kernel says on the console.
Messages == {"uart_initialized", "validation", "sbi_ready", "map", "timer_ready", "panic"}

\* The flag says that the UART has been set up, except in the memory the kernel finds.
ConsoleInv ==
    /\ phase = "entry" => step = 1
    /\ phase # "entry" => (console <=> PastUart)
    /\ phase = "entry" \/ ~PastUart => said = <<>>
    /\ said \in Seq(Messages)

\* What is there when kmain has got past the step that provides it.
ProvidedInv ==
    /\ step > 12 => "TIME" \in found
    /\ step > 13 => "HSM" \in found
    /\ step > 14 /\ board.cpus > 1 => "IPI" \in found
    /\ step > 15 /\ board.cpus > 1 => "RFENCE" \in found
    /\ step > 17 => map
    /\ step > 20 => timer
    /\ phase = "idle" /\ board.hartid = 0 => step > 20

BootInv == BootTypeOK /\ ConsoleInv /\ ProvidedInv /\ CallsProbed /\ PanicsAreHeard

-----------------------------------------------------------------------------
\* Length and entries of a concatenation.
LEMMA Concat ==
    ASSUME NEW S, NEW s \in Seq(S), NEW t \in Seq(S)
    PROVE  /\ s \o t \in Seq(S) /\ Len(s \o t) = Len(s) + Len(t)
           /\ \A k \in 1 .. Len(s) : (s \o t)[k] = s[k]
           /\ \A k \in 1 .. Len(t) : (s \o t)[Len(s) + k] = t[k]
  OBVIOUS

\* Where each step stands in kmain.
LEMMA StepsAre ==
    /\ Len(Steps) = 20 /\ Len(DtbSteps) = 8
    /\ \A k \in 1 .. 8 : Steps[k] \in ToSet(DtbSteps)
    /\ Steps[9] = "uart" /\ Steps[10] = "validate" /\ Steps[11] = "spec_version"
    /\ Steps[12] = "TIME" /\ Steps[13] = "HSM" /\ Steps[14] = "IPI" /\ Steps[15] = "RFENCE"
    /\ Steps[16] = "sbi_ready" /\ Steps[17] = "build" /\ Steps[18] = "dump"
    /\ Steps[19] = "hart_status" /\ Steps[20] = "set_timer"
  <1> DEFINE names == ToSet(DtbSteps) \cup {"uart", "validate", "spec_version", "TIME", "HSM", "IPI",
                 "RFENCE", "sbi_ready", "build", "dump", "hart_status", "set_timer"}
             early == <<"uart", "validate", "spec_version">>
             late == <<"sbi_ready", "build", "dump", "hart_status", "set_timer">>
             head == DtbSteps \o early
             mid == head \o Required
  <1>1. DtbSteps \in Seq(names) /\ Len(DtbSteps) = 8
    BY DEF DtbSteps, ToSet
  <1>2. /\ early \in Seq(names) /\ Len(early) = 3
        /\ early[1] = "uart" /\ early[2] = "validate" /\ early[3] = "spec_version"
    OBVIOUS
  <1>3. /\ Required \in Seq(names) /\ Len(Required) = 4
        /\ Required[1] = "TIME" /\ Required[2] = "HSM" /\ Required[3] = "IPI" /\ Required[4] = "RFENCE"
    BY DEF Required
  <1>4. /\ late \in Seq(names) /\ Len(late) = 5
        /\ late[1] = "sbi_ready" /\ late[2] = "build" /\ late[3] = "dump"
        /\ late[4] = "hart_status" /\ late[5] = "set_timer"
    OBVIOUS
  <1>5. Steps = mid \o late
    BY DEF Steps
  <1> HIDE DEF early, late, names
  <1>6. /\ head \in Seq(names) /\ Len(head) = 11
        /\ \A k \in 1 .. 8 : head[k] = DtbSteps[k]
        /\ \A k \in 1 .. 3 : head[8 + k] = early[k]
    <2>1. DtbSteps \in Seq(names) /\ early \in Seq(names)
      BY <1>1, <1>2
    <2>2. /\ head \in Seq(names) /\ Len(head) = Len(DtbSteps) + Len(early)
          /\ \A k \in 1 .. Len(DtbSteps) : head[k] = DtbSteps[k]
          /\ \A k \in 1 .. Len(early) : head[Len(DtbSteps) + k] = early[k]
      BY <2>1, Concat
    <2> HIDE DEF head
    <2> QED
      BY <1>1, <1>2, <2>2
  <1> HIDE DEF head
  <1>7. /\ mid \in Seq(names) /\ Len(mid) = 15
        /\ \A k \in 1 .. 11 : mid[k] = head[k]
        /\ \A k \in 1 .. 4 : mid[11 + k] = Required[k]
    <2>1. head \in Seq(names) /\ Required \in Seq(names)
      BY <1>3, <1>6
    <2>2. /\ mid \in Seq(names) /\ Len(mid) = Len(head) + Len(Required)
          /\ \A k \in 1 .. Len(head) : mid[k] = head[k]
          /\ \A k \in 1 .. Len(Required) : mid[Len(head) + k] = Required[k]
      BY <2>1, Concat
    <2> HIDE DEF mid
    <2> QED
      BY <1>3, <1>6, <2>2
  <1> HIDE DEF mid
  <1>8. /\ Len(Steps) = 20
        /\ \A k \in 1 .. 15 : Steps[k] = mid[k]
        /\ \A k \in 1 .. 5 : Steps[15 + k] = late[k]
    <2>1. mid \in Seq(names) /\ late \in Seq(names)
      BY <1>4, <1>7
    <2>2. /\ Len(Steps) = Len(mid) + Len(late)
          /\ \A k \in 1 .. Len(mid) : Steps[k] = mid[k]
          /\ \A k \in 1 .. Len(late) : Steps[Len(mid) + k] = late[k]
      BY <1>5, <2>1, Concat
    <2> QED
      BY <1>4, <1>7, <2>2
  <1>9. \A k \in 1 .. 8 : DtbSteps[k] \in ToSet(DtbSteps)
    BY <1>1 DEF ToSet
  <1>10. /\ head[9] = "uart" /\ head[10] = "validate" /\ head[11] = "spec_version"
    <2>1. head[8 + 1] = "uart" /\ head[8 + 2] = "validate" /\ head[8 + 3] = "spec_version"
      BY <1>2, <1>6
    <2> QED
      BY <2>1
  <1>11. mid[12] = "TIME" /\ mid[13] = "HSM" /\ mid[14] = "IPI" /\ mid[15] = "RFENCE"
    <2>1. mid[11 + 1] = "TIME" /\ mid[11 + 2] = "HSM" /\ mid[11 + 3] = "IPI" /\ mid[11 + 4] = "RFENCE"
      BY <1>3, <1>7
    <2> QED
      BY <2>1
  <1>12. /\ Steps[16] = "sbi_ready" /\ Steps[17] = "build" /\ Steps[18] = "dump"
         /\ Steps[19] = "hart_status" /\ Steps[20] = "set_timer"
    <2>1. /\ Steps[15 + 1] = "sbi_ready" /\ Steps[15 + 2] = "build" /\ Steps[15 + 3] = "dump"
          /\ Steps[15 + 4] = "hart_status" /\ Steps[15 + 5] = "set_timer"
      BY <1>4, <1>8
    <2> QED
      BY <2>1
  <1> QED
    BY <1>1, <1>6, <1>7, <1>8, <1>9, <1>10, <1>11, <1>12

\* A step has one place in kmain.
LEMMA WhereNow ==
    ASSUME BootTypeOK, Running
    PROVE  /\ step \in 1 .. 20 /\ step + 1 \in 1 .. 21
           /\ Now \in ToSet(DtbSteps) => step <= 8
           /\ Now = "uart" <=> step = 9
           /\ Now = "validate" => step = 10
           /\ Now = "spec_version" => step = 11
           /\ Now = "TIME" <=> step = 12
           /\ Now = "HSM" <=> step = 13
           /\ Now = "IPI" <=> step = 14
           /\ Now = "RFENCE" <=> step = 15
           /\ Now = "sbi_ready" => step = 16
           /\ Now = "build" => step = 17
           /\ Now = "dump" => step = 18
           /\ Now = "hart_status" => step = 19
           /\ Now = "set_timer" => step = 20
  <1>1. step \in 1 .. 20
    BY StepsAre DEF BootTypeOK, Running
  <1>2. ToSet(DtbSteps) = {"dtb_pointer", "dtb_init", "cpu_count", "find_hart", "memory",
                           "memory_total", "timebase", "timer_node"}
    BY DEF ToSet, DtbSteps
  <1>3. CASE step \in 1 .. 8
    <2>1. Now \in ToSet(DtbSteps)
      BY <1>3, StepsAre DEF Now
    <2> QED
      BY <1>1, <1>2, <1>3, <2>1
  <1>4. CASE step \in 9 .. 20
    <2>1. step \in {9, 10, 11, 12, 13, 14, 15, 16, 17, 18, 19, 20}
      BY <1>4
    <2> QED
      BY <1>2, <2>1, StepsAre DEF Now
  <1> QED
    BY <1>1, <1>3, <1>4

\* A message more, said with a console, is the last one.
LEMMA SaysType ==
    ASSUME NEW m \in Messages, said \in Seq(Messages), Says(<<m>>)
    PROVE  /\ said' \in Seq(Messages)
           /\ console => said' # <<>> /\ Last(said') = m
           /\ ~console => said' = said
  <1>1. CASE console
    <2>1. said' = said \o <<m>> /\ <<m>> \in Seq(Messages) /\ Len(<<m>>) = 1 /\ <<m>>[1] = m
      BY <1>1 DEF Says
    <2>2. /\ said' \in Seq(Messages) /\ Len(said') = Len(said) + Len(<<m>>)
          /\ \A k \in 1 .. Len(<<m>>) : said'[Len(said) + k] = <<m>>[k]
      BY <2>1, Concat
    <2>3. Len(said') = Len(said) + 1 /\ said'[Len(said) + 1] = m /\ Len(said) \in Nat
      BY <2>1, <2>2
    <2>4. said' # <<>>
      BY <2>3
    <2> QED
      BY <1>1, <2>2, <2>3, <2>4 DEF Last
  <1>2. CASE ~console
    BY <1>2 DEF Says
  <1> QED
    BY <1>1, <1>2

\* Lengths, for the steps that need no names.
LEMMA Lengths ==
    /\ Len(Steps) = 20 /\ Len(DtbSteps) = 8
    /\ PastUart <=> step > 9
    /\ PastUart' <=> step' > 9
  BY StepsAre DEF PastUart

-----------------------------------------------------------------------------
\* The invariant holds before clear_bss.
LEMMA BootInitInv ==
    ASSUME BootInit
    PROVE  BootInv
  <1>1. BootTypeOK
    <2>1. phase = "entry" /\ step \in 1 .. Len(Steps) + 1 /\ found = {} /\ used = {}
      BY Lengths DEF BootInit
    <2>2. console \in BOOLEAN /\ map \in BOOLEAN /\ timer \in BOOLEAN
      BY Zenon DEF BootInit
    <2> QED
      BY <2>1, <2>2 DEF BootTypeOK
  <1>2. ConsoleInv
    BY DEF BootInit, ConsoleInv
  <1>3. ProvidedInv
    BY DEF BootInit, ProvidedInv
  <1> QED
    BY <1>1, <1>2, <1>3 DEF BootInit, BootInv, CallsProbed, PanicsAreHeard

\* clear_bss makes the flag true to the UART.
LEMMA EnterKmainInv ==
    ASSUME BootInv, EnterKmain
    PROVE  BootInv'
  <1>1. /\ phase = "entry" /\ step = 1 /\ said = <<>> /\ phase' \in {"run", "idle"} /\ console' = FALSE
        /\ phase' = "idle" => board.hartid # 0
        /\ UNCHANGED <<board, step, map, timer, found, used, said>>
    BY DEF EnterKmain, BootInv, ConsoleInv
  <1>2. BootTypeOK'
    BY <1>1 DEF BootInv, BootTypeOK
  <1>3. ConsoleInv'
    BY <1>1, Lengths DEF BootInv, ConsoleInv
  <1>4. ProvidedInv'
    BY <1>1 DEF ProvidedInv
  <1> QED
    BY <1>1, <1>2, <1>3, <1>4 DEF BootInv, CallsProbed, PanicsAreHeard

\* The queries before the UART and the call of the base extension.
LEMMA QueryInv ==
    ASSUME BootInv, InitDtb \/ ReadSpecVersion
    PROVE  BootInv'
  <1>1. /\ step \in 1 .. 8 \/ step = 11
        /\ phase = "run" /\ phase' \in {"run", "panic"} /\ step' \in {step, step + 1}
        /\ UNCHANGED <<board, console, map, timer, found, used, said>>
    BY WhereNow DEF BootInv, InitDtb, ReadSpecVersion, Running, Do
  <1>2. (PastUart' <=> PastUart) /\ step' \in 1 .. 12
    BY <1>1, Lengths
  <1>3. BootTypeOK'
    BY <1>1, <1>2, Lengths DEF BootInv, BootTypeOK
  <1>4. ConsoleInv'
    BY <1>1, <1>2 DEF BootInv, ConsoleInv
  <1>5. ProvidedInv'
    BY <1>1, <1>2 DEF ProvidedInv
  <1> QED
    BY <1>1, <1>3, <1>4, <1>5 DEF BootInv, CallsProbed, PanicsAreHeard

\* The console is ready when, and only when, its init has passed.
LEMMA InitUartInv ==
    ASSUME BootInv, InitUart
    PROVE  BootInv'
  <1>1. step = 9 /\ phase = "run"
    BY WhereNow DEF BootInv, InitUart, Running
  <1>2. said = <<>> /\ UNCHANGED <<board, map, timer, found, used>>
    <2>1. said = <<>>
      BY <1>1, Lengths DEF BootInv, ConsoleInv
    <2> QED
      BY <2>1 DEF InitUart
  <1>3. /\ step' \in {9, 10} /\ phase' = IF step' = 9 THEN "panic" ELSE "run"
        /\ console' \in BOOLEAN /\ (console' <=> step' = 10)
        /\ said' = IF step' = 10 THEN Append(said, "uart_initialized") ELSE said
    <2>1. Do /\ said' = IF Passed THEN Append(said, "uart_initialized") ELSE said
      BY DEF InitUart
    <2>2. console' \in BOOLEAN /\ (console' <=> Passed)
      BY Zenon DEF InitUart, Passed
    <2>3. /\ Passed => step' = 10 /\ phase' = "run"
          /\ ~Passed => step' = 9 /\ phase' = "panic"
      BY <1>1, <2>1 DEF Do, Passed
    <2>4. /\ step' \in {9, 10} /\ phase' = IF step' = 9 THEN "panic" ELSE "run"
          /\ step' = 10 <=> Passed
      BY <2>3
    <2> QED
      BY <2>1, <2>2, <2>4
  <1>4. said' \in Seq(Messages) /\ (step' = 9 => said' = <<>>)
    <2>1. said \in Seq(Messages) /\ "uart_initialized" \in Messages
      BY DEF BootInv, ConsoleInv, Messages
    <2> QED
      BY <1>2, <1>3, <2>1
  <1>5. BootTypeOK'
    BY <1>1, <1>2, <1>3, Lengths DEF BootInv, BootTypeOK
  <1>6. ConsoleInv'
    BY <1>3, <1>4, Lengths DEF ConsoleInv
  <1>7. ProvidedInv'
    BY <1>2, <1>3 DEF ProvidedInv
  <1> QED
    BY <1>2, <1>3, <1>5, <1>6, <1>7 DEF BootInv, CallsProbed, PanicsAreHeard

\* Steps that only say something.
LEMMA SayingInv ==
    ASSUME BootInv, Validate \/ SbiReady \/ DumpMap
    PROVE  BootInv'
  <1>1. /\ step \in {10, 16, 18} /\ phase = "run" /\ step' = step + 1
        /\ UNCHANGED <<board, phase, console, map, timer, found, used>>
    BY WhereNow DEF BootInv, Validate, SbiReady, DumpMap, Running
  <1>2. PastUart /\ PastUart' /\ step' \in {11, 17, 19}
    BY <1>1, Lengths
  <1>3. said' \in Seq(Messages)
    BY SaysType DEF Validate, SbiReady, DumpMap, BootInv, ConsoleInv, Messages
  <1>4. BootTypeOK'
    BY <1>1, <1>2, Lengths DEF BootInv, BootTypeOK
  <1>5. ConsoleInv'
    BY <1>1, <1>2, <1>3 DEF BootInv, ConsoleInv
  <1>6. ProvidedInv'
    BY <1>1, <1>2 DEF BootInv, ProvidedInv
  <1> QED
    BY <1>1, <1>4, <1>5, <1>6 DEF BootInv, CallsProbed, PanicsAreHeard

\* An extension the board needs is found before kmain goes on.
LEMMA RequireInv ==
    ASSUME BootInv, RequireExtension
    PROVE  BootInv'
  <1>1. /\ step \in {12, 13, 14, 15} /\ phase = "run" /\ Now \in Extensions
        /\ Now = "TIME" <=> step = 12
        /\ Now = "HSM" <=> step = 13
        /\ Now = "IPI" <=> step = 14
        /\ Now = "RFENCE" <=> step = 15
    <2>1. ToSet(Required) = {"TIME", "HSM", "IPI", "RFENCE"}
      BY DEF ToSet, Required
    <2> QED
      BY <2>1, WhereNow DEF BootInv, RequireExtension, Running, Extensions
  <1>2. /\ found \subseteq found' /\ found' \subseteq Extensions
        /\ UNCHANGED <<board, console, map, timer, used, said>>
    BY <1>1 DEF RequireExtension, BootInv, BootTypeOK
  <1>3. CASE phase' = "panic"
    <2>1. step' = step /\ found' = found
      BY <1>1, <1>3 DEF RequireExtension
    <2> QED
      BY <1>1, <1>2, <1>3, <2>1, Lengths DEF BootInv, BootTypeOK, ConsoleInv, ProvidedInv, CallsProbed,
         PanicsAreHeard
  <1>4. CASE phase' # "panic"
    <2>1. /\ step' = step + 1 /\ phase' = phase
          /\ NotNeeded(Now) \/ Now \in found'
      BY <1>4 DEF RequireExtension
    <2>2. NotNeeded(Now) => (step = 14 \/ step = 15) /\ ~(board.cpus > 1)
      BY <1>1 DEF NotNeeded
    <2>3. ProvidedInv'
      BY <1>1, <1>2, <2>1, <2>2 DEF BootInv, ProvidedInv
    <2> QED
      BY <1>1, <1>2, <2>1, <2>3, Lengths DEF BootInv, BootTypeOK, ConsoleInv, CallsProbed,
         PanicsAreHeard
  <1> QED
    BY <1>3, <1>4

\* The map is there when kmain goes on.
LEMMA BuildInv ==
    ASSUME BootInv, BuildMap
    PROVE  BootInv'
  <1>1. step = 17 /\ phase = "run"
    BY WhereNow DEF BootInv, BuildMap, Running
  <1>2. /\ step' \in {17, 18} /\ phase' = IF step' = 17 THEN "panic" ELSE "run"
        /\ step' = 18 <=> Passed
        /\ map' = Passed
        /\ UNCHANGED <<board, console, timer, found, used, said>>
    BY <1>1 DEF BuildMap, Do, Passed
  <1>3. PastUart /\ PastUart'
    BY <1>1, <1>2, Lengths
  <1>4. BootTypeOK'
    BY <1>2, Lengths DEF BootInv, BootTypeOK, Passed
  <1>5. ConsoleInv'
    BY <1>1, <1>2, <1>3 DEF BootInv, ConsoleInv
  <1>6. ProvidedInv'
    BY <1>1, <1>2 DEF BootInv, ProvidedInv
  <1> QED
    BY <1>2, <1>4, <1>5, <1>6 DEF BootInv, CallsProbed, PanicsAreHeard

\* The two calls of the boot come after the probes of their extensions.
LEMMA CallInv ==
    ASSUME BootInv, CheckHart \/ InitTimer
    PROVE  BootInv'
  <1>1. ((CheckHart /\ step = 19) \/ (InitTimer /\ step = 20)) /\ phase = "run"
    BY WhereNow DEF BootInv, CheckHart, InitTimer, Running
  <1>2. "TIME" \in found /\ "HSM" \in found /\ map
    BY <1>1 DEF BootInv, ProvidedInv
  <1>3. /\ step' \in {step, step + 1} /\ phase' = IF step' = step THEN "panic" ELSE "run"
        /\ UNCHANGED <<board, console, map, found>>
        /\ timer' \in BOOLEAN /\ (step' = 21 => timer')
        /\ used' \subseteq used \cup {"TIME", "HSM"}
    <2>1. Do /\ UNCHANGED <<board, console, map, found>> /\ used' \subseteq used \cup {"TIME", "HSM"}
      BY DEF CheckHart, InitTimer
    <2>2. /\ Passed => step' = step + 1 /\ phase' = "run"
          /\ ~Passed => step' = step /\ phase' = "panic"
      BY <1>1, <2>1 DEF Do, Passed
    <2>3. CASE CheckHart /\ step = 19
      <3>1. timer' = timer /\ timer \in BOOLEAN
        BY <2>3, Zenon DEF CheckHart, BootInv, BootTypeOK
      <3>2. step' # 21
        BY <2>2, <2>3
      <3> QED
        BY <2>1, <2>2, <2>3, <3>1, <3>2
    <2>4. CASE InitTimer /\ step = 20
      <3>1. timer' \in BOOLEAN /\ (timer' <=> Passed)
        BY <2>4, Zenon DEF InitTimer, Passed
      <3>2. step' = 21 <=> Passed
        BY <2>2, <2>4
      <3> QED
        BY <2>1, <2>2, <2>4, <3>1, <3>2
    <2> QED
      BY <1>1, <2>3, <2>4
  <1>4. said' \in Seq(Messages)
    BY SaysType DEF CheckHart, InitTimer, BootInv, ConsoleInv, Messages
  <1>5. PastUart /\ PastUart' /\ step' \in {19, 20, 21}
    BY <1>1, <1>3, Lengths
  <1>6. CallsProbed'
    BY <1>2, <1>3 DEF BootInv, CallsProbed
  <1>7. BootTypeOK'
    BY <1>2, <1>3, <1>5, <1>6, Lengths DEF BootInv, BootTypeOK, CallsProbed
  <1>8. ConsoleInv'
    BY <1>1, <1>3, <1>4, <1>5 DEF BootInv, ConsoleInv
  <1>9. ProvidedInv'
    BY <1>1, <1>2, <1>3, <1>5 DEF BootInv, ProvidedInv
  <1> QED
    BY <1>3, <1>6, <1>7, <1>8, <1>9 DEF BootInv, PanicsAreHeard

\* kmain sleeps after its last step.
LEMMA IdleInv ==
    ASSUME BootInv, Idle
    PROVE  BootInv'
  BY Lengths DEF Idle, BootInv, BootTypeOK, ConsoleInv, ProvidedInv, CallsProbed, PanicsAreHeard

\* The message of a panic is the last one.
LEMMA SayPanicInv ==
    ASSUME BootInv, SayPanic
    PROVE  BootInv'
  <1>1. /\ said' \in Seq(Messages)
        /\ console => said' # <<>> /\ Last(said') = "panic"
        /\ ~console => said' = said
    BY SaysType DEF SayPanic, BootInv, ConsoleInv, Messages
  <1> QED
    BY <1>1, Lengths DEF SayPanic, BootInv, BootTypeOK, ConsoleInv, ProvidedInv, CallsProbed, PanicsAreHeard

\* The firmware calls of a panic follow their own probes.
LEMMA PanicCallsInv ==
    ASSUME BootInv, StopOtherHarts \/ ShutDown
    PROVE  BootInv'
  <1>1. "IPI" \in Extensions /\ "SRST" \in Extensions
    BY DEF Extensions, ToSet, Required
  <1>2. /\ found \subseteq found' /\ found' \subseteq Extensions
        /\ used' \subseteq found' /\ used' \subseteq Extensions
    BY <1>1 DEF StopOtherHarts, ShutDown, ProbeAndCall, BootInv, BootTypeOK, CallsProbed
  <1>3. /\ phase \in {"stop_harts", "reset"} /\ phase' \in {"reset", "off", "halted"}
        /\ UNCHANGED <<board, step, console, map, timer, said>>
    BY DEF StopOtherHarts, ShutDown
  <1> QED
    BY <1>2, <1>3, Lengths DEF BootInv, BootTypeOK, ConsoleInv, ProvidedInv, CallsProbed, PanicsAreHeard

\* Every step keeps the invariant.
LEMMA BootNextInv ==
    ASSUME BootInv, [BootNext]_bootVars
    PROVE  BootInv'
  <1>1. CASE UNCHANGED bootVars
    BY <1>1 DEF bootVars, BootInv, BootTypeOK, ConsoleInv, ProvidedInv, CallsProbed, PanicsAreHeard, PastUart
  <1> QED
    BY <1>1, EnterKmainInv, QueryInv, InitUartInv, SayingInv, RequireInv, BuildInv, CallInv, IdleInv,
       SayPanicInv, PanicCallsInv DEF BootNext, BootStep

\* The inductive invariant holds throughout boot and panic.
THEOREM BootInvHolds == BootSpec => []BootInv
  BY BootInitInv, BootNextInv, PTL DEF BootSpec

\* Boot and panic stay within the steps of kmain (kernel.c:34-112), and use no SBI
\* extension but those the model knows.
THEOREM BootTypeCorrect == BootSpec => []BootTypeOK
  <1>1. BootInv => BootTypeOK
    BY DEF BootInv
  <1> QED
    BY BootInvHolds, <1>1, PTL

\* No function of an SBI extension is called before its probe has succeeded.
THEOREM CallsAreProbed == BootSpec => []CallsProbed
  <1>1. BootInv => CallsProbed
    BY DEF BootInv
  <1> QED
    BY BootInvHolds, <1>1, PTL

\* A panic is heard exactly when the UART has been set up, and nothing is said after
\* it, whatever the console's flag was in the memory the kernel found.
THEOREM EveryPanicIsHeard == BootSpec => []PanicsAreHeard
  <1>1. BootInv => PanicsAreHeard
    BY DEF BootInv
  <1> QED
    BY BootInvHolds, <1>1, PTL

\* A kernel asleep without a panic has set up everything.
THEOREM SleepIsComplete == BootSpec => []IdleIsComplete
  <1>1. BootInv => IdleIsComplete
    <2> SUFFICES ASSUME BootInv, phase = "idle", board.hartid = 0
                 PROVE  console /\ map /\ timer /\ Needed \subseteq found
      BY DEF IdleIsComplete
    <2>1. step > 20 /\ step \in Nat
      BY Lengths DEF BootInv, ProvidedInv, BootTypeOK
    <2>2. console /\ map /\ timer
      BY <2>1, Lengths DEF BootInv, ProvidedInv, ConsoleInv
    <2>3. Needed \subseteq found
      BY <2>1 DEF Needed, BootInv, ProvidedInv
    <2> QED
      BY <2>2, <2>3
  <1> QED
    BY BootInvHolds, <1>1, PTL
=============================================================================
