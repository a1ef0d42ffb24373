-------------------------------- MODULE Boot --------------------------------
(***************************************************************************)
(* The boot of the kernel on the hart the firmware enters it with: kmain   *)
(* (src/kernel/kernel.c), the steps of src/kernel/platform_init.c, and     *)
(* panic (src/kernel/panic.c).  What the device tree, the UART, the memory *)
(* map and the firmware answer is chosen once, in board:                   *)
(*   hartid, cpus   the hart that enters, and the cpus of the tree         *)
(*   fails          the steps that report an error                         *)
(*   exts           the SBI extensions the firmware has                    *)
(***************************************************************************)
EXTENDS Naturals, SequencesExt

CONSTANT Boards

VARIABLES
    board,
    phase,    \* "entry", "run", the phases of panic, or where the boot ends
    step,     \* index in Steps of what kmain does next
    console,  \* g_uart_console_ready
    map,      \* g_mm_state has been published
    timer,    \* the timer has been set
    found,    \* extensions whose probe said they exist
    used,     \* extensions of which a function has been called
    said      \* the messages on the console

bootVars == <<board, phase, step, console, map, timer, found, used, said>>

DtbSteps == <<"dtb_pointer", "dtb_init", "cpu_count", "find_hart", "memory", "memory_total",
              "timebase", "timer_node">>

Required == <<"TIME", "HSM", "IPI", "RFENCE">>

Extensions == ToSet(Required) \cup {"SRST"}

\* Mistake to be noticed: the hart's status is asked for before the extensions are.
Steps_statusFirst == DtbSteps \o <<"uart", "validate", "hart_status", "spec_version">> \o Required
                     \o <<"sbi_ready", "build", "dump", "set_timer">>

\* What kmain does, in order.
Steps == DtbSteps \o <<"uart", "validate", "spec_version">> \o Required
         \o <<"sbi_ready", "build", "dump", "hart_status", "set_timer">>

Now == Steps[step]

Running == phase = "run" /\ step <= Len(Steps)

\* The .bss is not cleared before the kernel starts; g_mm_state is in .data, which
\* the image brings.
BootInit ==
    /\ board \in Boards
    /\ phase = "entry" /\ step = 1
    /\ console \in BOOLEAN
    /\ map = FALSE /\ timer = FALSE /\ found = {} /\ used = {} /\ said = <<>>

\* Mistake to be noticed: the .bss keeps what memory held.
EnterKmain_bssKept ==
    /\ phase = "entry"
    /\ phase' = IF board.hartid = 0 THEN "run" ELSE "idle"
    /\ UNCHANGED <<board, step, console, map, timer, found, used, said>>

\* clear_bss, and only hart 0 goes on.
EnterKmain ==
    /\ phase = "entry"
    /\ console' = FALSE
    /\ phase' = IF board.hartid = 0 THEN "run" ELSE "idle"
    /\ UNCHANGED <<board, step, map, timer, found, used, said>>

Says(messages) == said' = IF console THEN said \o messages ELSE said

\* Mistake to be noticed: the extensions for several harts are never asked for.
NotNeeded_always(ext) == ext \in {"IPI", "RFENCE"}

\* With one cpu the extensions for several harts are not asked for.
NotNeeded(ext) == ext \in {"IPI", "RFENCE"} /\ board.cpus = 1

\* The step is done, or the kernel panics.
Do == IF Now \in board.fails THEN phase' = "panic" /\ UNCHANGED step
      ELSE step' = step + 1 /\ UNCHANGED phase

Passed == Now \notin board.fails

-----------------------------------------------------------------------------
\* init_dtb, one query.
InitDtb ==
    /\ Running /\ Now \in ToSet(DtbSteps)
    /\ Do
    /\ UNCHANGED <<board, console, map, timer, found, used, said>>

InitUart ==
    /\ Running /\ Now = "uart"
    /\ Do
    /\ console' = Passed
    /\ said' = IF Passed THEN Append(said, "uart_initialized") ELSE said
    /\ UNCHANGED <<board, map, timer, found, used>>

\* Prints; a failed validation stops nothing.
Validate ==
    /\ Running /\ Now = "validate"
    /\ step' = step + 1
    /\ Says(<<"validation">>)
    /\ UNCHANGED <<board, phase, console, map, timer, found, used>>

\* init_sbi: the base extension is there in every firmware that can be asked.
ReadSpecVersion ==
    /\ Running /\ Now = "spec_version"
    /\ Do
    /\ UNCHANGED <<board, console, map, timer, found, used, said>>

\* require_extension.
RequireExtension ==
    /\ Running /\ Now \in ToSet(Required)
    /\ IF NotNeeded(Now) THEN step' = step + 1 /\ UNCHANGED <<phase, found>>
       ELSE IF Now \in board.exts THEN step' = step + 1 /\ found' = found \cup {Now} /\ UNCHANGED phase
       ELSE phase' = "panic" /\ UNCHANGED <<step, found>>
    /\ UNCHANGED <<board, console, map, timer, used, said>>

SbiReady ==
    /\ Running /\ Now = "sbi_ready"
    /\ step' = step + 1
    /\ Says(<<"sbi_ready">>)
    /\ UNCHANGED <<board, phase, console, map, timer, found, used>>

\* mm_stage2_build publishes the map as its last act.
BuildMap ==
    /\ Running /\ Now = "build"
    /\ Do
    /\ map' = Passed
    /\ UNCHANGED <<board, console, timer, found, used, said>>

DumpMap ==
    /\ Running /\ Now = "dump"
    /\ step' = step + 1
    /\ Says(<<"map">>)
    /\ UNCHANGED <<board, phase, console, map, timer, found, used>>

\* The boot hart must be STARTED.
CheckHart ==
    /\ Running /\ Now = "hart_status"
    /\ Do
    /\ used' = used \cup {"HSM"}
    /\ UNCHANGED <<board, console, map, timer, found, said>>

InitTimer ==
    /\ Running /\ Now = "set_timer"
    /\ Do
    /\ used' = used \cup {"TIME"}
    /\ timer' = Passed
    /\ IF Passed THEN Says(<<"timer_ready">>) ELSE UNCHANGED said
    /\ UNCHANGED <<board, console, map, found>>

\* Mistake to be noticed: wfi without a loop, and the hart runs past the end of kmain.
Idle_noLoop ==
    /\ phase = "run" /\ step > Len(Steps)
    /\ step' = step + 1
    /\ UNCHANGED <<board, phase, console, map, timer, found, used, said>>

Idle ==
    /\ phase = "run" /\ step > Len(Steps)
    /\ phase' = "idle"
    /\ UNCHANGED <<board, step, console, map, timer, found, used, said>>

-----------------------------------------------------------------------------
(* panic.                                                                   *)

\* The message, where there is a console.
SayPanic ==
    /\ phase = "panic"
    /\ Says(<<"panic">>)
    /\ phase' = "stop_harts"
    /\ UNCHANGED <<board, step, console, map, timer, found, used>>

\* A probe of ext and, if it exists, a call of it.
ProbeAndCall(ext) ==
    IF ext \in board.exts
    THEN found' = found \cup {ext} /\ used' = used \cup {ext}
    ELSE UNCHANGED <<found, used>>

StopOtherHarts ==
    /\ phase = "stop_harts"
    /\ ProbeAndCall("IPI")
    /\ phase' = "reset"
    /\ UNCHANGED <<board, step, console, map, timer, said>>

\* Mistake to be noticed: a reset that comes back is tried again.
ShutDown_retries ==
    /\ phase = "reset"
    /\ ProbeAndCall("SRST")
    /\ phase' = IF "SRST" \notin board.exts THEN "halted"
                ELSE IF "reset" \in board.fails THEN "panic" ELSE "off"
    /\ UNCHANGED <<board, step, console, map, timer, said>>

\* Without the extension, or when the call comes back, the hart sleeps for ever.
ShutDown ==
    /\ phase = "reset"
    /\ ProbeAndCall("SRST")
    /\ phase' = IF "SRST" \in board.exts /\ "reset" \notin board.fails THEN "off" ELSE "halted"
    /\ UNCHANGED <<board, step, console, map, timer, said>>

Ended == phase \in {"idle", "off", "halted"}

BootStep ==
    \/ EnterKmain \/ InitDtb \/ InitUart \/ Validate \/ ReadSpecVersion \/ RequireExtension
    \/ SbiReady \/ BuildMap \/ DumpMap \/ CheckHart \/ InitTimer \/ Idle
    \/ SayPanic \/ StopOtherHarts \/ ShutDown

BootNext == BootStep \/ (Ended /\ UNCHANGED bootVars)

BootSpec == BootInit /\ [][BootNext]_bootVars /\ WF_bootVars(BootStep)

-----------------------------------------------------------------------------
BootTypeOK ==
    /\ phase \in {"entry", "run", "panic", "stop_harts", "reset", "idle", "off", "halted"}
    /\ step \in 1 .. Len(Steps) + 1
    /\ console \in BOOLEAN /\ map \in BOOLEAN /\ timer \in BOOLEAN
    /\ found \subseteq Extensions /\ used \subseteq Extensions

\* No function of an SBI extension is called unless a probe said it exists, in
\* the boot as in a panic from any of its steps.
CallsProbed == used \subseteq found

\* A panic is heard exactly when the boot had got past the UART, and it is the
\* last that is heard: console flags left in memory by an earlier kernel, or a
\* failed init, lead to no output on a UART that is not set up.
PastUart == step > Len(DtbSteps) + 1

PanicsAreHeard ==
    phase \in {"stop_harts", "reset", "off", "halted"} =>
        /\ PastUart <=> (said # <<>> /\ Last(said) = "panic")
        /\ ~PastUart => said = <<>>

\* The kernel goes to sleep without a panic only with the console and the timer
\* set up, the map published and every extension the board needs.
Needed == {"TIME", "HSM"} \cup IF board.cpus > 1 THEN {"IPI", "RFENCE"} ELSE {}

IdleIsComplete ==
    phase = "idle" /\ board.hartid = 0 => console /\ map /\ timer /\ Needed \subseteq found

\* The boot comes to an end, whatever fails, also while it panics.
BootEnds == <>Ended
=============================================================================
