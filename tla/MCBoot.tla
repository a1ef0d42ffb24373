------------------------------- MODULE MCBoot -------------------------------
(***************************************************************************)
(* Every set of SBI extensions, with no error or an error of any one step, *)
(* and of the reset besides.                                               *)
(***************************************************************************)
EXTENDS Boot

MCFails == {{}} \cup {{s} : s \in ToSet(DtbSteps) \cup {"uart", "spec_version", "build",
                                                       "hart_status", "set_timer"}}

MCBoards ==
    {[hartid |-> h, cpus |-> c, fails |-> f \cup r, exts |-> e] :
        h \in {0, 1}, c \in {1, 2}, f \in MCFails, r \in {{}, {"reset"}},
        e \in SUBSET {"TIME", "HSM", "IPI", "RFENCE", "SRST"}}
=============================================================================
