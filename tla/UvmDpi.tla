-------------------------------- MODULE UvmDpi -------------------------------
(***************************************************************************)
(* The UVM DPI library as one unit, the way uvm_dpi.cc and                 *)
(* uvm_dpi_verilator.cpp include its files.  Its three services share no   *)
(* state, so a behaviour exercises one of them while the others rest.      *)
(***************************************************************************)
EXTENDS UvmHdl, UvmCmdline, UvmRegex

VARIABLE service
dpiVars == <<service, hdlVars, cmdVars, reVars>>

HdlRests == /\ backend = "verilator" /\ lang = "vlog" /\ W \in Widths /\ W = CHOOSE w \in Widths : TRUE
            /\ sig = [b \in Bits |-> "0"] /\ frc = {} /\ value \in Deposits
            /\ value = CHOOSE v \in Deposits : TRUE
            /\ partsel = FALSE /\ ret = 0 /\ call = [op |-> "none"]
CmdRests == argv = <<>> /\ CmdIdle
ReRests == glob = <<>> /\ str = <<>> /\ ReIdle

DpiInit ==
  \/ service = "hdl" /\ HdlInit /\ CmdRests /\ ReRests
  \/ service = "cmdline" /\ CmdInit /\ HdlRests /\ ReRests
  \/ service = "regex" /\ ReInit /\ HdlRests /\ CmdRests

DpiNext ==
  \/ service = "hdl" /\ HdlNext /\ UNCHANGED <<service, cmdVars, reVars>>
  \/ service = "cmdline" /\ CmdNext /\ UNCHANGED <<service, hdlVars, reVars>>
  \/ service = "regex" /\ ReNext /\ UNCHANGED <<service, hdlVars, cmdVars>>

DpiSpec == DpiInit /\ [][DpiNext]_dpiVars
=============================================================================
