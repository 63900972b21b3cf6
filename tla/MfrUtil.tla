------------------------------- MODULE MfrUtil -------------------------------
(***************************************************************************)
(* mfr_util (mfr-utils/sys_mfr_utils.c): one option, one call to the MFR   *)
(* library over the IARM bus, one line on standard output for the script   *)
(* that ran it.  The bus library prints on standard output too, so main    *)
(* points descriptor 1 at /dev/null for as long as the bus is in use, and  *)
(* back again before it reports.                                           *)
(*                                                                         *)
(* What is printed waits in the buffer of stdout and goes to whatever file *)
(* descriptor 1 stands for when the buffer is written out, which the C     *)
(* library may do at any moment.  Every call may fail.  The bus library,   *)
(* the MFR library behind it and the C library are external; of the bus we *)
(* assume that it prints nothing after IARM_Bus_Term.                      *)
(***************************************************************************)
EXTENDS Integers, Sequences

CONSTANT YOCTO_BUILD  \* whether --PDRIVersion is compiled in

ASSUME BuildAssumption == YOCTO_BUILD \in BOOLEAN

validParams ==
    <<"--CurrentImageFilename", "--FlashedFilename", "--Modelname", "--HardwareId",
      "--Manufacturer", "--MfgSerialnumber", "--PDRIVersion">>

numberOfParams == IF YOCTO_BUILD THEN 7 ELSE 6

\* The running and the flashed image have the same name, for the callers' sake.
mfr_args ==
    <<"IMAGENAME", "IMAGENAME", "MODELNAME", "HWID", "MANUFACTURER",
      "MANUFACTURING_SERIALNUMBER", "PDRIVERSION">>

mfr_args_str ==
    <<"IMAGENAME", "IMAGENAME", "MODELNAME", "HWID", "MANUFACTURER",
      "MANUFACTURING_SERIALNUMBER", "PDRIVERSION">>

Arguments == {validParams[i] : i \in DOMAIN validParams} \cup {"--help", "none"}

VARIABLES
    main,             \* where main is
    argument,         \* argv[1]; "none" unless there is exactly one
    stdout,           \* the file behind descriptor 1
    fp_old,           \* the descriptor dup returned
    buffer,           \* lines printed and not yet written out
    seen,             \* lines the caller got
    bus,              \* whether IARM_Bus_Init and IARM_Bus_Connect have worked
    param,            \* the memory IARM_Malloc was asked for
    ret,              \* the result of IARM_Bus_Call
    mfrReadBuf,       \* the answer kept, or "NULL"
    exit              \* what main returns

busVars == <<bus, param, ret, mfrReadBuf>>
vars == <<main, argument, stdout, fp_old, buffer, seen, busVars, exit>>

\* What a line says, and of which piece of data, if of any.
Line(what, type) == [says |-> what, of |-> type]

Lines ==
    {Line(w, "none") : w \in {"help", "dup failed", "dup2 failed", "debug"}}
        \cup {Line("answer", mfr_args[i]) : i \in DOMAIN mfr_args}
        \cup {Line("call failed", mfr_args_str[i]) : i \in DOMAIN mfr_args_str}

TypeOK ==
    /\ main \in {"start", "freopen", "open", "call", "close", "fflush", "dup2",
                "report", "return", "done", "crashed"}
    /\ argument \in Arguments
    /\ stdout \in {"caller", "null", "closed"}
    /\ fp_old \in {"none", "open", "closed"}
    /\ buffer \in Seq(Lines)
    /\ seen \in Seq(Lines)
    /\ bus \in {"down", "connected"}
    /\ param \in {"none", "allocated", "stray", "freed"}
    /\ ret \in {"none", "SUCCESS", "FAIL"}
    /\ mfrReadBuf \in {"NULL"} \cup {mfr_args[i] : i \in DOMAIN mfr_args}
    /\ exit \in {0, -1}

Init ==
    /\ main = "start"
    /\ argument \in Arguments
    /\ stdout = "caller"
    /\ fp_old = "none"
    /\ buffer = <<>>
    /\ seen = <<>>
    /\ bus = "down"
    /\ param = "none"
    /\ ret = "none"
    /\ mfrReadBuf = "NULL"
    /\ exit = 0

Goto(from, to) ==
    /\ main = from
    /\ main' = to

printf(what, type) == buffer' = Append(buffer, Line(what, type))

\* The buffer is written to the file behind descriptor 1.
WriteOut ==
    /\ seen' = IF stdout = "caller" THEN seen \o buffer ELSE seen
    /\ buffer' = <<>>

LibraryWrites ==
    /\ buffer # <<>>
    /\ main \notin {"done", "crashed"}
    /\ WriteOut
    /\ UNCHANGED <<main, argument, stdout, fp_old, busVars, exit>>

-----------------------------------------------------------------------------
\* validateParams: the index of the argument, 0 when there is none.
validateParams(a) ==
    IF \E i \in 1 .. numberOfParams : validParams[i] = a
    THEN CHOOSE i \in 1 .. numberOfParams : validParams[i] = a
    ELSE 0

paramIndex == validateParams(argument)

DisplayHelp ==
    /\ paramIndex = 0
    /\ Goto("start", "return")
    /\ printf("help", "none")
    /\ exit' = -1
    /\ UNCHANGED <<argument, stdout, fp_old, seen, busVars>>

Dup ==
    /\ paramIndex # 0
    /\ \/ /\ Goto("start", "freopen")
          /\ fp_old' = "open"
          /\ UNCHANGED <<buffer, exit>>
       \/ /\ Goto("start", "return")
          /\ printf("dup failed", "none")
          /\ exit' = -1
          /\ UNCHANGED fp_old
    /\ UNCHANGED <<argument, stdout, seen, busVars>>

\* freopen closes stdout first: when it fails, the complaint has nowhere to go.
Freopen ==
    /\ \/ /\ Goto("freopen", "open")
          /\ stdout' = "null"
          /\ UNCHANGED <<fp_old, exit>>
       \/ /\ Goto("freopen", "return")
          /\ stdout' = "closed"
          /\ fp_old' = "closed"
          /\ exit' = -1
    /\ WriteOut
    /\ UNCHANGED <<argument, busVars>>

-----------------------------------------------------------------------------
\* Calls into the bus library, which may print.
BusCall(from, to) ==
    /\ Goto(from, to)
    /\ printf("debug", "none") \/ UNCHANGED buffer
    /\ UNCHANGED <<argument, stdout, fp_old, seen, exit>>

\* All results are ignored: the bus may stay down, param uninitialised.
BusOpen ==
    /\ BusCall("open", "call")
    /\ bus' \in {"down", "connected"}
    /\ param' \in {"allocated", "stray"}
    /\ UNCHANGED <<ret, mfrReadBuf>>

\* Storing through a pointer nobody set may end the process, as may freeing it.
Crash ==
    /\ param = "stray"
    /\ Goto("call", "crashed") \/ Goto("close", "crashed")
    /\ UNCHANGED <<argument, stdout, fp_old, buffer, seen, busVars, exit>>

\* IARM_Bus_Call
Results == {"FAIL"} \cup (IF bus = "connected" THEN {"SUCCESS"} ELSE {})

\* Mutant: the question is kept for the answer.
GetSerializedData_KeepsQuestion ==
    /\ BusCall("call", "close")
    /\ ret' \in Results
    /\ mfrReadBuf' \in {"NULL"} \cup (IF ret' = "SUCCESS" THEN {argument} ELSE {})
    /\ UNCHANGED <<bus, param>>

\* Mutant: the result of the call is not looked at.
GetSerializedData_Unchecked ==
    /\ BusCall("call", "close")
    /\ ret' \in Results
    /\ mfrReadBuf' \in {"NULL", mfr_args[paramIndex]}
    /\ UNCHANGED <<bus, param>>

\* The answer is copied, unless the call or the malloc for the copy failed.
GetSerializedData ==
    /\ BusCall("call", "close")
    /\ ret' \in Results
    /\ mfrReadBuf' \in {"NULL"} \cup
                       (IF ret' = "SUCCESS" THEN {mfr_args[paramIndex]} ELSE {})
    /\ UNCHANGED <<bus, param>>

BusClose ==
    /\ BusCall("close", "fflush")
    /\ param' = "freed"
    /\ bus' = "down"
    /\ UNCHANGED <<ret, mfrReadBuf>>

-----------------------------------------------------------------------------
\* Mutant: the buffer is left to the library.
Fflush_Forgotten ==
    /\ Goto("fflush", "dup2")
    /\ UNCHANGED <<argument, stdout, fp_old, buffer, seen, busVars, exit>>

Fflush ==
    /\ Goto("fflush", "dup2")
    /\ WriteOut
    /\ UNCHANGED <<argument, stdout, fp_old, busVars, exit>>

\* Mutant: the saved descriptor is closed only after a dup2 that worked.
Dup2_LeavesOpen ==
    /\ \/ /\ Goto("dup2", "report")
          /\ stdout' = "caller"
          /\ fp_old' = "closed"
          /\ UNCHANGED <<buffer, exit>>
       \/ /\ Goto("dup2", "return")
          /\ printf("dup2 failed", "none")
          /\ exit' = -1
          /\ UNCHANGED <<stdout, fp_old>>
    /\ UNCHANGED <<argument, seen, busVars>>

\* When dup2 fails, the complaint goes to /dev/null.
Dup2 ==
    /\ \/ /\ Goto("dup2", "report")
          /\ stdout' = "caller"
          /\ UNCHANGED <<buffer, exit>>
       \/ /\ Goto("dup2", "return")
          /\ printf("dup2 failed", "none")
          /\ exit' = -1
          /\ UNCHANGED stdout
    /\ fp_old' = "closed"
    /\ UNCHANGED <<argument, seen, busVars>>

\* A call that failed is reported on stdout, with 0 for the caller.
Report ==
    /\ Goto("report", "return")
    /\ IF mfrReadBuf = "NULL"
       THEN printf("call failed", mfr_args_str[paramIndex])
       ELSE printf("answer", mfrReadBuf)
    /\ mfrReadBuf' = "NULL"
    /\ exit' = 0
    /\ UNCHANGED <<argument, stdout, fp_old, seen, bus, param, ret>>

\* The C library writes out what is left in the buffer when main has returned.
Exit ==
    /\ Goto("return", "done")
    /\ WriteOut
    /\ UNCHANGED <<argument, stdout, fp_old, busVars, exit>>

Next ==
    \/ DisplayHelp \/ Dup \/ Freopen
    \/ BusOpen \/ Crash \/ GetSerializedData \/ BusClose
    \/ Fflush \/ Dup2 \/ Report \/ Exit
    \/ LibraryWrites

Spec == Init /\ [][Next]_vars

-----------------------------------------------------------------------------
(* "redirect stdout to null to avoid printing debug prints from IARM Bus" (98):
   whenever the library prints and whenever the buffer is written out, the caller
   sees none of it, not even what was still buffered when stdout came back. *)
NoDebugPrints == \A k \in DOMAIN seen : seen[k].says # "debug"

\* What the usage promises each option (50-58), apart from the order of the arrays.
Promised ==
    [a \in Arguments |->
        CASE a \in {"--CurrentImageFilename", "--FlashedFilename"} -> "IMAGENAME"
          [] a = "--Modelname" -> "MODELNAME"
          [] a = "--HardwareId" -> "HWID"
          [] a = "--Manufacturer" -> "MANUFACTURER"
          [] a = "--MfgSerialnumber" -> "MANUFACTURING_SERIALNUMBER"
          [] a = "--PDRIVersion" -> "PDRIVERSION"
          [] OTHER -> "none"]

(* A program that returns 0 has told its caller exactly one thing, about the
   option it was given: the answer, which it has only if the call succeeded, or
   that the call failed; and the three arrays that lead from the option to the
   answer, kept in step by hand, agree.  One that returns -1 has told no more
   than why it never came to the call (34-44, 84-108, 137-153). *)
OutcomeTold ==
    main = "done" =>
        IF exit = 0
        THEN /\ Len(seen) = 1
             /\ seen[1] \in {Line("answer", Promised[argument]),
                             Line("call failed", Promised[argument])}
             /\ seen[1].says = "answer" => ret = "SUCCESS"
        ELSE seen \in {<<>>, <<Line("help", "none")>>, <<Line("dup failed", "none")>>}

(* However main returns, the bus has been left and the memory given back, and no
   descriptor of the caller's stdout is held (106, 130-133, 139, 142). *)
AllReleased ==
    main = "done" =>
        /\ bus = "down"
        /\ param # "allocated"
        /\ fp_old # "open"
=============================================================================
