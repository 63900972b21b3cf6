---------------------------- MODULE MfrUtil_proofs ----------------------------
(***************************************************************************)
(* Theorems about MfrUtil: what the caller reads and what is left behind,  *)
(* with and without --PDRIVersion.                                         *)
(***************************************************************************)
EXTENDS MfrUtil, SequenceTheorems, TLAPS

\* The line that tells the outcome main returns.
Outcome(l) ==
    IF exit = 0
    THEN /\ l \in {Line("answer", Promised[argument]), Line("call failed", Promised[argument])}
         /\ l.says = "answer" => ret = "SUCCESS"
    ELSE l \in {Line("help", "none"), Line("dup failed", "none")}

\* Once main has decided what to return, one line says so, written out or not.
Told ==
    \/ /\ stdout = "caller"
       /\ \E l : /\ Outcome(l)
                 /\ \/ seen = <<>> /\ buffer = <<l>>
                    \/ seen = <<l>> /\ buffer = <<>>
    \/ stdout # "caller" /\ seen = <<>> /\ exit = -1

(* Where main is tells what stdout is, and that nobody has read anything yet. *)
StdoutInv ==
    /\ argument \in Arguments
    /\ main \in {"start", "freopen", "open", "call", "close", "fflush", "dup2",
                "report", "return", "done", "crashed"}
    /\ main \in {"start", "freopen", "report"} =>
        stdout = "caller" /\ seen = <<>> /\ buffer = <<>>
    /\ main \in {"open", "call", "close", "fflush", "dup2"} =>
        stdout = "null" /\ seen = <<>>
    /\ main = "dup2" => buffer = <<>>
    /\ main = "return" => Told
    /\ main = "crashed" => seen = <<>>
    /\ main = "done" => Told /\ buffer = <<>>

(* An answer is that of a call that succeeded, and the one that was asked for. *)
AnswerInv ==
    /\ main \in {"freopen", "open", "call", "close", "fflush", "dup2", "report"} =>
        paramIndex # 0
    /\ main \in {"close", "fflush", "dup2", "report"} =>
        \/ mfrReadBuf = "NULL"
        \/ ret = "SUCCESS" /\ mfrReadBuf = mfr_args[paramIndex]

Inv == StdoutInv /\ AnswerInv

(* What a line is of does not change what it says. *)
LEMMA LineSays ==
    ASSUME NEW what, NEW type, NEW l, l = Line(what, type), NEW other, what # other
    PROVE  l.says # other
BY DEF Line

(* The three arrays agree with what the usage promises. *)
LEMMA ArraysAgree ==
    ASSUME argument \in Arguments, paramIndex # 0
    PROVE  /\ mfr_args[paramIndex] = Promised[argument]
           /\ mfr_args_str[paramIndex] = Promised[argument]
           /\ mfr_args[paramIndex] # "NULL"
<1> DEFINE i == paramIndex
<1>1. i \in 1 .. numberOfParams /\ validParams[i] = argument
  BY DEF paramIndex, validateParams
<1>2. i \in 1 .. 7
  BY <1>1 DEF numberOfParams
<1>3. CASE i = 1
  BY <1>1, <1>3 DEF validParams, mfr_args, mfr_args_str, Promised
<1>4. CASE i = 2
  BY <1>1, <1>4 DEF validParams, mfr_args, mfr_args_str, Promised
<1>5. CASE i = 3
  BY <1>1, <1>5 DEF validParams, mfr_args, mfr_args_str, Promised
<1>6. CASE i = 4
  BY <1>1, <1>6 DEF validParams, mfr_args, mfr_args_str, Promised
<1>7. CASE i = 5
  BY <1>1, <1>7 DEF validParams, mfr_args, mfr_args_str, Promised
<1>8. CASE i = 6
  BY <1>1, <1>8 DEF validParams, mfr_args, mfr_args_str, Promised
<1>9. CASE i = 7
  BY <1>1, <1>9 DEF validParams, mfr_args, mfr_args_str, Promised
<1>. QED
  BY <1>2, <1>3, <1>4, <1>5, <1>6, <1>7, <1>8, <1>9

(* Writing the buffer out leaves what is told as it is. *)
LEMMA WritingKeepsTold ==
    ASSUME Told, WriteOut, UNCHANGED <<argument, stdout, ret, exit>>
    PROVE  Told' /\ buffer' = <<>>
<1>1. CASE stdout = "caller"
  <2>1. PICK l : /\ Outcome(l)
                 /\ \/ seen = <<>> /\ buffer = <<l>>
                    \/ seen = <<l>> /\ buffer = <<>>
    BY <1>1 DEF Told
  <2>2. seen' = seen \o buffer /\ buffer' = <<>>
    BY <1>1 DEF WriteOut
  <2>3. <<>> \o <<l>> = <<l>> /\ <<l>> \o <<>> = <<l>>
    OBVIOUS
  <2>4. seen' = <<l>>
    BY <2>1, <2>2, <2>3
  <2>5. Outcome(l)'
    BY <2>1 DEF Outcome
  <2>. QED
    BY <1>1, <2>2, <2>4, <2>5 DEF Told
<1>2. CASE stdout # "caller"
  BY <1>2 DEF Told, WriteOut
<1>. QED
  BY <1>1, <1>2

(* What main prints last is the outcome it returns. *)
LEMMA PrintingTells ==
    ASSUME stdout = "caller", seen = <<>>, buffer = <<>>,
           UNCHANGED <<stdout, seen>>,
           NEW l, buffer' = Append(buffer, l), Outcome(l)'
    PROVE  Told'
BY DEF Told

LEMMA Invariant == Spec => []Inv
<1>1. Init => Inv
  BY DEF Init, Inv, StdoutInv, AnswerInv
<1>2. Inv /\ [Next]_vars => Inv'
  <2> SUFFICES ASSUME Inv, [Next]_vars PROVE Inv'
    OBVIOUS
  <2> USE DEF Inv
  <2>1. CASE DisplayHelp
    <3>1. /\ main = "start" /\ main' = "return" /\ exit' = -1
          /\ argument' = argument /\ UNCHANGED <<stdout, seen>>
          /\ buffer' = Append(buffer, Line("help", "none"))
      BY <2>1 DEF DisplayHelp, Goto, printf
    <3>2. Outcome(Line("help", "none"))'
      BY <3>1 DEF Outcome
    <3>3. Told'
      BY <3>1, <3>2, PrintingTells DEF StdoutInv
    <3>. QED
      BY <3>1, <3>3 DEF StdoutInv, AnswerInv
  <2>2. CASE Dup
    <3>1. argument' = argument /\ UNCHANGED <<stdout, seen>> /\ main = "start"
          /\ paramIndex # 0
      BY <2>2 DEF Dup, Goto
    <3>2. CASE main' = "freopen"
      BY <2>2, <3>1, <3>2 DEF Dup, Goto, StdoutInv, AnswerInv, paramIndex
    <3>3. CASE main' # "freopen"
      <4>1. /\ main' = "return" /\ exit' = -1
            /\ buffer' = Append(buffer, Line("dup failed", "none"))
        BY <2>2, <3>3 DEF Dup, Goto, printf
      <4>2. exit' # 0
        <5>1. exit' = -1
          BY <4>1
        <5>. QED
          BY <5>1
      <4>3. Outcome(Line("dup failed", "none"))'
        BY <4>2 DEF Outcome
      <4>4. Told'
        BY <3>1, <4>1, <4>3, PrintingTells DEF StdoutInv
      <4>. QED
        BY <3>1, <4>1, <4>4 DEF StdoutInv, AnswerInv
    <3>. QED
      BY <3>2, <3>3
  <2>3. CASE Freopen
    <3>1. /\ main = "freopen" /\ argument' = argument
          /\ \/ main' = "open" /\ stdout' = "null"
             \/ main' = "return" /\ stdout' = "closed" /\ exit' = -1
      BY <2>3 DEF Freopen, Goto
    <3>2. seen = <<>> /\ buffer = <<>> /\ paramIndex # 0
      BY <3>1 DEF StdoutInv, AnswerInv
    <3>3. seen' = <<>>
      <4>1. <<>> \o <<>> = <<>>
        OBVIOUS
      <4>. QED
        BY <2>3, <3>2, <4>1 DEF Freopen, WriteOut
    <3>4. paramIndex' = paramIndex
      BY <3>1 DEF paramIndex
    <3>. QED
      BY <3>1, <3>2, <3>3, <3>4 DEF StdoutInv, AnswerInv, Told
  <2>4. CASE BusOpen \/ BusClose
    BY <2>4 DEF BusOpen, BusClose, BusCall, Goto, StdoutInv, AnswerInv, paramIndex
  <2>5. CASE Crash
    BY <2>5 DEF Crash, Goto, StdoutInv, AnswerInv
  <2>6. CASE GetSerializedData
    <3>1. /\ main = "call" /\ main' = "close"
          /\ UNCHANGED <<argument, stdout, seen>>
      BY <2>6 DEF GetSerializedData, BusCall, Goto
    <3>2. \/ mfrReadBuf' = "NULL"
          \/ ret' = "SUCCESS" /\ mfrReadBuf' = mfr_args[paramIndex]
      BY <2>6 DEF GetSerializedData
    <3>3. paramIndex' = paramIndex
      BY <3>1 DEF paramIndex
    <3>. QED
      BY <3>1, <3>2, <3>3 DEF StdoutInv, AnswerInv
  <2>7. CASE Fflush
    BY <2>7 DEF Fflush, WriteOut, Goto, busVars, StdoutInv, AnswerInv, paramIndex
  <2>8. CASE Dup2
    BY <2>8 DEF Dup2, Goto, busVars, StdoutInv, AnswerInv, Told, paramIndex
  <2>9. CASE Report
    <3>1. /\ main = "report" /\ main' = "return" /\ exit' = 0
          /\ UNCHANGED <<argument, stdout, seen, ret>>
      BY <2>9 DEF Report, Goto
    <3>2. PICK l : /\ buffer' = Append(buffer, l)
                   /\ \/ l = Line("call failed", mfr_args_str[paramIndex])
                      \/ mfrReadBuf # "NULL" /\ l = Line("answer", mfrReadBuf)
      BY <2>9 DEF Report, printf
    <3>3. /\ argument \in Arguments /\ paramIndex # 0
          /\ mfrReadBuf # "NULL" =>
                ret = "SUCCESS" /\ mfrReadBuf = mfr_args[paramIndex]
      BY <3>1 DEF StdoutInv, AnswerInv
    <3>4. /\ l \in {Line("answer", Promised[argument]),
                   Line("call failed", Promised[argument])}
          /\ l.says = "answer" => ret = "SUCCESS"
      <4>1. CASE l = Line("call failed", mfr_args_str[paramIndex])
        <5>1. l.says # "answer"
          BY <4>1, LineSays, "call failed" # "answer"
        <5>. QED
          BY <4>1, <5>1, <3>3, ArraysAgree
      <4>2. CASE mfrReadBuf # "NULL" /\ l = Line("answer", mfrReadBuf)
        BY <4>2, <3>3, ArraysAgree
      <4>. QED
        BY <3>2, <4>1, <4>2
    <3>5. Outcome(l)'
      BY <3>1, <3>4 DEF Outcome
    <3>6. Told'
      BY <3>1, <3>2, <3>5, PrintingTells DEF StdoutInv
    <3>. QED
      BY <3>1, <3>6 DEF StdoutInv, AnswerInv
  <2>10. CASE Exit
    <3>1. main = "return" /\ main' = "done" /\ UNCHANGED <<argument, stdout, ret, exit>>
      BY <2>10 DEF Exit, Goto, busVars
    <3>2. Told' /\ buffer' = <<>>
      BY <2>10, <3>1, WritingKeepsTold DEF Exit, StdoutInv
    <3>. QED
      BY <3>1, <3>2 DEF StdoutInv, AnswerInv
  <2>11. CASE LibraryWrites
    <3>1. /\ UNCHANGED <<main, argument, stdout, ret, mfrReadBuf, exit>>
          /\ WriteOut /\ buffer # <<>> /\ main \notin {"done", "crashed"}
      BY <2>11 DEF LibraryWrites, busVars
    <3>2. CASE main = "return"
      <4>1. Told'
        BY <3>1, <3>2, WritingKeepsTold DEF StdoutInv
      <4>. QED
        BY <3>1, <3>2, <4>1 DEF StdoutInv, AnswerInv
    <3>3. CASE main # "return"
      BY <3>1, <3>3 DEF WriteOut, StdoutInv, AnswerInv, paramIndex
    <3>. QED
      BY <3>2, <3>3
  <2>12. CASE UNCHANGED vars
    BY <2>12 DEF vars, busVars, StdoutInv, AnswerInv, Told, Outcome, paramIndex
  <2>. QED
    BY <2>1, <2>2, <2>3, <2>4, <2>5, <2>6, <2>7, <2>8, <2>9, <2>10, <2>11, <2>12 DEF Next
<1>. QED
  BY <1>1, <1>2, PTL DEF Spec

(* The caller never reads what the bus library prints, whenever it prints and
   whenever the buffer is written out (sys_mfr_utils.c:98-142). *)
THEOREM CallerSeesNoDebug == Spec => []NoDebugPrints
<1>1. Inv => NoDebugPrints
  <2> SUFFICES ASSUME Inv, NEW k \in DOMAIN seen PROVE seen[k].says # "debug"
    BY DEF NoDebugPrints
  <2>1. seen # <<>>
    OBVIOUS
  <2>2. CASE Told
    <3>1. PICK l : Outcome(l) /\ seen = <<l>>
      BY <2>1, <2>2 DEF Told
    <3>2. \/ l = Line("answer", Promised[argument])
          \/ l = Line("call failed", Promised[argument])
          \/ l = Line("help", "none")
          \/ l = Line("dup failed", "none")
      BY <3>1 DEF Outcome
    <3>3. l.says # "debug"
      <4>1. CASE l = Line("answer", Promised[argument])
        BY <4>1, LineSays, "answer" # "debug"
      <4>2. CASE l = Line("call failed", Promised[argument])
        BY <4>2, LineSays, "call failed" # "debug"
      <4>3. CASE l = Line("help", "none")
        BY <4>3, LineSays, "help" # "debug"
      <4>4. CASE l = Line("dup failed", "none")
        BY <4>4, LineSays, "dup failed" # "debug"
      <4>. QED
        BY <3>2, <4>1, <4>2, <4>3, <4>4
    <3>4. k = 1 /\ seen[k] = l
      BY <3>1
    <3>. QED
      BY <3>3, <3>4
  <2>3. CASE ~Told
    BY <2>1, <2>3 DEF Inv, StdoutInv
  <2>. QED
    BY <2>2, <2>3
<1>. QED
  BY <1>1, Invariant, PTL

(* What the caller has read when main returns is the outcome, of the question it
   asked (sys_mfr_utils.c:34-44, 84-153). *)
THEOREM CallerToldOutcome == Spec => []OutcomeTold
<1>1. Inv => OutcomeTold
  <2> SUFFICES ASSUME Inv, main = "done"
               PROVE  IF exit = 0
                      THEN /\ Len(seen) = 1
                           /\ seen[1] \in {Line("answer", Promised[argument]),
                                           Line("call failed", Promised[argument])}
                           /\ seen[1].says = "answer" => ret = "SUCCESS"
                      ELSE seen \in {<<>>, <<Line("help", "none")>>,
                                    <<Line("dup failed", "none")>>}
    BY DEF OutcomeTold
  <2>1. Told /\ buffer = <<>>
    BY DEF Inv, StdoutInv
  <2>2. CASE stdout = "caller"
    <3>1. PICK l : Outcome(l) /\ seen = <<l>>
      BY <2>1, <2>2 DEF Told
    <3>2. Len(seen) = 1 /\ seen[1] = l
      BY <3>1
    <3>. QED
      BY <3>1, <3>2 DEF Outcome
  <2>3. CASE stdout # "caller"
    <3>1. seen = <<>> /\ exit = -1
      BY <2>1, <2>3 DEF Told
    <3>2. exit # 0
      BY <3>1
    <3>. QED
      BY <3>1, <3>2
  <2>. QED
    BY <2>2, <2>3
<1>. QED
  BY <1>1, Invariant, PTL

(* What main holds, and where. *)
HoldInv ==
    /\ main \in {"start", "freopen", "open", "fflush", "dup2", "report", "return", "done"} =>
        bus = "down" /\ param # "allocated"
    /\ main \in {"start", "report", "return", "done"} => fp_old # "open"

(* Whatever failed on the way, main returns with the bus left, the memory given
   back and the saved descriptor closed (sys_mfr_utils.c:106, 130-142). *)
THEOREM EverythingReleased == Spec => []AllReleased
<1>1. Init => HoldInv
  BY DEF Init, HoldInv
<1>2. HoldInv /\ [Next]_vars => HoldInv'
  <2> SUFFICES ASSUME HoldInv, [Next]_vars PROVE HoldInv'
    OBVIOUS
  <2>1. CASE DisplayHelp \/ Dup \/ Report
    BY <2>1 DEF DisplayHelp, Dup, Report, Goto, busVars, HoldInv
  <2>2. CASE Freopen
    BY <2>2 DEF Freopen, Goto, busVars, HoldInv
  <2>3. CASE BusOpen \/ Crash \/ GetSerializedData
    BY <2>3 DEF BusOpen, Crash, GetSerializedData, BusCall, Goto, busVars, HoldInv
  <2>4. CASE BusClose
    BY <2>4 DEF BusClose, BusCall, Goto, HoldInv
  <2>5. CASE Fflush \/ Exit
    BY <2>5 DEF Fflush, Exit, Goto, busVars, HoldInv
  <2>6. CASE Dup2
    BY <2>6 DEF Dup2, Goto, busVars, HoldInv
  <2>7. CASE LibraryWrites \/ UNCHANGED vars
    BY <2>7 DEF LibraryWrites, vars, busVars, HoldInv
  <2>. QED
    BY <2>1, <2>2, <2>3, <2>4, <2>5, <2>6, <2>7 DEF Next
<1>3. HoldInv => AllReleased
  BY DEF HoldInv, AllReleased
<1>. QED
  BY <1>1, <1>2, <1>3, PTL DEF Spec

-----------------------------------------------------------------------------
(* Every line printed is one of Lines: there is no telling what main has asked for
   without an index into the arrays, and it has one when it comes to that. *)
LEMMA LinesPrinted ==
    /\ Line("help", "none") \in Lines /\ Line("debug", "none") \in Lines
    /\ Line("dup failed", "none") \in Lines /\ Line("dup2 failed", "none") \in Lines
    /\ \A i \in 1 .. 7 : /\ Line("answer", mfr_args[i]) \in Lines
                         /\ Line("call failed", mfr_args_str[i]) \in Lines
                         /\ mfr_args[i] \in {mfr_args[j] : j \in DOMAIN mfr_args}
<1>1. DOMAIN mfr_args = 1 .. 7 /\ DOMAIN mfr_args_str = 1 .. 7
  BY DEF mfr_args, mfr_args_str
<1>. QED
  BY <1>1 DEF Lines

LEMMA IndexInArrays ==
    ASSUME paramIndex # 0
    PROVE  paramIndex \in 1 .. 7
<1>1. paramIndex \in 1 .. numberOfParams
  BY DEF paramIndex, validateParams
<1>. QED
  BY <1>1 DEF numberOfParams

\* What is printed, and what is written out, stays among the lines there are.
LEMMA BufferType ==
    ASSUME TypeOK
    PROVE  /\ \A l \in Lines : buffer' = Append(buffer, l) => buffer' \in Seq(Lines)
           /\ WriteOut => buffer' \in Seq(Lines) /\ seen' \in Seq(Lines)
<1>1. \A l \in Lines : Append(buffer, l) \in Seq(Lines)
  BY DEF TypeOK
<1>2. ASSUME WriteOut
      PROVE  buffer' \in Seq(Lines) /\ seen' \in Seq(Lines)
  <2>1. seen \o buffer \in Seq(Lines) /\ <<>> \in Seq(Lines)
    BY ConcatProperties, EmptySeq DEF TypeOK
  <2>. QED
    BY <1>2, <2>1 DEF WriteOut, TypeOK
<1>. QED
  BY <1>1, <1>2

(* Types, what is on its way to the caller included. *)
THEOREM TypeCorrect == Spec => []TypeOK
<1>1. Init => TypeOK
  <2> SUFFICES ASSUME Init PROVE TypeOK
    OBVIOUS
  <2>1. buffer \in Seq(Lines) /\ seen \in Seq(Lines)
    BY EmptySeq DEF Init
  <2>. QED
    BY <2>1 DEF Init, TypeOK
<1>2. TypeOK /\ Inv /\ [Next]_vars => TypeOK'
  <2> SUFFICES ASSUME TypeOK, Inv, [Next]_vars PROVE TypeOK'
    OBVIOUS
  <2>1. CASE DisplayHelp
    <3>1. buffer' \in Seq(Lines)
      BY <2>1, LinesPrinted, BufferType DEF DisplayHelp, printf
    <3>. QED
      BY <2>1, <3>1 DEF DisplayHelp, Goto, busVars, TypeOK
  <2>2. CASE Dup
    <3>1. buffer' \in Seq(Lines)
      BY <2>2, LinesPrinted, BufferType DEF Dup, printf, TypeOK
    <3>. QED
      BY <2>2, <3>1 DEF Dup, Goto, busVars, TypeOK
  <2>3. CASE Freopen
    <3>1. buffer' \in Seq(Lines) /\ seen' \in Seq(Lines)
      BY <2>3, BufferType DEF Freopen
    <3>. QED
      BY <2>3, <3>1 DEF Freopen, Goto, busVars, TypeOK
  <2>4. CASE BusOpen \/ GetSerializedData \/ BusClose
    <3>1. /\ main' \in {"call", "close", "fflush"}
          /\ UNCHANGED <<argument, stdout, fp_old, seen, exit>>
      BY <2>4 DEF BusOpen, GetSerializedData, BusClose, BusCall, Goto
    <3>2. buffer' \in Seq(Lines)
      <4>1. buffer' = buffer \/ buffer' = Append(buffer, Line("debug", "none"))
        BY <2>4 DEF BusOpen, GetSerializedData, BusClose, BusCall, printf
      <4>. QED
        BY <4>1, LinesPrinted, BufferType DEF TypeOK
    <3>3. CASE BusOpen
      BY <3>1, <3>2, <3>3 DEF BusOpen, TypeOK
    <3>4. CASE GetSerializedData
      <4>1. main = "call" /\ paramIndex # 0
        BY <3>4 DEF GetSerializedData, BusCall, Goto, Inv, AnswerInv
      <4>2. mfrReadBuf' \in {"NULL", mfr_args[paramIndex]} /\ ret' \in {"SUCCESS", "FAIL"}
        BY <3>4 DEF GetSerializedData, Results
      <4>3. mfr_args[paramIndex] \in {mfr_args[j] : j \in DOMAIN mfr_args}
        BY <4>1, IndexInArrays, LinesPrinted
      <4>. QED
        BY <3>1, <3>2, <3>4, <4>2, <4>3 DEF GetSerializedData, TypeOK
    <3>5. CASE BusClose
      BY <3>1, <3>2, <3>5 DEF BusClose, TypeOK
    <3>. QED
      BY <2>4, <3>3, <3>4, <3>5
  <2>5. CASE Crash
    BY <2>5 DEF Crash, Goto, busVars, TypeOK
  <2>6. CASE Fflush \/ Exit \/ LibraryWrites
    <3>1. buffer' \in Seq(Lines) /\ seen' \in Seq(Lines)
      BY <2>6, BufferType DEF Fflush, Exit, LibraryWrites
    <3>2. /\ main' \in {main, "dup2", "done"}
          /\ UNCHANGED <<argument, stdout, fp_old, busVars, exit>>
      BY <2>6 DEF Fflush, Exit, LibraryWrites, Goto
    <3>. QED
      BY <3>1, <3>2 DEF busVars, TypeOK
  <2>7. CASE Dup2
    <3>1. buffer' \in Seq(Lines)
      BY <2>7, LinesPrinted, BufferType DEF Dup2, printf, TypeOK
    <3>. QED
      BY <2>7, <3>1 DEF Dup2, Goto, busVars, TypeOK
  <2>8. CASE Report
    <3>1. main = "report" /\ paramIndex \in 1 .. 7
      BY <2>8, IndexInArrays DEF Report, Goto, Inv, AnswerInv
    <3>2. PICK l \in Lines : buffer' = Append(buffer, l)
      <4>1. CASE mfrReadBuf = "NULL"
        BY <2>8, <3>1, <4>1, LinesPrinted DEF Report, printf
      <4>2. CASE mfrReadBuf # "NULL"
        <5>1. mfrReadBuf = mfr_args[paramIndex]
          BY <3>1, <4>2 DEF Inv, AnswerInv
        <5>. QED
          BY <2>8, <3>1, <4>2, <5>1, LinesPrinted DEF Report, printf
      <4>. QED
        BY <4>1, <4>2
    <3>3. buffer' \in Seq(Lines)
      BY <3>2, BufferType
    <3>. QED
      BY <2>8, <3>3 DEF Report, Goto, TypeOK
  <2>9. CASE UNCHANGED vars
    BY <2>9 DEF vars, busVars, TypeOK
  <2>. QED
    BY <2>1, <2>2, <2>3, <2>4, <2>5, <2>6, <2>7, <2>8, <2>9 DEF Next
<1>. QED
  BY <1>1, <1>2, Invariant, PTL DEF Spec
=============================================================================
